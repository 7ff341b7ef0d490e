-------------------------- MODULE AlgorithmProofs --------------------------
(***************************************************************************)
(* The pure algorithms of the driver compute what they are meant to, for   *)
(* every input and not only for those of a bounded size.                   *)
(*                                                                         *)
(* What is recursive here recurs over a sequence, so each proof is an      *)
(* induction over it: over a set of sequences that is closed under one     *)
(* more element (SeqInduction), which rests on the order of the natural    *)
(* numbers (Induction).  A recursive definition has its laws from Folding: *)
(* there is a function that solves its equation, and any two that do are   *)
(* alike.                                                                  *)
(***************************************************************************)
EXTENDS Algorithms, SequenceTheorems, FiniteSetTheorems, WellFoundedInduction, TLAPS

-----------------------------------------------------------------------------
(* Induction over numbers and sequences.                                   *)

\* A set of natural numbers that is not empty has a least one (versionBounds).
LEMMA Least ==
  ASSUME NEW S, S \subseteq Nat, S # {}
  PROVE  Min(S) \in S /\ \A x \in S : Min(S) <= x
<1> DEFINE R == OpToRel(<, Nat)
<1>1. \A x, y \in Nat : x < y => <<x, y>> \in R BY DEF OpToRel
<1>2. IsWellFoundedOn(R, Nat) BY NatLessThanWellFounded
<1> HIDE DEF R
<1>3. PICK m \in S : \A x \in S : <<x, m>> \notin R BY <1>2, WFMin
<1>4. ASSUME NEW x \in S, ~(m <= x) PROVE FALSE
  <2>1. x \in Nat /\ m \in Nat /\ x < m BY <1>4
  <2> QED BY <1>1, <1>3, <2>1
<1> QED BY <1>4 DEF Min

\* Induction over the natural numbers, for a set of them: the least number that is not in
\* the set would have a predecessor that is.
LEMMA Induction ==
  ASSUME NEW S, 0 \in S, \A n \in Nat : n \in S => n + 1 \in S
  PROVE  Nat \subseteq S
<1> DEFINE R == OpToRel(<, Nat)
           rest == Nat \ S
<1>1. \A x, y \in Nat : x < y => <<x, y>> \in R BY DEF OpToRel
<1>2. IsWellFoundedOn(R, Nat) BY NatLessThanWellFounded
<1> HIDE DEF R
<1> SUFFICES ASSUME rest # {} PROVE FALSE OBVIOUS
<1>3. PICK m \in rest : \A x \in rest : <<x, m>> \notin R BY <1>2, WFMin
<1>4. m \in Nat /\ m # 0 OBVIOUS
<1>5. m - 1 \in Nat /\ m - 1 < m /\ (m - 1) + 1 = m BY <1>4
<1>6. m - 1 \in rest BY <1>5
<1> QED BY <1>1, <1>3, <1>4, <1>5, <1>6

\* A recursion over the elements of a sequence comes to one result.
Folds(at, S, first, Step, seq) ==
    /\ at \in [0..Len(seq) -> S]
    /\ at[0] = first
    /\ \A n \in 1..Len(seq) : at[n] = Step[at[n - 1]][seq[n]]

\* Whatever the step is, the recursion has a result.
LEMMA Folding ==
  ASSUME NEW S, NEW T, NEW first \in S, NEW Step \in [S -> [T -> S]], NEW seq \in Seq(T)
  PROVE  \E at : Folds(at, S, first, Step, seq)
<1> DEFINE Solves(at, m) == /\ at \in [0..m -> S] /\ at[0] = first
                            /\ \A n \in 1..m : at[n] = Step[at[n - 1]][seq[n]]
           Exists(m) == \E at : Solves(at, m)
           N == {m \in Nat : m <= Len(seq) => Exists(m)}
<1> HIDE DEF Exists
<1>1. 0 \in N
  <2>1. Solves([n \in 0..0 |-> first], 0) OBVIOUS
  <2>2. Exists(0) BY ONLY <2>1 DEF Exists
  <2> QED BY <2>2
<1>2. ASSUME NEW m \in Nat, m \in N PROVE m + 1 \in N
  <2> SUFFICES ASSUME m + 1 <= Len(seq) PROVE Exists(m + 1) OBVIOUS
  <2>0. Exists(m) BY <1>2
  <2>1. PICK f : Solves(f, m) BY ONLY <2>0 DEF Exists
  <2> DEFINE g == [n \in 0..(m + 1) |-> IF n = m + 1 THEN Step[f[m]][seq[m + 1]] ELSE f[n]]
  <2>2. seq[m + 1] \in T /\ f[m] \in S BY <2>1
  <2>3. Step[f[m]][seq[m + 1]] \in S BY <2>2
  <2>4. \A n \in 0..(m + 1) : n # m + 1 => n \in 0..m OBVIOUS
  <2>5. g \in [0..(m + 1) -> S] BY <2>1, <2>3, <2>4
  <2>6. g[0] = first BY <2>1
  <2>7. ASSUME NEW n \in 1..(m + 1) PROVE g[n] = Step[g[n - 1]][seq[n]]
    <3>1. n - 1 \in 0..(m + 1) /\ n - 1 # m + 1 /\ g[n - 1] = f[n - 1] OBVIOUS
    <3>2. CASE n = m + 1 BY <3>1, <3>2
    <3>3. CASE n \in 1..m
      <4>1. g[n] = f[n] BY <3>3
      <4> QED BY <2>1, <3>1, <3>3, <4>1
    <3> QED BY <3>2, <3>3
  <2> HIDE DEF g
  <2>8. Solves(g, m + 1) BY <2>5, <2>6, <2>7
  <2> HIDE DEF Solves
  <2> QED BY <2>8 DEF Exists
<1> HIDE DEF N
<1>3. Nat \subseteq N BY <1>1, <1>2, Induction
<1>4. Exists(Len(seq)) BY <1>3 DEF N
<1> QED BY ONLY <1>4 DEF Exists, Folds

\* Two functions that go on alike from every number they agree at, and start alike.
Parallel(f, g, m) ==
    f[0] = g[0] /\ \A n \in 1..m : f[n - 1] = g[n - 1] => f[n] = g[n]

\* They are alike as far as they go on so.
LEMMA Alike ==
  ASSUME NEW m \in Nat, NEW f, NEW g, Parallel(f, g, m)
  PROVE  \A n \in 0..m : f[n] = g[n]
<1> DEFINE N == {n \in Nat : n <= m => f[n] = g[n]}
<1>1. 0 \in N BY DEF Parallel
<1>2. ASSUME NEW n \in Nat, n \in N PROVE n + 1 \in N
  <2> SUFFICES ASSUME n + 1 <= m PROVE f[n + 1] = g[n + 1] OBVIOUS
  <2>1. f[n] = g[n] /\ n + 1 \in 1..m /\ (n + 1) - 1 = n BY <1>2
  <2> QED BY <2>1 DEF Parallel
<1> HIDE DEF N
<1>3. Nat \subseteq N BY <1>1, <1>2, Induction
<1> QED BY <1>3 DEF N

\* What holds of the empty sequence, and of a sequence with one element more, holds of all.
LEMMA SeqInduction ==
  ASSUME NEW T, NEW Q, <<>> \in Q,
         \A s \in Seq(T), b \in T : s \in Q => Append(s, b) \in Q
  PROVE  Seq(T) \subseteq Q
<1> DEFINE N == {n \in Nat : \A s \in Seq(T) : Len(s) = n => s \in Q}
<1>1. 0 \in N
  <2>1. \A s \in Seq(T) : Len(s) = 0 => s = <<>> OBVIOUS
  <2> QED BY <2>1
<1>2. ASSUME NEW n \in Nat, n \in N PROVE n + 1 \in N
  <2> SUFFICES ASSUME NEW s \in Seq(T), Len(s) = n + 1 PROVE s \in Q OBVIOUS
  <2> DEFINE front == SubSeq(s, 1, n)
  <2>1. front \in Seq(T) /\ Len(front) = n /\ \A i \in 1..n : front[i] = s[i] OBVIOUS
  <2>2. s[n + 1] \in T OBVIOUS
  <2> HIDE DEF front
  <2>3. /\ Append(front, s[n + 1]) \in Seq(T)
        /\ Len(Append(front, s[n + 1])) = n + 1
        /\ \A i \in 1..n : Append(front, s[n + 1])[i] = front[i]
        /\ Append(front, s[n + 1])[n + 1] = s[n + 1]
    BY <2>1, <2>2, AppendProperties
  <2>4. \A i \in 1..(n + 1) : Append(front, s[n + 1])[i] = s[i] BY <2>1, <2>3
  <2>5. Append(front, s[n + 1]) = s BY <2>3, <2>4, SeqEqual
  <2>6. front \in Q BY <1>2, <2>1
  <2> QED BY <2>1, <2>2, <2>5, <2>6
<1> HIDE DEF N
<1>3. Nat \subseteq N BY <1>1, <1>2, Induction
<1> QED BY <1>3 DEF N

\* A sequence with one element more.
LEMMA Appended ==
  ASSUME NEW T, NEW s \in Seq(T), NEW b \in T
  PROVE  /\ Append(s, b) \in Seq(T) /\ Append(s, b) # <<>>
         /\ Len(Append(s, b)) = Len(s) + 1 /\ Len(s) \in Nat
         /\ \A i \in 1..Len(s) : Append(s, b)[i] = s[i]
         /\ Append(s, b)[Len(s) + 1] = b
         /\ Front(Append(s, b)) = s /\ Last(Append(s, b)) = b
         /\ Append(s, b) = s \o <<b>>
<1>1. /\ Append(s, b) \in Seq(T)
      /\ Len(Append(s, b)) = Len(s) + 1 /\ Len(s) \in Nat
      /\ \A i \in 1..Len(s) : Append(s, b)[i] = s[i]
      /\ Append(s, b)[Len(s) + 1] = b
  BY AppendProperties
<1>2. Append(s, b) # <<>> BY <1>1
<1>3. Last(Append(s, b)) = b BY <1>1 DEF Last
<1>4. Front(Append(s, b)) = s
  <2> DEFINE front == SubSeq(Append(s, b), 1, Len(s))
  <2>1. front \in Seq(T) /\ Len(front) = Len(s) /\ \A i \in 1..Len(s) : front[i] = Append(s, b)[i]
    BY <1>1
  <2> HIDE DEF front
  <2>2. front = s BY <1>1, <2>1, SeqEqual
  <2>3. Front(Append(s, b)) = front BY <1>1 DEF Front, front
  <2> QED BY <2>2, <2>3
<1>5. Append(s, b) = s \o <<b>> OBVIOUS
<1> QED BY <1>1, <1>2, <1>3, <1>4, <1>5

\* Every sequence but the empty one is another with one element more.
LEMMA Unappended ==
  ASSUME NEW T, NEW s \in Seq(T), s # <<>>
  PROVE  /\ Front(s) \in Seq(T) /\ Last(s) \in T
         /\ s = Append(Front(s), Last(s))
<1>1. Len(s) \in Nat /\ Len(s) > 0 OBVIOUS
<1>2. Last(s) \in T /\ Last(s) = s[Len(s)] BY <1>1 DEF Last
<1>3. /\ Front(s) \in Seq(T) /\ Len(Front(s)) = Len(s) - 1
      /\ \A i \in 1..(Len(s) - 1) : Front(s)[i] = s[i]
  <2> DEFINE m == Len(s) - 1
  <2>1. m \in Nat /\ m < Len(s) BY <1>1
  <2>2. Front(s) = SubSeq(s, 1, m) BY DEF Front
  <2> HIDE DEF m
  <2>3. 1..m \subseteq 1..Len(s) BY <2>1
  <2>4. \A i \in 1..m : s[i] \in T BY <2>3
  <2>5. /\ SubSeq(s, 1, m) \in Seq(T)
        /\ Len(SubSeq(s, 1, m)) = IF 1 <= m THEN m - 1 + 1 ELSE 0
        /\ \A i \in 1..m - 1 + 1 : SubSeq(s, 1, m)[i] = s[1 + i - 1]
    BY <2>1, <2>4, SubSeqProperties
  <2>6. Len(SubSeq(s, 1, m)) = m BY <2>1, <2>5
  <2>7. ASSUME NEW i \in 1..m PROVE SubSeq(s, 1, m)[i] = s[i]
    <3>1. i \in 1..m - 1 + 1 /\ 1 + i - 1 = i BY <2>1
    <3> QED BY <2>5, <3>1
  <2> QED BY <2>2, <2>5, <2>6, <2>7 DEF m
<1>4. /\ Append(Front(s), Last(s)) \in Seq(T)
      /\ Len(Append(Front(s), Last(s))) = Len(Front(s)) + 1
      /\ \A i \in 1..Len(Front(s)) : Append(Front(s), Last(s))[i] = Front(s)[i]
      /\ Append(Front(s), Last(s))[Len(Front(s)) + 1] = Last(s)
  BY <1>2, <1>3, AppendProperties
<1>5. \A i \in 1..Len(s) : Append(Front(s), Last(s))[i] = s[i] BY <1>1, <1>2, <1>3, <1>4
<1>6. Append(Front(s), Last(s)) = s BY <1>1, <1>3, <1>4, <1>5, SeqEqual
<1> QED BY <1>2, <1>3, <1>6

\* One element more is one step more.
LEMMA FoldsOn ==
  ASSUME NEW S, NEW T, NEW first, NEW Step, NEW seq \in Seq(T), NEW b \in T, NEW f, NEW g,
         Folds(f, S, first, Step, seq), Folds(g, S, first, Step, Append(seq, b))
  PROVE  /\ f[Len(seq)] \in S
         /\ g[Len(Append(seq, b))] = Step[f[Len(seq)]][b]
<1> DEFINE m == Len(seq)
           longer == Append(seq, b)
<1>1. /\ Len(longer) = m + 1 /\ m \in Nat
      /\ \A i \in 1..m : longer[i] = seq[i]
      /\ longer[m + 1] = b
  BY Appended
<1>2. f \in [0..m -> S] /\ f[0] = first /\ \A n \in 1..m : f[n] = Step[f[n - 1]][seq[n]]
  BY DEF Folds
<1>3. g[0] = first /\ \A n \in 1..Len(longer) : g[n] = Step[g[n - 1]][longer[n]]
  BY DEF Folds
<1> HIDE DEF longer, m
<1>4. ASSUME NEW n \in 1..m, f[n - 1] = g[n - 1] PROVE f[n] = g[n]
  <2>1. n \in 1..Len(longer) /\ longer[n] = seq[n] BY <1>1
  <2> QED BY <1>2, <1>3, <1>4, <2>1
<1>5. Parallel(f, g, m) BY <1>2, <1>3, <1>4 DEF Parallel
<1>6. \A n \in 0..m : f[n] = g[n] BY <1>1, <1>5, Alike
<1>7. m + 1 \in 1..Len(longer) /\ (m + 1) - 1 = m /\ m \in 0..m BY <1>1
<1>8. g[m + 1] = Step[g[m]][b] BY <1>1, <1>3, <1>7
<1>9. f[m] = g[m] /\ f[m] \in S BY <1>1, <1>2, <1>6
<1> QED BY <1>1, <1>8, <1>9 DEF longer, m

-----------------------------------------------------------------------------
(* The frames of the websocket: the header is read back, and so is what    *)
(* follows it.                                                             *)

\* A concatenation, element by element.
LEMMA Joined ==
  ASSUME NEW S, NEW s \in Seq(S), NEW t \in Seq(S), NEW u, u = s \o t
  PROVE  /\ u \in Seq(S) /\ Len(u) = Len(s) + Len(t)
         /\ \A i \in 1..(Len(s) + Len(t)) : u[i] = IF i <= Len(s) THEN s[i] ELSE t[i - Len(s)]
BY ConcatProperties

\* Two bytes hold any number below 2^16 (binary.BigEndian.Uint16, PutUint16).
LEMMA Uint16Back ==
  ASSUME NEW number \in Nat
  PROVE  /\ PutUint16(number) \in Seq(Byte) /\ Len(PutUint16(number)) = 2
         /\ Uint16(PutUint16(number), 1) = number % 65536
<1> DEFINE high == (number \div 256) % 256
           low == number % 256
<1>1. high \in Byte /\ low \in Byte /\ 256 * high + low = number % 65536 BY DEF Byte
<1> HIDE DEF high, low
<1>2. PutUint16(number) = <<high, low>> BY DEF PutUint16, high, low
<1> QED BY <1>1, <1>2 DEF Uint16

\* What stands at a place is read from there, whatever else is on the wire.
LEMMA Uint32Back ==
  ASSUME NEW number \in Nat
  PROVE  /\ PutUint32(number) \in Seq(Byte) /\ Len(PutUint32(number)) = 4
         /\ Uint32(PutUint32(number), 1)
               = 65536 * ((number \div 65536) % 65536) + (number % 65536)
<1> DEFINE high == PutUint16(number \div 65536)
           low == PutUint16(number)
           both == high \o low
<1>1. number \div 65536 \in Nat OBVIOUS
<1>2. /\ Uint16(high, 1) = (number \div 65536) % 65536 /\ Uint16(low, 1) = number % 65536
      /\ high \in Seq(Byte) /\ low \in Seq(Byte) /\ Len(high) = 2 /\ Len(low) = 2
  BY <1>1, Uint16Back
<1> HIDE DEF high, low
<1>3. /\ both \in Seq(Byte) /\ Len(both) = 4
      /\ \A i \in 1..4 : both[i] = IF i <= 2 THEN high[i] ELSE low[i - 2]
  <2>1. /\ both \in Seq(Byte) /\ Len(both) = Len(high) + Len(low)
        /\ \A i \in 1..(Len(high) + Len(low)) :
              both[i] = IF i <= Len(high) THEN high[i] ELSE low[i - Len(high)]
    <3>1. high \in Seq(Byte) /\ low \in Seq(Byte) BY <1>2
    <3> QED BY <3>1, Joined
  <2> HIDE DEF both
  <2> QED BY <1>2, <2>1
<1>a. both[1] = high[1] /\ both[2] = high[2] /\ both[3] = low[1] /\ both[4] = low[2]
  BY <1>3
<1>4. PutUint32(number) = both BY DEF PutUint32, high, low
<1> HIDE DEF both
<1> QED BY <1>2, <1>3, <1>a, <1>4 DEF Uint32, Uint16

\* Eight bytes hold every length of an int, and their first bit is not set.
LEMMA Uint64Back ==
  ASSUME NEW number \in Lengths
  PROVE  /\ PutUint64(number) \in Seq(Byte) /\ Len(PutUint64(number)) = 8
         /\ PutUint64(number)[1] \in 0..127
         /\ Uint64(PutUint64(number), 1) = number
<1> DEFINE upper == (number \div 65536) \div 65536
           high == PutUint32(upper)
           low == PutUint32(number)
           both == high \o low
<1>1. number \in Nat /\ upper \in Nat /\ upper \div 65536 < 32768 BY DEF Lengths
<1>2. upper = 65536 * ((upper \div 65536) % 65536) + (upper % 65536)
  <2> HIDE DEF upper
  <2> QED BY <1>1
<1>3. number = 65536 * (65536 * upper) + 65536 * ((number \div 65536) % 65536) + (number % 65536)
  <2> DEFINE middle == number \div 65536
  <2>1. middle \in Nat /\ number = 65536 * middle + (number % 65536) BY <1>1
  <2>2. middle = 65536 * (middle \div 65536) + (middle % 65536)
    <3> HIDE DEF middle
    <3> QED BY <2>1
  <2> HIDE DEF middle
  <2>3. upper = middle \div 65536 BY DEF middle
  <2> HIDE DEF upper
  <2> QED BY <1>1, <2>1, <2>2, <2>3 DEF middle
<1>4. /\ Uint32(high, 1) = upper
      /\ Uint32(low, 1) = 65536 * ((number \div 65536) % 65536) + (number % 65536)
      /\ high \in Seq(Byte) /\ low \in Seq(Byte) /\ Len(high) = 4 /\ Len(low) = 4
  <2> HIDE DEF upper
  <2>1. Uint32(high, 1) = 65536 * ((upper \div 65536) % 65536) + (upper % 65536)
    <3>1. upper \in Nat BY <1>1
    <3> QED BY <3>1, Uint32Back DEF high
  <2> QED BY <1>1, <1>2, <2>1, Uint32Back DEF high, low
<1>5. high[1] \in 0..127
  <2>1. high[1] = PutUint16(upper \div 65536)[1] BY <1>1, Uint16Back DEF PutUint32
  <2>2. PutUint16(upper \div 65536)[1] = ((upper \div 65536) \div 256) % 256 BY DEF PutUint16
  <2> QED BY <1>1, <2>1, <2>2
<1>6. PutUint64(number) = both BY DEF PutUint64
<1> HIDE DEF high, low, upper
<1>7. /\ both \in Seq(Byte) /\ Len(both) = 8
      /\ \A i \in 1..8 : both[i] = IF i <= 4 THEN high[i] ELSE low[i - 4]
  <2>1. /\ both \in Seq(Byte) /\ Len(both) = Len(high) + Len(low)
        /\ \A i \in 1..(Len(high) + Len(low)) :
              both[i] = IF i <= Len(high) THEN high[i] ELSE low[i - Len(high)]
    <3>1. high \in Seq(Byte) /\ low \in Seq(Byte) BY <1>4
    <3> QED BY <3>1, Joined
  <2> HIDE DEF both
  <2> QED BY <1>4, <2>1
<1> HIDE DEF both
<1>8. Uint64(both, 1) = 65536 * (65536 * Uint32(high, 1)) + Uint32(low, 1)
  BY <1>7 DEF Uint64, Uint32, Uint16
<1>9. both[1] = high[1] BY <1>7
<1>10. Uint64(both, 1) = number BY <1>1, <1>3, <1>4, <1>8
<1>11. both[1] \in 0..127 BY ONLY <1>5, <1>9
<1> QED BY <1>6, <1>7, <1>11, <1>10

\* The length that stands in a header is the one that is read, in each of its three forms,
\* wherever the header is (appendLength, frameLength, frameMask).
LEMMA HeaderBack ==
  ASSUME NEW length \in Lengths, NEW masked \in BOOLEAN,
         NEW header, header = AppendLength(length, masked),
         NEW wire, \A i \in 1..Len(header) : wire[i + 1] = header[i]
  PROVE  /\ header \in Seq(Byte) /\ Len(header) >= 1
         /\ FrameLength(wire) = [length |-> length, used |-> Len(header) - 1]
         /\ FrameMask(wire[2]) <=> masked
<1> DEFINE prefix == IF masked THEN 128 ELSE 0
<1>1. length \in Nat BY DEF Lengths
<1>2. prefix \in {0, 128} /\ (prefix = 128 <=> masked) OBVIOUS
<1> HIDE DEF prefix
<1>3. ASSUME NEW short \in 0..127, wire[2] = prefix + short
      PROVE  wire[2] % 128 = short /\ (FrameMask(wire[2]) <=> masked)
  BY <1>2, <1>3 DEF FrameMask
<1>4. CASE length < 126
  <2>1. header = <<prefix + length>> BY <1>4 DEF AppendLength, prefix
  <2>2. header \in Seq(Byte) /\ Len(header) = 1 /\ header[1] = prefix + length
    BY <1>1, <1>2, <1>4, <2>1 DEF Byte
  <2>3. wire[2] = prefix + length BY <2>2
  <2>4. wire[2] % 128 = length /\ (FrameMask(wire[2]) <=> masked)
    <3>1. length \in 0..127 BY ONLY <1>1, <1>4
    <3> QED BY <1>3, <2>3, <3>1
  <2>5. FrameLength(wire) = [length |-> length, used |-> 0] BY <1>4, <2>4 DEF FrameLength
  <2> QED BY <2>2, <2>4, <2>5
<1>5. CASE length >= 126 /\ length <= 65535
  <2> DEFINE bytes == PutUint16(length)
  <2>1. /\ bytes \in Seq(Byte) /\ Len(bytes) = 2
        /\ Uint16(bytes, 1) = length
    <3>1. length % 65536 = length BY <1>1, <1>5
    <3> QED BY <1>1, <3>1, Uint16Back
  <2> HIDE DEF bytes
  <2>2. header = <<prefix + 126>> \o bytes BY <1>1, <1>5 DEF AppendLength, prefix, bytes
  <2>3. <<prefix + 126>> \in Seq(Byte)
    <3>1. prefix + 126 \in Byte BY <1>2 DEF Byte
    <3> QED BY <3>1
  <2>4. /\ header \in Seq(Byte) /\ Len(header) = Len(<<prefix + 126>>) + Len(bytes)
        /\ \A i \in 1..(Len(<<prefix + 126>>) + Len(bytes)) :
              header[i] = IF i <= Len(<<prefix + 126>>) THEN <<prefix + 126>>[i]
                          ELSE bytes[i - Len(<<prefix + 126>>)]
    <3>1. bytes \in Seq(Byte) BY <2>1
    <3> QED BY <2>2, <2>3, <3>1, Joined
  <2>5. Len(header) = 3 /\ header[1] = prefix + 126 /\ header[2] = bytes[1] /\ header[3] = bytes[2]
    BY <2>1, <2>4
  <2>6. wire[2] = prefix + 126 /\ wire[3] = bytes[1] /\ wire[4] = bytes[2]
    BY <2>5
  <2>7. wire[2] % 128 = 126 /\ (FrameMask(wire[2]) <=> masked) BY <1>3, <2>6
  <2>8. Uint16(wire, 3) = length BY <2>1, <2>6 DEF Uint16
  <2>9. FrameLength(wire) = [length |-> length, used |-> 2] BY <2>7, <2>8 DEF FrameLength
  <2>10. Len(header) >= 1 /\ Len(header) - 1 = 2 BY <2>5
  <2> QED BY <2>4, <2>7, <2>9, <2>10
<1>6. CASE length > 65535
  <2> DEFINE bytes == PutUint64(length)
  <2>1. /\ bytes \in Seq(Byte) /\ Len(bytes) = 8 /\ bytes[1] \in 0..127
        /\ Uint64(bytes, 1) = length
    BY Uint64Back
  <2> HIDE DEF bytes
  <2>2. header = <<prefix + 127>> \o bytes BY <1>1, <1>6 DEF AppendLength, prefix, bytes
  <2>3. <<prefix + 127>> \in Seq(Byte)
    <3>1. prefix + 127 \in Byte BY <1>2 DEF Byte
    <3> QED BY <3>1
  <2>4. /\ header \in Seq(Byte) /\ Len(header) = Len(<<prefix + 127>>) + Len(bytes)
        /\ \A i \in 1..(Len(<<prefix + 127>>) + Len(bytes)) :
              header[i] = IF i <= Len(<<prefix + 127>>) THEN <<prefix + 127>>[i]
                          ELSE bytes[i - Len(<<prefix + 127>>)]
    <3>1. bytes \in Seq(Byte) BY <2>1
    <3> QED BY <2>2, <2>3, <3>1, Joined
  <2>5. Len(header) = 9 /\ header[1] = prefix + 127 /\ \A i \in 1..8 : header[i + 1] = bytes[i]
    BY <2>1, <2>4
  <2>6. wire[2] = prefix + 127 /\ \A i \in 1..8 : wire[i + 2] = bytes[i]
    <3>1. \A i \in 1..9 : wire[i + 1] = header[i] BY <2>5
    <3>2. \A i \in 1..8 : wire[(i + 1) + 1] = header[i + 1] BY <3>1
    <3> QED BY <2>5, <3>1, <3>2
  <2>7. wire[2] % 128 = 127 /\ (FrameMask(wire[2]) <=> masked) BY <1>3, <2>6
  <2>8. Uint64(wire, 3) = length BY <2>1, <2>6 DEF Uint64, Uint32, Uint16
  <2>9. wire[3] = bytes[1] BY <2>6
  <2>10. FrameLength(wire) = [length |-> length, used |-> 8]
    <3>2. wire[3] \in 0..127 BY <2>1, <2>9
    <3>3. ~(wire[3] >= 128) BY ONLY <3>2
    <3> QED BY <2>7, <2>8, <3>3 DEF FrameLength
  <2>11. Len(header) >= 1 /\ Len(header) - 1 = 8 BY <2>5
  <2> QED BY <2>4, <2>7, <2>10, <2>11
<1> QED BY <1>1, <1>4, <1>5, <1>6

\* A header is a sequence of bytes.
LEMMA HeaderBytes ==
  ASSUME NEW length \in Lengths, NEW masked \in BOOLEAN
  PROVE  AppendLength(length, masked) \in Seq(Byte)
<1> DEFINE header == AppendLength(length, masked)
           alone == [i \in 1..(1 + Len(header)) |-> header[i - 1]]
<1> HIDE DEF header
<1>1. \A i \in 1..Len(header) : alone[i + 1] = header[i] OBVIOUS
<1> HIDE DEF alone
<1> QED BY <1>1, HeaderBack DEF header

\* What is on the wire: bytes of headers, masks and payloads.
Item == Byte \cup {Block(n) : n \in Nat}

\* Where the parts of a frame are on a wire that begins with it.
LEMMA Places ==
  ASSUME NEW S, NEW a \in S, NEW header \in Seq(S), NEW mask \in Seq(S), NEW b \in S,
         NEW rest \in Seq(S),
         NEW wire, wire = (((<<a>> \o header) \o mask) \o <<b>>) \o rest
  PROVE  LET payload == 2 + Len(header) + Len(mask)
         IN /\ wire[1] = a
            /\ \A i \in 1..Len(header) : wire[i + 1] = header[i]
            /\ wire[payload] = b
            /\ SubSeq(wire, payload + 1, Len(wire)) = rest
<1> DEFINE s1 == <<a>> \o header
           s2 == s1 \o mask
           s3 == s2 \o <<b>>
           payload == 2 + Len(header) + Len(mask)
<1>1. <<a>> \in Seq(S) /\ <<b>> \in Seq(S) OBVIOUS
<1>2. Len(header) \in Nat /\ Len(mask) \in Nat /\ Len(rest) \in Nat OBVIOUS
<1>3. /\ s1 \in Seq(S) /\ Len(s1) = 1 + Len(header)
      /\ s1[1] = a /\ \A i \in 1..Len(header) : s1[i + 1] = header[i]
  <2>1. /\ s1 \in Seq(S) /\ Len(s1) = Len(<<a>>) + Len(header)
        /\ \A i \in 1..(Len(<<a>>) + Len(header)) :
              s1[i] = IF i <= Len(<<a>>) THEN <<a>>[i] ELSE header[i - Len(<<a>>)]
    BY <1>1, Joined
  <2> HIDE DEF s1
  <2> QED BY <1>2, <2>1
<1> HIDE DEF s1
<1>4. /\ s2 \in Seq(S) /\ Len(s2) = 1 + Len(header) + Len(mask)
      /\ \A i \in 1..(1 + Len(header)) : s2[i] = s1[i]
  <2>1. /\ s2 \in Seq(S) /\ Len(s2) = Len(s1) + Len(mask)
        /\ \A i \in 1..(Len(s1) + Len(mask)) :
              s2[i] = IF i <= Len(s1) THEN s1[i] ELSE mask[i - Len(s1)]
    <3>1. s1 \in Seq(S) BY <1>3
    <3> QED BY <3>1, Joined
  <2> HIDE DEF s2
  <2> QED BY <1>2, <1>3, <2>1
<1> HIDE DEF s2
<1>5. /\ s3 \in Seq(S) /\ Len(s3) = payload /\ s3[payload] = b
      /\ \A i \in 1..(1 + Len(header)) : s3[i] = s1[i]
  <2>1. /\ s3 \in Seq(S) /\ Len(s3) = Len(s2) + Len(<<b>>)
        /\ \A i \in 1..(Len(s2) + Len(<<b>>)) :
              s3[i] = IF i <= Len(s2) THEN s2[i] ELSE <<b>>[i - Len(s2)]
    <3>1. s2 \in Seq(S) BY <1>4
    <3> QED BY <1>1, <3>1, Joined
  <2> HIDE DEF s3
  <2> QED BY <1>2, <1>4, <2>1
<1>6. wire = s3 \o rest BY DEF s3, s2, s1
<1> HIDE DEF s3
<1>7. /\ wire \in Seq(S) /\ Len(wire) = Len(s3) + Len(rest)
      /\ \A i \in 1..(Len(s3) + Len(rest)) :
            wire[i] = IF i <= Len(s3) THEN s3[i] ELSE rest[i - Len(s3)]
  BY <1>5, <1>6, Joined
<1>8. \A i \in 1..(1 + Len(header)) : wire[i] = s1[i]
  <2>1. ASSUME NEW i \in 1..(1 + Len(header)) PROVE wire[i] = s1[i]
    <3>1. i \in 1..(Len(s3) + Len(rest)) /\ i <= Len(s3) BY <1>2, <1>5
    <3>2. wire[i] = s3[i] BY <1>7, <3>1
    <3> QED BY <1>5, <3>2
  <2> QED BY <2>1
<1>9. wire[payload] = b BY <1>2, <1>5, <1>7
<1>10. wire[1] = a /\ \A i \in 1..Len(header) : wire[i + 1] = header[i]
  BY <1>2, <1>3, <1>8
<1>11. SubSeq(wire, payload + 1, Len(wire)) = rest
  <2> DEFINE left == SubSeq(wire, payload + 1, Len(wire))
  <2>1. payload + 1 \in Int /\ Len(wire) \in Int /\ payload + 1 >= 1 BY <1>2, <1>7
  <2>2. \A i \in (payload + 1)..Len(wire) : wire[i] \in S
    BY <2>1, <1>7, ElementOfSeq
  <2>3. /\ left \in Seq(S)
        /\ Len(left) = IF payload + 1 <= Len(wire) THEN Len(wire) - (payload + 1) + 1 ELSE 0
        /\ \A i \in 1..(Len(wire) - (payload + 1) + 1) : left[i] = wire[(payload + 1) + i - 1]
    BY <2>1, <2>2, SubSeqProperties
  <2> HIDE DEF left
  <2>4. Len(left) = Len(rest) BY <1>2, <1>5, <1>7, <2>3
  <2>5. ASSUME NEW i \in 1..Len(left) PROVE left[i] = rest[i]
    <3>1. left[i] = wire[payload + i]
      <4>1. i \in 1..(Len(wire) - (payload + 1) + 1) BY <1>2, <1>5, <1>7, <2>4
      <4>2. left[i] = wire[(payload + 1) + i - 1] BY <2>3, <4>1
      <4>3. (payload + 1) + i - 1 = payload + i BY <1>2, <1>5, <4>1
      <4> QED BY <4>2, <4>3
    <3>2. payload + i \in 1..(Len(s3) + Len(rest)) /\ ~(payload + i <= Len(s3))
      BY <1>2, <1>5, <2>4
    <3>3. wire[payload + i] = rest[payload + i - Len(s3)] BY <1>7, <3>2
    <3>4. payload + i - Len(s3) = i BY <1>2, <1>5
    <3> QED BY <3>1, <3>3, <3>4
  <2>6. left = rest BY <2>3, <2>4, <2>5, SeqEqual
  <2> QED BY <2>6 DEF left
<1> QED BY <1>9, <1>10, <1>11

\* A frame is read back as it was written, and the reader goes on right behind it, whatever
\* comes next on the wire (writeText, readFrame).
LEMMA FrameBack ==
  ASSUME NEW opcode \in 0..15, NEW length \in Lengths, NEW masked \in BOOLEAN,
         NEW rest \in Seq(Item)
  PROVE  ReadFrame(ServerFrame(opcode, length, masked) \o rest)
           = [opcode |-> opcode, length |-> length, payload |-> Block(length), rest |-> rest]
<1> DEFINE header == AppendLength(length, masked)
           mask == IF masked THEN <<Block(4)>> ELSE <<>>
           wire == (((<<128 + opcode>> \o header) \o mask) \o <<Block(length)>>) \o rest
           payload == 2 + Len(header) + Len(mask)
<1>1. length \in Nat BY DEF Lengths
<1>2. ServerFrame(opcode, length, masked) \o rest = wire BY DEF ServerFrame
<1> HIDE DEF header
<1>3. 128 + opcode \in Item /\ Block(length) \in Item /\ Block(4) \in Item
  BY <1>1 DEF Item, Byte
<1>4. mask \in Seq(Item) /\ Len(mask) = (IF masked THEN 1 ELSE 0) BY <1>3
<1> HIDE DEF mask
<1>5. header \in Seq(Byte) BY HeaderBytes DEF header
<1>6. header \in Seq(Item) BY <1>5, SeqMonotonic DEF Item
<1>7. /\ wire[1] = 128 + opcode
      /\ \A i \in 1..Len(header) : wire[i + 1] = header[i]
      /\ wire[payload] = Block(length)
      /\ SubSeq(wire, payload + 1, Len(wire)) = rest
  <2>1. mask \in Seq(Item) BY <1>4
  <2> QED BY <1>3, <2>1, <1>6, Places
<1> HIDE DEF wire
<1>8. /\ FrameLength(wire) = [length |-> length, used |-> Len(header) - 1]
      /\ FrameMask(wire[2]) <=> masked
  BY <1>7, HeaderBack DEF header
<1>9. 3 + (Len(header) - 1) + (IF FrameMask(wire[2]) THEN 1 ELSE 0) = payload
  BY <1>4, <1>5, <1>8
<1>10. wire[1] % 16 = opcode
  <2>1. wire[1] = 128 + opcode BY <1>7
  <2> QED BY <2>1
<1>11. ReadFrame(wire) = [opcode |-> opcode, length |-> length, payload |-> Block(length),
                          rest |-> rest]
  <2> DEFINE told == [length |-> length, used |-> Len(header) - 1]
  <2>1. told.length = length /\ told.used = Len(header) - 1 OBVIOUS
  <2>2. FrameLength(wire) = told BY <1>8
  <2> HIDE DEF told
  <2>3. 3 + told.used + (IF FrameMask(wire[2]) THEN 1 ELSE 0) = payload BY <1>9, <2>1
  <2>4. ReadFrame(wire) = [opcode |-> wire[1] % 16, length |-> told.length,
                           payload |-> wire[payload],
                           rest |-> SubSeq(wire, payload + 1, Len(wire))]
    <3> HIDE DEF payload
    <3> QED BY ONLY <2>2, <2>3 DEF ReadFrame
  <2> QED BY <1>7, <1>10, <2>1, <2>4
<1> QED BY <1>2, <1>11

\* The client's frames are those of a masking server.
LEMMA ClientFrame ==
  ASSUME NEW length \in Lengths
  PROVE  WriteText(length) = ServerFrame(1, length, TRUE) /\ WriteText(length) \in Seq(Item)
<1> DEFINE header == AppendLength(length, TRUE)
           start == <<FinalText>> \o header
<1>1. FinalText \in Item /\ Block(4) \in Item /\ Block(length) \in Item
  BY DEF FinalText, Item, Byte, Lengths
<1>2. header \in Seq(Item)
  <2>1. header \in Seq(Byte) BY HeaderBytes
  <2> QED BY <2>1, SeqMonotonic DEF Item
<1> HIDE DEF header
<1>3. start \in Seq(Item) BY <1>1, <1>2, Joined
<1> HIDE DEF start
<1>4. <<Block(4)>> \in Seq(Item) /\ <<Block(length)>> \in Seq(Item) BY <1>1
<1>5. (start \o <<Block(4)>>) \o <<Block(length)>> \in Seq(Item) BY <1>3, <1>4, Joined
<1>6. WriteText(length) = (start \o <<Block(4)>>) \o <<Block(length)>>
  BY DEF WriteText, start, header
<1>7. ServerFrame(1, length, TRUE) = (start \o <<Block(4)>>) \o <<Block(length)>>
  BY DEF ServerFrame, start, header, FinalText
<1> QED BY <1>5, <1>6, <1>7

\* Aligned, the formula FramesAligned checks: for every opcode and every two lengths an int
\* holds, masked or not (writeText, readFrame).
LEMMA AlwaysAligned ==
  ASSUME NEW opcode \in 0..15, NEW length \in Lengths, NEW masked \in BOOLEAN,
         NEW next \in Lengths
  PROVE  Aligned(opcode, length, masked, next)
<1> DEFINE first == ServerFrame(opcode, length, masked)
           second == WriteText(next)
<1>1. second \in Seq(Item) /\ second = ServerFrame(1, next, TRUE) BY ClientFrame
<1>2. ReadFrame(first \o second)
         = [opcode |-> opcode, length |-> length, payload |-> Block(length), rest |-> second]
  BY <1>1, FrameBack
<1>3. ReadFrame(second) = [opcode |-> 1, length |-> next, payload |-> Block(next), rest |-> <<>>]
  <2>1. <<>> \in Seq(Item) OBVIOUS
  <2>2. second \o <<>> = second BY <1>1, ConcatEmptySeq
  <2>3. ReadFrame(ServerFrame(1, next, TRUE) \o <<>>)
           = [opcode |-> 1, length |-> next, payload |-> Block(next), rest |-> <<>>]
    <3>1. 1 \in 0..15 /\ TRUE \in BOOLEAN OBVIOUS
    <3> HIDE DEF first, second
    <3> QED BY <2>1, <3>1, FrameBack
  <2> QED BY <1>1, <2>2, <2>3
<1> HIDE DEF first, second
<1> QED BY <1>2, <1>3 DEF Aligned, first, second

-----------------------------------------------------------------------------
(* Whether a path lies inside a directory: Clean leaves the names that no  *)
(* later ".." takes back, and the relative path of two clean paths goes    *)
(* up unless one is a prefix of the other.                                 *)

\* The recursion by which a path is followed is well-founded.
LEMMA FollowedDef ==
  ASSUME NEW Segment, NEW path \in Seq(Segment)
  PROVE  Followed(path)
           = [n \in 0..Len(path) |->
                IF n = 0 THEN <<>> ELSE Follow(Followed(path)[n - 1], path[n])]
<1> DEFINE Exists(m) == \E f : f = [n \in 0..m |->
                                      IF n = 0 THEN <<>> ELSE Follow(f[n - 1], path[n])]
           S == {m \in Nat : Exists(m)}
<1>1. 0 \in S
  <2>1. [n \in 0..0 |-> <<>>] = [n \in 0..0 |-> IF n = 0 THEN <<>>
            ELSE Follow([k \in 0..0 |-> <<>>][n - 1], path[n])]
    OBVIOUS
  <2> QED BY <2>1
<1>2. ASSUME NEW m \in Nat, m \in S PROVE m + 1 \in S
  <2>1. PICK f : f = [n \in 0..m |-> IF n = 0 THEN <<>> ELSE Follow(f[n - 1], path[n])]
    BY <1>2
  <2> DEFINE g == [n \in 0..(m + 1) |->
                     IF n = m + 1 THEN Follow(f[m], path[m + 1]) ELSE f[n]]
  <2>2. g = [n \in 0..(m + 1) |-> IF n = 0 THEN <<>> ELSE Follow(g[n - 1], path[n])]
    <3>1. ASSUME NEW n \in 0..(m + 1)
          PROVE  g[n] = IF n = 0 THEN <<>> ELSE Follow(g[n - 1], path[n])
      <4>1. CASE n = m + 1
        <5>1. g[n - 1] = f[m] /\ n # 0 BY <4>1
        <5> QED BY <4>1, <5>1
      <4>2. CASE n = 0 BY <2>1, <4>2
      <4>3. CASE n \in 1..m
        <5>1. n - 1 \in 0..m /\ n - 1 # m + 1 /\ n \in 0..m /\ n # m + 1 /\ n # 0 BY <4>3
        <5>2. g[n - 1] = f[n - 1] /\ g[n] = f[n] BY <5>1
        <5>3. f[n] = Follow(f[n - 1], path[n]) BY <2>1, <5>1
        <5> QED BY <5>1, <5>2, <5>3
      <4> QED BY <4>1, <4>2, <4>3
    <3> HIDE DEF g
    <3>2. g = [n \in 0..(m + 1) |-> g[n]] BY DEF g
    <3> QED BY <3>1, <3>2
  <2> HIDE DEF g
  <2> QED BY <2>2
<1> HIDE DEF S
<1>3. Nat \subseteq S BY <1>1, <1>2, Induction
<1>4. Exists(Len(path)) BY <1>3 DEF S
<1> QED BY <1>4 DEF Followed

Lead(path, i, j) == Cardinality(NamesOn(path, i, j)) - Cardinality(UpsOn(path, i, j))

\* On every stretch of a path there are finitely many names and ups.
LEMMA Finite ==
  ASSUME NEW path, NEW i \in Int, NEW j \in Int
  PROVE  /\ IsFiniteSet(NamesOn(path, i, j)) /\ Cardinality(NamesOn(path, i, j)) \in Nat
         /\ IsFiniteSet(UpsOn(path, i, j)) /\ Cardinality(UpsOn(path, i, j)) \in Nat
<1>1. IsFiniteSet(i..j) BY FS_Interval
<1>2. NamesOn(path, i, j) \subseteq i..j /\ UpsOn(path, i, j) \subseteq i..j BY DEF NamesOn, UpsOn
<1>3. IsFiniteSet(NamesOn(path, i, j)) /\ IsFiniteSet(UpsOn(path, i, j)) BY <1>1, <1>2, FS_Subset
<1> QED BY <1>3, FS_CardinalityType

\* One segment more changes the lead of every stretch that ends with it alike.
LEMMA LeadStep ==
  ASSUME NEW path, NEW m \in Nat, NEW i \in 1..(m + 1)
  PROVE  /\ Lead(path, i, m) \in Int
         /\ Lead(path, i, m + 1)
              = Lead(path, i, m) + (IF IsName(path[m + 1]) THEN 1
                                    ELSE IF path[m + 1] = ".." THEN -1 ELSE 0)
         /\ i = m + 1 => Lead(path, i, m) = 0
<1> DEFINE names == NamesOn(path, i, m)
           ups == UpsOn(path, i, m)
<1>1. /\ IsFiniteSet(names) /\ Cardinality(names) \in Nat
      /\ IsFiniteSet(ups) /\ Cardinality(ups) \in Nat
  BY Finite
<1>2. i..(m + 1) = (i..m) \cup {m + 1} /\ m + 1 \notin i..m OBVIOUS
<1>3. /\ NamesOn(path, i, m + 1) = IF IsName(path[m + 1]) THEN names \cup {m + 1} ELSE names
      /\ m + 1 \notin names
  BY <1>2 DEF NamesOn, IsName
<1>4. /\ UpsOn(path, i, m + 1) = IF path[m + 1] = ".." THEN ups \cup {m + 1} ELSE ups
      /\ m + 1 \notin ups
  BY <1>2 DEF UpsOn
<1>5. Cardinality(names \cup {m + 1}) = Cardinality(names) + 1 BY <1>1, <1>3, FS_AddElement
<1>6. Cardinality(ups \cup {m + 1}) = Cardinality(ups) + 1 BY <1>1, <1>4, FS_AddElement
<1>7. i = m + 1 => Lead(path, i, m) = 0
  <2> SUFFICES ASSUME i = m + 1 PROVE Lead(path, i, m) = 0 OBVIOUS
  <2>0. i..m = {} OBVIOUS
  <2>1. names = {} /\ ups = {} BY <2>0 DEF NamesOn, UpsOn
  <2>2. Cardinality(names) = 0 /\ Cardinality(ups) = 0 BY <2>1, FS_EmptySet
  <2> QED BY <2>2 DEF Lead
<1>8. IsName(path[m + 1]) => path[m + 1] # ".." BY DEF IsName
<1> HIDE DEF names, ups
<1>9. /\ Cardinality(NamesOn(path, i, m + 1))
           = Cardinality(names) + (IF IsName(path[m + 1]) THEN 1 ELSE 0)
      /\ Cardinality(UpsOn(path, i, m + 1))
           = Cardinality(ups) + (IF path[m + 1] = ".." THEN 1 ELSE 0)
  BY <1>1, <1>3, <1>4, <1>5, <1>6
<1>10. Lead(path, i, m) = Cardinality(names) - Cardinality(ups) BY DEF Lead, names, ups
<1> QED BY <1>1, <1>7, <1>8, <1>9, <1>10 DEF Lead

\* A name is kept by one segment more if it was kept and is still ahead.
LEMMA KeptStep ==
  ASSUME NEW path, NEW m \in Nat
  PROVE  /\ Kept(path, m + 1)
              = {i \in Kept(path, m) \cup {m + 1} : Lead(path, i, m + 1) > 0}
         /\ Kept(path, m) \subseteq 1..m
         /\ \A i \in Kept(path, m) : Lead(path, i, m) > 0
<1>1. \A k \in Nat : Kept(path, k) = {i \in 1..k : \A j \in i..k : Lead(path, i, j) > 0}
  <2>1. ASSUME NEW i \in Nat, NEW j \in Nat
        PROVE  Lead(path, i, j) > 0
                 <=> Cardinality(NamesOn(path, i, j)) > Cardinality(UpsOn(path, i, j))
    BY Finite DEF Lead
  <2> QED BY <2>1 DEF Kept
<1>2. m + 1 \in Nat OBVIOUS
<1>3. Kept(path, m + 1) = {i \in 1..(m + 1) : \A j \in i..(m + 1) : Lead(path, i, j) > 0}
  BY <1>1, <1>2
<1>4. Kept(path, m) = {i \in 1..m : \A j \in i..m : Lead(path, i, j) > 0} BY <1>1
<1>5. \A i \in 1..m : i..(m + 1) = (i..m) \cup {m + 1} /\ m \in i..m OBVIOUS
<1>6. (m + 1)..(m + 1) = {m + 1} /\ 1..(m + 1) = (1..m) \cup {m + 1} OBVIOUS
<1> QED BY <1>3, <1>4, <1>5, <1>6

Track(path, m, N, pos) ==
    /\ pos \in [1..N -> 1..m]
    /\ \A a, b \in 1..N : a < b => pos[a] < pos[b]
    /\ \A i \in 1..m : i \in Kept(path, m) <=> \E n \in 1..N : pos[n] = i
    /\ \A n \in 1..N : Lead(path, pos[n], m) = N - n + 1
    /\ Followed(path)[m] = [n \in 1..N |-> path[pos[n]]]

\* ".." is not a segment that leads nowhere.
LEMMA UpGoesUp == ".." \notin Nowhere
BY Zenon DEF Nowhere

\* A segment that goes nowhere changes nothing.
LEMMA TrackStay ==
  ASSUME NEW Segment, NEW path \in Seq(Segment), NEW m \in Nat, m + 1 <= Len(path),
         NEW N \in Nat, NEW pos, Track(path, m, N, pos),
         path[m + 1] \in Nowhere
  PROVE  Track(path, m + 1, N, pos)
<1>0. ~IsName(path[m + 1]) /\ path[m + 1] # ".." BY Zenon, UpGoesUp DEF IsName
<1>1. \A i \in 1..(m + 1) : Lead(path, i, m) \in Int /\ Lead(path, i, m + 1) = Lead(path, i, m)
  <2> SUFFICES ASSUME NEW i \in 1..(m + 1)
               PROVE  Lead(path, i, m) \in Int /\ Lead(path, i, m + 1) = Lead(path, i, m)
    OBVIOUS
  <2>1. /\ Lead(path, i, m) \in Int
        /\ Lead(path, i, m + 1)
             = Lead(path, i, m) + (IF IsName(path[m + 1]) THEN 1
                                   ELSE IF path[m + 1] = ".." THEN -1 ELSE 0)
    BY LeadStep
  <2>2. Lead(path, i, m + 1) = Lead(path, i, m) + 0 BY <1>0, <2>1, Zenon
  <2> QED BY <2>1, <2>2
<1>2. Lead(path, m + 1, m + 1) = 0
  <2>1. m + 1 \in 1..(m + 1) OBVIOUS
  <2>2. Lead(path, m + 1, m) = 0 BY <2>1, LeadStep
  <2> QED BY <1>1, <2>1, <2>2
<1>3. Kept(path, m + 1) = Kept(path, m)
  <2>1. Kept(path, m) \subseteq 1..m /\ \A i \in Kept(path, m) : Lead(path, i, m) > 0
    BY KeptStep
  <2>2. \A i \in Kept(path, m) : Lead(path, i, m + 1) > 0 BY <1>1, <2>1
  <2>3. Kept(path, m + 1) = {i \in Kept(path, m) \cup {m + 1} : Lead(path, i, m + 1) > 0}
    BY KeptStep
  <2>4. ~(Lead(path, m + 1, m + 1) > 0) BY <1>2
  <2> QED BY <2>2, <2>3, <2>4
<1>4. pos \in [1..N -> 1..m] /\ \A n \in 1..N : pos[n] \in 1..m BY DEF Track
<1>4a. 1..m \subseteq 1..(m + 1) OBVIOUS
<1>4b. pos \in [1..N -> 1..(m + 1)] BY <1>4, <1>4a
<1>5. Followed(path)[m + 1] = Follow(Followed(path)[m], path[m + 1])
  BY FollowedDef
<1>6. Followed(path)[m + 1] = Followed(path)[m] BY <1>0, <1>5, Zenon DEF Follow
<1>8. m + 1 \notin Kept(path, m)
  <2>1. Kept(path, m) \subseteq 1..m BY KeptStep
  <2> QED BY <2>1
<1>9. ASSUME NEW i \in 1..(m + 1)
      PROVE i \in Kept(path, m + 1) <=> \E n \in 1..N : pos[n] = i
  <2>1. CASE i = m + 1 BY <1>3, <1>4, <1>8, <2>1
  <2>2. CASE i \in 1..m BY <1>3, <2>2 DEF Track
  <2> QED BY <2>1, <2>2
<1>10. ASSUME NEW n \in 1..N PROVE Lead(path, pos[n], m + 1) = N - n + 1
  <2>1. Lead(path, pos[n], m) = N - n + 1 BY DEF Track
  <2>2. pos[n] \in 1..(m + 1) BY <1>4, <1>4a
  <2> QED BY <1>1, <2>1, <2>2
<1> QED BY <1>4b, <1>6, <1>9, <1>10 DEF Track

\* A name is kept behind all the others.
LEMMA TrackName ==
  ASSUME NEW Segment, NEW path \in Seq(Segment), NEW m \in Nat, m + 1 <= Len(path),
         NEW N \in Nat, NEW pos, Track(path, m, N, pos),
         IsName(path[m + 1])
  PROVE  Track(path, m + 1, N + 1, [n \in 1..(N + 1) |-> IF n = N + 1 THEN m + 1 ELSE pos[n]])
<1> DEFINE new == [n \in 1..(N + 1) |-> IF n = N + 1 THEN m + 1 ELSE pos[n]]
<1>1. \A i \in 1..(m + 1) : Lead(path, i, m) \in Int /\ Lead(path, i, m + 1) = Lead(path, i, m) + 1
  BY LeadStep
<1>2. Lead(path, m + 1, m + 1) = 1
  <2>1. m + 1 \in 1..(m + 1) OBVIOUS
  <2>2. Lead(path, m + 1, m) = 0 BY <2>1, LeadStep
  <2> QED BY <1>1, <2>1, <2>2
<1>3. Kept(path, m + 1) = Kept(path, m) \cup {m + 1}
  <2>1. Kept(path, m) \subseteq 1..m /\ \A i \in Kept(path, m) : Lead(path, i, m) > 0
    BY KeptStep
  <2>2. \A i \in Kept(path, m) : Lead(path, i, m + 1) > 0 BY <1>1, <2>1
  <2> QED BY <1>2, <2>2, KeptStep
<1>4. /\ pos \in [1..N -> 1..m]
      /\ \A n \in 1..N : pos[n] \in 1..m /\ new[n] = pos[n] /\ n # N + 1
      /\ new[N + 1] = m + 1
  BY DEF Track
<1>5. 1..(N + 1) = (1..N) \cup {N + 1} OBVIOUS
<1>6. new \in [1..(N + 1) -> 1..(m + 1)] BY <1>4
<1> HIDE DEF new
<1>7. ASSUME NEW a \in 1..(N + 1), NEW b \in 1..(N + 1), a < b PROVE new[a] < new[b]
  <2>1. a \in 1..N /\ new[a] = pos[a] /\ pos[a] \in 1..m BY <1>4, <1>7
  <2>2. CASE b = N + 1 BY <1>4, <2>1, <2>2
  <2>3. CASE b \in 1..N BY <1>4, <1>7, <2>1, <2>3 DEF Track
  <2> QED BY <2>2, <2>3
<1>8. ASSUME NEW i \in 1..(m + 1)
      PROVE  i \in Kept(path, m + 1) <=> \E n \in 1..(N + 1) : new[n] = i
  <2>1. CASE i = m + 1 BY <1>3, <1>4, <1>5, <2>1
  <2>2. CASE i \in 1..m
    <3>1. i \in Kept(path, m + 1) <=> i \in Kept(path, m) BY <1>3, <2>2
    <3>2. i \in Kept(path, m) <=> \E n \in 1..N : pos[n] = i BY <2>2 DEF Track
    <3> QED BY <1>4, <1>5, <2>2, <3>1, <3>2
  <2> QED BY <2>1, <2>2
<1>9. ASSUME NEW n \in 1..(N + 1) PROVE Lead(path, new[n], m + 1) = (N + 1) - n + 1
  <2>1. CASE n = N + 1 BY <1>2, <1>4, <2>1
  <2>2. CASE n \in 1..N
    <3>1. new[n] = pos[n] /\ pos[n] \in 1..m BY <1>4, <2>2
    <3>2. Lead(path, pos[n], m) = N - n + 1 BY <2>2 DEF Track
    <3>3. Lead(path, pos[n], m + 1) = Lead(path, pos[n], m) + 1 BY <1>1, <3>1
    <3> QED BY <3>1, <3>2, <3>3
  <2> QED BY <2>1, <2>2
<1>10. Followed(path)[m + 1] = [n \in 1..(N + 1) |-> path[new[n]]]
  <2> DEFINE left == [n \in 1..N |-> path[pos[n]]]
  <2>1. Followed(path)[m + 1] = Follow(Followed(path)[m], path[m + 1])
    BY FollowedDef
  <2>2. Followed(path)[m] = left BY DEF Track
  <2>3. Follow(left, path[m + 1]) = Append(left, path[m + 1]) BY DEF Follow, IsName
  <2>4. left \in Seq(Segment) /\ Len(left) = N
    <3>1. \A n \in 1..N : path[pos[n]] \in Segment BY <1>4
    <3>2. left \in [1..N -> Segment] BY <3>1
    <3> QED BY <3>2
  <2>5. path[m + 1] \in Segment OBVIOUS
  <2>6. Append(left, path[m + 1]) = [n \in 1..(N + 1) |-> path[new[n]]]
    <3> DEFINE longer == [n \in 1..(N + 1) |-> path[new[n]]]
    <3>1. \A n \in 1..(N + 1) : path[new[n]] \in Segment BY <1>6
    <3>2. longer \in [1..(N + 1) -> Segment] BY <3>1
    <3>3. longer \in Seq(Segment) /\ Len(longer) = N + 1 BY <3>2
    <3>4. /\ Append(left, path[m + 1]) \in Seq(Segment)
          /\ Len(Append(left, path[m + 1])) = N + 1
          /\ \A i \in 1..N : Append(left, path[m + 1])[i] = left[i]
          /\ Append(left, path[m + 1])[N + 1] = path[m + 1]
      BY <2>4, <2>5, AppendProperties
    <3>5. \A n \in 1..N : left[n] = path[pos[n]] /\ longer[n] = path[pos[n]] BY <1>4, <1>5
    <3>6. longer[N + 1] = path[m + 1] BY <1>4
    <3> HIDE DEF longer, left
    <3>7. \A n \in 1..(N + 1) : Append(left, path[m + 1])[n] = longer[n]
      BY <1>5, <3>4, <3>5, <3>6
    <3>8. Append(left, path[m + 1]) = longer BY <3>3, <3>4, <3>7, SeqEqual
    <3> QED BY <3>8 DEF longer
  <2> QED BY <2>1, <2>2, <2>3, <2>6
<1>11. N + 1 \in Nat OBVIOUS
<1> QED BY <1>6, <1>7, <1>8, <1>9, <1>10 DEF Track, new

\* ".." takes back the last of the names kept, if there is one.
LEMMA TrackUp ==
  ASSUME NEW Segment, NEW path \in Seq(Segment), NEW m \in Nat, m + 1 <= Len(path),
         NEW N \in Nat, NEW pos, Track(path, m, N, pos),
         path[m + 1] = ".."
  PROVE  \/ N = 0 /\ Track(path, m + 1, 0, pos)
         \/ N > 0 /\ Track(path, m + 1, N - 1, [n \in 1..(N - 1) |-> pos[n]])
<1>0. ~IsName(path[m + 1]) BY DEF IsName
<1>1. \A i \in 1..(m + 1) : Lead(path, i, m) \in Int /\ Lead(path, i, m + 1) = Lead(path, i, m) - 1
  BY <1>0, LeadStep
<1>2. Lead(path, m + 1, m + 1) = -1
  <2>1. m + 1 \in 1..(m + 1) OBVIOUS
  <2>2. Lead(path, m + 1, m) = 0 BY <2>1, LeadStep
  <2> QED BY <1>1, <2>1, <2>2
<1>3. Kept(path, m + 1) = {i \in Kept(path, m) : Lead(path, i, m) > 1}
  <2>1. Kept(path, m) \subseteq 1..m BY KeptStep
  <2>2. \A i \in Kept(path, m) : Lead(path, i, m + 1) > 0 <=> Lead(path, i, m) > 1
    BY <1>1, <2>1
  <2>3. Kept(path, m + 1) = {i \in Kept(path, m) \cup {m + 1} : Lead(path, i, m + 1) > 0}
    BY KeptStep
  <2>4. ~(Lead(path, m + 1, m + 1) > 0) BY <1>2
  <2> QED BY <2>2, <2>3, <2>4
<1>4. pos \in [1..N -> 1..m] /\ \A n \in 1..N : pos[n] \in 1..m BY DEF Track
<1>5. 1..m \subseteq 1..(m + 1) OBVIOUS
<1>6. Followed(path)[m + 1] = Follow(Followed(path)[m], path[m + 1])
  BY FollowedDef
<1>7. \A cleaned : Follow(cleaned, "..") = IF cleaned = <<>> THEN <<>> ELSE Front(cleaned)
  BY UpGoesUp, Zenon DEF Follow
<1>8. m + 1 \notin Kept(path, m)
  <2>1. Kept(path, m) \subseteq 1..m BY KeptStep
  <2> QED BY <2>1
<1>9. \A i \in 1..m : i \in Kept(path, m) <=> \E n \in 1..N : pos[n] = i BY DEF Track
<1>10. \A n \in 1..N : Lead(path, pos[n], m) = N - n + 1 BY DEF Track
<1> DEFINE left == [n \in 1..N |-> path[pos[n]]]
<1>11. Followed(path)[m] = left BY DEF Track
<1>12. left \in Seq(Segment) /\ Len(left) = N
  <2>1. \A n \in 1..N : path[pos[n]] \in Segment BY <1>4
  <2>2. left \in [1..N -> Segment] BY <2>1
  <2> QED BY <2>2
<1>13. CASE N = 0
  <2>1. left = <<>> BY <1>12, <1>13
  <2>2. Followed(path)[m + 1] = <<>> BY <1>6, <1>7, <1>11, <2>1
  <2>3. 1..0 = {} OBVIOUS
  <2>4. Kept(path, m) = {}
    <3>1. Kept(path, m) \subseteq 1..m BY KeptStep
    <3> QED BY <1>9, <1>13, <2>3, <3>1
  <2>5. Kept(path, m + 1) = {} BY <1>3, <2>4
  <2>6. pos \in [1..0 -> 1..(m + 1)] BY <1>4, <1>13, <2>3
  <2>7. <<>> = [n \in 1..0 |-> path[pos[n]]] OBVIOUS
  <2>8. Track(path, m + 1, 0, pos) BY <2>2, <2>3, <2>5, <2>6, <2>7 DEF Track
  <2> QED BY <1>13, <2>8
<1>14. CASE N > 0
  <2> DEFINE fewer == [n \in 1..(N - 1) |-> pos[n]]
  <2>1. 1..N = (1..(N - 1)) \cup {N} /\ N - 1 \in Nat BY <1>14
  <2>2. \A n \in 1..(N - 1) : n \in 1..N /\ fewer[n] = pos[n] /\ pos[n] \in 1..m /\ n < N
    BY <1>4, <2>1
  <2>3. fewer \in [1..(N - 1) -> 1..(m + 1)] BY <1>5, <2>2
  <2> HIDE DEF fewer
  <2>4. ASSUME NEW a \in 1..(N - 1), NEW b \in 1..(N - 1), a < b PROVE fewer[a] < fewer[b]
    <3>1. pos[a] < pos[b] BY <2>2, <2>4 DEF Track
    <3> QED BY <2>2, <3>1
  <2>5. ASSUME NEW i \in 1..(m + 1)
        PROVE  i \in Kept(path, m + 1) <=> \E n \in 1..(N - 1) : fewer[n] = i
    <3>1. CASE i = m + 1 BY <1>3, <1>8, <2>2, <3>1
    <3>2. CASE i \in 1..m
      <4>1. i \in Kept(path, m + 1) <=> i \in Kept(path, m) /\ Lead(path, i, m) > 1 BY <1>3
      <4>2. ASSUME i \in Kept(path, m + 1) PROVE \E n \in 1..(N - 1) : fewer[n] = i
        <5>1. PICK n \in 1..N : pos[n] = i BY <1>9, <3>2, <4>1, <4>2
        <5>2. N - n + 1 > 1 BY <1>10, <4>1, <4>2, <5>1
        <5>3. n \in 1..(N - 1) BY <5>2
        <5> QED BY <2>2, <5>1, <5>3
      <4>3. ASSUME NEW n \in 1..(N - 1), fewer[n] = i PROVE i \in Kept(path, m + 1)
        <5>1. n \in 1..N /\ pos[n] = i BY <2>2, <4>3
        <5>2. i \in Kept(path, m) BY <1>9, <3>2, <5>1
        <5>3. Lead(path, i, m) = N - n + 1 BY <1>10, <5>1
        <5> QED BY <4>1, <5>2, <5>3
      <4> QED BY <4>2, <4>3
    <3> QED BY <3>1, <3>2
  <2>6. ASSUME NEW n \in 1..(N - 1) PROVE Lead(path, fewer[n], m + 1) = (N - 1) - n + 1
    <3>1. fewer[n] = pos[n] /\ pos[n] \in 1..(m + 1) /\ n \in 1..N BY <1>5, <2>2
    <3>2. Lead(path, pos[n], m) = N - n + 1 BY <1>10, <3>1
    <3>3. Lead(path, pos[n], m + 1) = Lead(path, pos[n], m) - 1 BY <1>1, <3>1
    <3> QED BY <3>1, <3>2, <3>3
  <2>7. Followed(path)[m + 1] = [n \in 1..(N - 1) |-> path[fewer[n]]]
    <3>1. left # <<>> BY <1>12, <1>14
    <3>2. Followed(path)[m + 1] = Front(left) BY <1>6, <1>7, <1>11, <3>1
    <3>3. Front(left) = [n \in 1..(N - 1) |-> left[n]]
      BY <1>12, <1>14 DEF Front
    <3>4. \A n \in 1..(N - 1) : left[n] = path[fewer[n]] BY <2>2
    <3> QED BY <3>2, <3>3, <3>4
  <2>8. Track(path, m + 1, N - 1, fewer) BY <2>3, <2>4, <2>5, <2>6, <2>7 DEF Track
  <2> QED BY <1>14, <2>8 DEF fewer
<1> QED BY <1>13, <1>14

\* Whatever the path, the names kept of its first segments are what Clean has left of them.
LEMMA Tracked ==
  ASSUME NEW Segment, NEW path \in Seq(Segment)
  PROVE  \A m \in 0..Len(path) : \E N \in Nat : \E pos : Track(path, m, N, pos)
<1> DEFINE Holds(m) == \E N \in Nat : \E pos : Track(path, m, N, pos)
           S == {m \in Nat : m <= Len(path) => Holds(m)}
<1>1. 0 \in S
  <2>1. Followed(path)[0] = <<>> BY FollowedDef
  <2>2. 1..0 = {} OBVIOUS
  <2>3. <<>> \in [1..0 -> 1..0] /\ <<>> = [n \in 1..0 |-> path[<<>>[n]]] OBVIOUS
  <2>4. Track(path, 0, 0, <<>>) BY <2>1, <2>2, <2>3 DEF Track
  <2> QED BY <2>4
<1>2. ASSUME NEW m \in Nat, m \in S PROVE m + 1 \in S
  <2> SUFFICES ASSUME m + 1 <= Len(path) PROVE Holds(m + 1) OBVIOUS
  <2>0. PICK N \in Nat : \E pos : Track(path, m, N, pos) BY <1>2
  <2>1. PICK pos : Track(path, m, N, pos) BY <2>0
  <2>2. CASE path[m + 1] \in Nowhere BY <2>1, <2>2, TrackStay
  <2>3. CASE path[m + 1] = ".."
    <3>1. \/ N = 0 /\ Track(path, m + 1, 0, pos)
          \/ N > 0 /\ Track(path, m + 1, N - 1, [n \in 1..(N - 1) |-> pos[n]])
      BY <2>1, <2>3, TrackUp
    <3>2. N > 0 => N - 1 \in Nat OBVIOUS
    <3> QED BY <3>1, <3>2
  <2>4. CASE IsName(path[m + 1])
    <3>1. N + 1 \in Nat OBVIOUS
    <3> QED BY <2>1, <2>4, <3>1, TrackName
  <2> QED BY <2>2, <2>3, <2>4 DEF IsName
<1> HIDE DEF S
<1>3. Nat \subseteq S BY <1>1, <1>2, Induction
<1> QED BY <1>3 DEF S

\* An increasing function takes n numbers to n numbers.
LEMMA Ranked ==
  ASSUME NEW n \in Nat, NEW T, NEW pos,
         \A a \in 1..n : pos[a] \in Int,
         \A a, b \in 1..n : a < b => pos[a] < pos[b],
         T = {pos[a] : a \in 1..n}
  PROVE  Cardinality(T) = n
<1> DEFINE f == [a \in 1..n |-> pos[a]]
<1>2. f \in [1..n -> T] OBVIOUS
<1>3. \A t \in T : \E a \in 1..n : f[a] = t OBVIOUS
<1>4. ASSUME NEW a \in 1..n, NEW b \in 1..n, f[a] = f[b] PROVE a = b
  <2>1. pos[a] = pos[b] /\ pos[a] \in Int BY <1>4
  <2>2. ~(pos[a] < pos[b]) /\ ~(pos[b] < pos[a]) BY <2>1
  <2>3. ~(a < b) /\ ~(b < a) BY <2>1, <2>2
  <2> QED BY <2>3
<1> HIDE DEF f
<1>5. f \in Bijection(1..n, T)
  BY <1>2, <1>3, <1>4 DEF Bijection, Injection, Surjection, IsInjective
<1>6. ExistsBijection(1..n, T) BY <1>5 DEF ExistsBijection
<1>7. IsFiniteSet(1..n) /\ Cardinality(1..n) = n BY FS_Interval
<1> QED BY <1>6, <1>7, FS_Bijection

\* Where a path leads is what Clean makes of it.
LEMMA Leads ==
  ASSUME NEW Segment, NEW path \in Seq(Segment)
  PROVE  /\ Reached(path) = Clean(path)
         /\ Clean(path) \in Seq(Segment)
         /\ \A n \in 1..Len(Clean(path)) : Clean(path)[n] # ".."
<1> DEFINE m == Len(path)
           kept == Kept(path, m)
<1>1. m \in Nat /\ m \in 0..m OBVIOUS
<1>2a. PICK N \in Nat : \E pos : Track(path, m, N, pos) BY <1>1, Tracked
<1>2. PICK pos : Track(path, m, N, pos) BY <1>2a
<1>3. /\ pos \in [1..N -> 1..m] /\ pos \in [1..N -> Int]
      /\ \A n \in 1..N : pos[n] \in 1..m
      /\ \A a, b \in 1..N : a < b => pos[a] < pos[b]
  BY <1>2 DEF Track
<1>3a. /\ N \in Nat /\ pos \in [1..N -> Int]
       /\ \A a, b \in 1..N : a < b => pos[a] < pos[b]
  BY <1>3
<1>4. kept \subseteq 1..m BY <1>1, KeptStep
<1>5. \A i : i \in kept <=> \E n \in 1..N : pos[n] = i BY <1>2, <1>4 DEF Track
<1>5a. kept = {pos[n] : n \in 1..N} BY <1>5
<1>6. Clean(path) = [n \in 1..N |-> path[pos[n]]] BY <1>2 DEF Track, Clean
<1> HIDE DEF kept
<1>7. Cardinality(kept) = N
  <2>1. \A n \in 1..N : pos[n] \in Int BY <1>3
  <2> QED BY <1>3, <1>5a, <2>1, Ranked
<1>8. ASSUME NEW n \in 1..N PROVE Cardinality({k \in kept : k <= pos[n]}) = n
  <2> DEFINE upto == {k \in kept : k <= pos[n]}
  <2>1. ASSUME NEW i, i \in upto PROVE \E a \in 1..n : pos[a] = i
    <3>1. PICK a \in 1..N : pos[a] = i BY <1>5, <2>1
    <3>2. pos[a] <= pos[n] /\ pos[a] \in Int /\ pos[n] \in Int BY <1>3, <2>1, <3>1
    <3>3. ~(n < a) BY <1>3, <3>2
    <3>4. a \in 1..n BY <3>3
    <3> QED BY <3>1, <3>4
  <2>2. ASSUME NEW a \in 1..n PROVE pos[a] \in upto
    <3>1. a \in 1..N /\ (a = n \/ a < n) OBVIOUS
    <3>2. pos[a] \in kept BY <1>5, <3>1
    <3>3. pos[a] <= pos[n] BY <1>3, <3>1
    <3> QED BY <3>2, <3>3
  <2> HIDE DEF upto
  <2>3. upto = {pos[a] : a \in 1..n} BY <2>1, <2>2
  <2>4. \A a \in 1..n : a \in 1..N OBVIOUS
  <2>5. n \in Nat /\ (\A a \in 1..n : pos[a] \in Int)
        /\ \A a, b \in 1..n : a < b => pos[a] < pos[b]
    BY <1>3, <2>4
  <2>6. Cardinality(upto) = n BY <2>3, <2>5, Ranked
  <2> QED BY <2>6 DEF upto
<1> DEFINE nth(n) == CHOOSE i \in kept : Cardinality({k \in kept : k <= i}) = n
<1>9. ASSUME NEW n \in 1..N PROVE nth(n) = pos[n]
  <2>1. pos[n] \in kept BY <1>5
  <2>2. ASSUME NEW i \in kept, Cardinality({k \in kept : k <= i}) = n PROVE i = pos[n]
    <3>1. PICK a \in 1..N : pos[a] = i BY <1>5
    <3>2. Cardinality({k \in kept : k <= i}) = a BY <1>8, <3>1
    <3> QED BY <2>2, <3>1, <3>2
  <2> QED BY <1>8, <2>1, <2>2
<1>10. Reached(path) = [n \in 1..Cardinality(kept) |-> path[nth(n)]] BY DEF Reached, kept
<1> HIDE DEF nth
<1>11. Reached(path) = [n \in 1..N |-> path[pos[n]]] BY <1>7, <1>9, <1>10
<1>12. \A n \in 1..N : path[pos[n]] \in Segment BY <1>3
<1>13. Clean(path) \in Seq(Segment) /\ Len(Clean(path)) = N BY <1>6, <1>12
<1>14. ASSUME NEW n \in 1..N PROVE path[pos[n]] # ".."
  <2>1. pos[n] \in Kept(path, m) /\ pos[n] \in 1..m BY <1>3, <1>5 DEF kept
  <2>2. \A j \in pos[n]..m :
           Cardinality(NamesOn(path, pos[n], j)) > Cardinality(UpsOn(path, pos[n], j))
    BY <2>1 DEF Kept
  <2>3. Cardinality(NamesOn(path, pos[n], pos[n])) > Cardinality(UpsOn(path, pos[n], pos[n]))
    BY <2>1, <2>2
  <2> SUFFICES ASSUME path[pos[n]] = ".." PROVE FALSE OBVIOUS
  <2>4. pos[n]..pos[n] = {pos[n]} BY <2>1
  <2>5. NamesOn(path, pos[n], pos[n]) = {} BY <2>4 DEF NamesOn, IsName
  <2>6. Cardinality(NamesOn(path, pos[n], pos[n])) = 0 BY <2>5, FS_EmptySet
  <2>7. UpsOn(path, pos[n], pos[n]) \subseteq {pos[n]} BY <2>4 DEF UpsOn
  <2>8. IsFiniteSet(UpsOn(path, pos[n], pos[n])) BY <2>7, FS_Singleton, FS_Subset
  <2>9. Cardinality(UpsOn(path, pos[n], pos[n])) \in Nat BY <2>8, FS_CardinalityType
  <2> QED BY <2>3, <2>6, <2>9
<1> QED BY <1>6, <1>11, <1>13, <1>14

\* A set of numbers that has a bound has a greatest element.
LEMMA Greatest ==
  ASSUME NEW L, L \subseteq Nat, 0 \in L, NEW bound \in Nat, \A l \in L : l <= bound
  PROVE  \E g \in L : \A l \in L : l <= g
<1> DEFINE S == {n \in Nat : n \in L \/ \E l \in L : l > n}
<1> SUFFICES ASSUME \A g \in L : \E l \in L : l > g PROVE FALSE
  <2>1. \A g, l \in L : ~(l <= g) <=> l > g OBVIOUS
  <2> QED BY <2>1
<1>1. 0 \in S OBVIOUS
<1>2. ASSUME NEW n \in Nat, n \in S PROVE n + 1 \in S
  <2>1. PICK l \in L : l > n BY <1>2
  <2>2. l = n + 1 \/ l > n + 1 BY <2>1
  <2> QED BY <2>1, <2>2
<1> HIDE DEF S
<1>3. Nat \subseteq S BY <1>1, <1>2, Induction
<1>4. bound + 1 \in S BY <1>3
<1>5. \A l \in L : ~(l > bound + 1) /\ l # bound + 1 OBVIOUS
<1> QED BY <1>4, <1>5 DEF S

\* The prefixes two paths share, by their lengths.
LEMMA Shared ==
  ASSUME NEW Segment, NEW r \in Seq(Segment), NEW p \in Seq(Segment)
  PROVE  LET s == Len(LongestCommonPrefix({r, p}))
         IN  /\ s \in 0..Len(r) /\ s <= Len(p)
             /\ SubSeq(r, 1, s) = SubSeq(p, 1, s)
             /\ IsPrefix(r, p) => s = Len(r)
<1> DEFINE common == CommonPrefixes({r, p})
           L == {l \in 0..Len(r) : l <= Len(p) /\ SubSeq(r, 1, l) = SubSeq(p, 1, l)}
<1>1. \A l \in 0..Len(r) :
         Len(SubSeq(r, 1, l)) = l /\ SubSeq(SubSeq(r, 1, l), 1, l) = SubSeq(r, 1, l)
  OBVIOUS
<1>2. \A l \in 0..Len(p) :
         Len(SubSeq(p, 1, l)) = l /\ SubSeq(SubSeq(p, 1, l), 1, l) = SubSeq(p, 1, l)
  OBVIOUS
<1>3. ASSUME NEW x \in common PROVE Len(x) \in L /\ x = SubSeq(r, 1, Len(x))
  <2>1. \/ \E l \in 0..Len(r) : x = SubSeq(r, 1, l)
        \/ \E l \in 0..Len(p) : x = SubSeq(p, 1, l)
    BY DEF CommonPrefixes, Prefixes
  <2>2. Len(x) \in Nat /\ SubSeq(x, 1, Len(x)) = x BY <1>1, <1>2, <2>1
  <2>3. IsPrefix(x, r) /\ IsPrefix(x, p) BY DEF CommonPrefixes
  <2>4. /\ Len(x) <= Len(r) /\ Len(x) <= Len(p)
        /\ x = SubSeq(r, 1, Len(x)) /\ x = SubSeq(p, 1, Len(x))
    BY <2>2, <2>3 DEF IsPrefix
  <2> QED BY <2>2, <2>4
<1>4. ASSUME NEW l \in L PROVE SubSeq(r, 1, l) \in common /\ Len(SubSeq(r, 1, l)) = l
  <2>1. /\ l \in 0..Len(r) /\ l <= Len(p) /\ SubSeq(r, 1, l) = SubSeq(p, 1, l)
        /\ Len(SubSeq(r, 1, l)) = l
        /\ SubSeq(SubSeq(r, 1, l), 1, l) = SubSeq(r, 1, l)
    BY <1>1
  <2>2. IsPrefix(SubSeq(r, 1, l), r) /\ IsPrefix(SubSeq(r, 1, l), p) BY <2>1 DEF IsPrefix
  <2>3. SubSeq(r, 1, l) \in Prefixes(r) BY <2>1 DEF Prefixes
  <2> QED BY <2>1, <2>2, <2>3 DEF CommonPrefixes
<1>5. 0 \in L
  <2>1. SubSeq(r, 1, 0) = <<>> /\ SubSeq(p, 1, 0) = <<>> OBVIOUS
  <2> QED BY <2>1
<1>6. L \subseteq Nat /\ (\A l \in L : l <= Len(r)) /\ Len(r) \in Nat OBVIOUS
<1>7. PICK g \in L : \A l \in L : l <= g BY <1>5, <1>6, Greatest
<1> HIDE DEF L, common
<1>8. \A other \in common : Len(other) <= Len(SubSeq(r, 1, g)) BY <1>3, <1>4, <1>7
<1> DEFINE longest == LongestCommonPrefix({r, p})
<1>9. longest \in common /\ \A other \in common : Len(other) <= Len(longest)
  <2>1. longest = CHOOSE x \in common : \A other \in common : Len(other) <= Len(x)
    BY DEF LongestCommonPrefix, common
  <2>2. SubSeq(r, 1, g) \in common BY <1>4
  <2> HIDE DEF longest
  <2> QED BY <1>8, <2>1, <2>2
<1> HIDE DEF longest
<1>10. Len(longest) \in L BY <1>3, <1>9
<1>11. /\ Len(longest) \in 0..Len(r) /\ Len(longest) <= Len(p)
       /\ SubSeq(r, 1, Len(longest)) = SubSeq(p, 1, Len(longest))
  BY <1>10 DEF L
<1>12. ASSUME IsPrefix(r, p) PROVE Len(longest) = Len(r)
  <2>1. Len(r) \in L BY <1>12 DEF IsPrefix, L
  <2>2. SubSeq(r, 1, Len(r)) \in common /\ Len(SubSeq(r, 1, Len(r))) = Len(r) BY <1>4, <2>1
  <2>3. Len(r) <= Len(longest) BY <1>9, <2>2
  <2> QED BY <1>11, <2>3
<1> QED BY <1>11, <1>12 DEF longest

\* The relative path begins by going up exactly if the one directory is not on the way to
\* the other.
LEMMA RelativeGoesUp ==
  ASSUME NEW Segment, NEW r \in Seq(Segment), NEW p \in Seq(Segment),
         \A n \in 1..Len(p) : p[n] # ".."
  PROVE  /\ IsPrefix(r, p) /\ r = p => Rel(r, p) = <<>>
         /\ IsPrefix(r, p) /\ r # p => Rel(r, p) # <<>> /\ Head(Rel(r, p)) # ".."
         /\ ~IsPrefix(r, p) => Rel(r, p) # <<>> /\ Head(Rel(r, p)) = ".."
<1> DEFINE s == Len(LongestCommonPrefix({r, p}))
           ups == [i \in 1..(Len(r) - s) |-> ".."]
           down == SubSeq(p, s + 1, Len(p))
           Steps == Segment \cup {".."}
<1>1. /\ s \in 0..Len(r) /\ s <= Len(p)
      /\ SubSeq(r, 1, s) = SubSeq(p, 1, s)
      /\ IsPrefix(r, p) => s = Len(r)
  BY Shared
<1>2. Rel(r, p) = ups \o down BY DEF Rel
<1> HIDE DEF s
<1>3. ups \in Seq(Steps) /\ Len(ups) = Len(r) - s /\ \A i \in 1..(Len(r) - s) : ups[i] = ".."
  <2>1. Len(r) - s \in Nat BY <1>1
  <2>2. ups \in [1..(Len(r) - s) -> Steps] OBVIOUS
  <2> QED BY <2>1, <2>2
<1>4. /\ down \in Seq(Steps) /\ Len(down) = Len(p) - s
      /\ \A i \in 1..(Len(p) - s) : down[i] = p[s + i] /\ s + i \in 1..Len(p)
  <2>1. \A i \in (s + 1)..Len(p) : p[i] \in Steps BY <1>1
  <2>2. s + 1 \in Int /\ Len(p) \in Int BY <1>1
  <2>3. /\ down \in Seq(Steps)
        /\ Len(down) = IF s + 1 <= Len(p) THEN Len(p) - (s + 1) + 1 ELSE 0
        /\ \A i \in 1..(Len(p) - (s + 1) + 1) : down[i] = p[(s + 1) + i - 1]
    BY <2>1, <2>2, SubSeqProperties
  <2> QED BY <1>1, <2>3
<1> HIDE DEF ups, down, Steps
<1>5. /\ ups \o down \in Seq(Steps)
      /\ Len(ups \o down) = Len(ups) + Len(down)
      /\ \A i \in 1..(Len(ups) + Len(down)) :
            (ups \o down)[i] = IF i <= Len(ups) THEN ups[i] ELSE down[i - Len(ups)]
  BY <1>3, <1>4, ConcatProperties
<1>6. CASE IsPrefix(r, p)
  <2>1. s = Len(r) /\ Len(r) <= Len(p) /\ SubSeq(r, 1, Len(r)) = SubSeq(p, 1, Len(r))
    BY <1>1, <1>6 DEF IsPrefix
  <2>2. r = p <=> Len(r) = Len(p)
    <3>1. SubSeq(r, 1, Len(r)) = r /\ SubSeq(p, 1, Len(p)) = p BY SubSeqFull
    <3> QED BY <2>1, <3>1
  <2>3. Len(ups) = 0 BY <1>3, <2>1
  <2>4. CASE r = p
    <3>1. Len(ups \o down) = 0 BY <1>4, <1>5, <2>1, <2>2, <2>3, <2>4
    <3>2. ups \o down = <<>> BY <1>5, <3>1
    <3> QED BY <1>2, <1>6, <2>4, <3>2
  <2>5. CASE r # p
    <3>1. Len(down) > 0 /\ 1 \in 1..(Len(p) - s) BY <1>1, <1>4, <2>1, <2>2, <2>5
    <3>2. (ups \o down)[1] = down[1] BY <1>5, <2>3, <3>1
    <3>3. down[1] # ".." BY <1>4, <3>1
    <3>4. Len(ups \o down) > 0 BY <1>5, <2>3, <3>1
    <3> QED BY <1>2, <1>5, <1>6, <2>5, <3>2, <3>3, <3>4
  <2> QED BY <1>6, <2>4, <2>5
<1>7. CASE ~IsPrefix(r, p)
  <2>1. s # Len(r) BY <1>1, <1>7 DEF IsPrefix
  <2>2. Len(ups) > 0 /\ 1 \in 1..(Len(r) - s) BY <1>1, <1>3, <2>1
  <2>3. (ups \o down)[1] = ".." BY <1>3, <1>4, <1>5, <2>2
  <2>4. Len(ups \o down) > 0 BY <1>4, <1>1, <1>5, <2>2
  <2> QED BY <1>2, <1>5, <1>7, <2>3, <2>4
<1> QED BY <1>6, <1>7

\* Contained, the formula PathsContained checks: for all paths, however long and whatever
\* their segments, PathInside and Inside ask what following the paths answers (pathInside,
\* inside).
THEOREM ContainedWherever ==
  ASSUME NEW Segment, NEW root \in Seq(Segment), NEW path \in Seq(Segment)
  PROVE  Contained(root, path)
<1>1. /\ Reached(root) = Clean(root) /\ Clean(root) \in Seq(Segment)
      /\ Reached(path) = Clean(path) /\ Clean(path) \in Seq(Segment)
      /\ \A n \in 1..Len(Clean(path)) : Clean(path)[n] # ".."
  BY Leads
<1> DEFINE r == Clean(root)
           p == Clean(path)
<1>2. /\ IsPrefix(r, p) /\ r = p => Rel(r, p) = <<>>
      /\ IsPrefix(r, p) /\ r # p => Rel(r, p) # <<>> /\ Head(Rel(r, p)) # ".."
      /\ ~IsPrefix(r, p) => Rel(r, p) # <<>> /\ Head(Rel(r, p)) = ".."
  BY <1>1, RelativeGoesUp
<1> QED BY <1>1, <1>2 DEF Contained, PathInside, Inside, IsStrictPrefix

-----------------------------------------------------------------------------
(* The prompt pointer: what is escaped is decoded again, a pointer is      *)
(* split where its segments meet, and an index is read as the number it    *)
(* was written for.                                                        *)

Passes == [text : Seq(Byte), open : BOOLEAN]
Texts == Seq(Byte)
Segmented == Seq(Texts) \ {<<>>}
Clear == [text |-> <<>>, open |-> FALSE]
Whole == <<<<>>>>

\* The bytes that matter to a pointer are different bytes.
LEMMA Bytes ==
  /\ Tilde \in Byte /\ Slash \in Byte /\ Zero \in Byte /\ One \in Byte
  /\ Tilde # Slash /\ Tilde # Zero /\ Tilde # One /\ Slash # Zero /\ Slash # One /\ Zero # One
BY DEF Tilde, Slash, Zero, One, Byte

\* What one byte more makes of a pass, of segments, of a number and of an escaped text is
\* again one.
LEMMA PassType ==
  ASSUME NEW s \in Passes, NEW b \in Byte
  PROVE  Replace(s, b) \in Passes
<1>1. s.text \in Seq(Byte) /\ s.open \in BOOLEAN BY DEF Passes
<1>2. Append(s.text, b) \in Seq(Byte) BY <1>1
<1>3. Front(s.text) \in Seq(Byte) BY <1>1 DEF Front
<1>4. Append(Front(s.text), Slash) \in Seq(Byte) BY <1>3, Bytes
<1>5. Replace(s, b) \in {[text |-> s.text, open |-> FALSE],
                        [text |-> Append(Front(s.text), Slash), open |-> FALSE],
                        [text |-> Append(s.text, b), open |-> b = Tilde]}
  BY DEF Replace
<1>6. [text |-> Append(s.text, b), open |-> b = Tilde] \in Passes BY <1>2, Zenon DEF Passes
<1>7. /\ [text |-> s.text, open |-> FALSE] \in Passes
      /\ [text |-> Append(Front(s.text), Slash), open |-> FALSE] \in Passes
  BY <1>1, <1>4 DEF Passes
<1> QED BY <1>5, <1>6, <1>7, Zenon

\* The segments cut so far stay segments.
LEMMA CutType ==
  ASSUME NEW s \in Segmented, NEW b \in Byte
  PROVE  Cut(s, b) \in Segmented
<1>1. s \in Seq(Texts) /\ s # <<>> /\ Len(s) \in 1..Len(s) BY DEF Segmented
<1>2. Front(s) \in Seq(Texts) BY <1>1 DEF Front
<1>3. Last(s) \in Texts BY <1>1 DEF Last
<1>4. Append(Last(s), b) \in Texts BY <1>3 DEF Texts
<1>5. <<>> \in Texts BY DEF Texts
<1>6. \A t \in Seq(Texts), c \in Texts : Append(t, c) \in Segmented
  BY Appended DEF Segmented
<1> QED BY <1>1, <1>2, <1>4, <1>5, <1>6 DEF Cut

\* What escapes a byte is a text.
LEMMA EscapeType ==
  ASSUME NEW b \in Byte
  PROVE  Escape(b) \in Seq(Byte)
<1>1. <<Tilde, Zero>> \in Seq(Byte) /\ <<Tilde, One>> \in Seq(Byte) /\ <<b>> \in Seq(Byte) BY Bytes
<1> QED BY <1>1 DEF Escape

\* Decoding reads a text byte by byte.
Replacing == [s \in Passes |-> [b \in Byte |-> Replace(s, b)]]

\* Decoding is what the fold over the whole sequence comes to.
LEMMA DecodingFolds ==
  ASSUME NEW seq \in Seq(Byte)
  PROVE  \E at : Folds(at, Passes, Clear, Replacing, seq) /\ Decoding(seq) = at[Len(seq)]
<1> DEFINE Solves(at) ==
              at = [n \in 0..Len(seq) |-> IF n = 0 THEN Clear ELSE Replace(at[n - 1], seq[n])]
           chosen == CHOOSE at : Solves(at)
<1>1. Replacing \in [Passes -> [Byte -> Passes]] BY PassType DEF Replacing
<1>2. Clear \in Passes BY DEF Passes, Clear
<1>3. PICK at : Folds(at, Passes, Clear, Replacing, seq) BY <1>1, <1>2, Folding
<1>4. /\ at \in [0..Len(seq) -> Passes] /\ at[0] = Clear
      /\ \A n \in 1..Len(seq) : at[n] = Replacing[at[n - 1]][seq[n]]
  BY <1>3 DEF Folds
<1>5. ASSUME NEW n \in 1..Len(seq) PROVE at[n] = Replace(at[n - 1], seq[n])
  <2>1. at[n - 1] \in Passes /\ seq[n] \in Byte BY <1>4
  <2>2. \A s \in Passes : \A b \in Byte : Replacing[s][b] = Replace(s, b) BY DEF Replacing
  <2> QED BY <1>4, <2>1, <2>2
<1>6. Solves(at)
  <2>1. at = [n \in 0..Len(seq) |-> at[n]] BY <1>4
  <2>2. ASSUME NEW n \in 0..Len(seq)
        PROVE  at[n] = IF n = 0 THEN Clear ELSE Replace(at[n - 1], seq[n])
    <3>1. n # 0 => n \in 1..Len(seq) OBVIOUS
    <3> QED BY <1>4, <1>5, <3>1, Zenon
  <2> QED BY <2>1, <2>2
<1>7. Solves(chosen) BY <1>6
<1>8. Decoding(seq) = chosen[Len(seq)] BY DEF Decoding, Clear
<1> HIDE DEF chosen
<1>9. /\ chosen[0] = Clear
      /\ \A n \in 1..Len(seq) : chosen[n] = Replace(chosen[n - 1], seq[n])
  BY <1>7
<1>10. \A n \in 1..Len(seq) : at[n - 1] = chosen[n - 1] => at[n] = chosen[n] BY <1>5, <1>9
<1>11. Len(seq) \in 0..Len(seq) /\ Len(seq) \in Nat OBVIOUS
<1>12. Parallel(at, chosen, Len(seq)) BY <1>4, <1>9, <1>10 DEF Parallel
<1>13. at[Len(seq)] = chosen[Len(seq)] BY <1>11, <1>12, Alike
<1> QED BY <1>3, <1>8, <1>13

\* Decoding of nothing, and of one element more.
LEMMA DecodingLaw ==
  /\ Decoding(<<>>) = Clear
  /\ \A seq \in Seq(Byte) : Decoding(seq) \in Passes
  /\ \A seq \in Seq(Byte), b \in Byte : Decoding(Append(seq, b)) = Replace(Decoding(seq), b)
<1>1. <<>> \in Seq(Byte) /\ Len(<<>>) = 0 OBVIOUS
<1>2. Decoding(<<>>) = Clear BY <1>1, DecodingFolds DEF Folds
<1>3. ASSUME NEW seq \in Seq(Byte), NEW b \in Byte
      PROVE  Decoding(seq) \in Passes /\ Decoding(Append(seq, b)) = Replace(Decoding(seq), b)
  <2>1. Append(seq, b) \in Seq(Byte) OBVIOUS
  <2>2. PICK f : Folds(f, Passes, Clear, Replacing, seq) /\ Decoding(seq) = f[Len(seq)]
    BY DecodingFolds
  <2>3. PICK g : /\ Folds(g, Passes, Clear, Replacing, Append(seq, b))
                 /\ Decoding(Append(seq, b)) = g[Len(Append(seq, b))]
    BY <2>1, DecodingFolds
  <2>4. /\ f[Len(seq)] \in Passes
        /\ g[Len(Append(seq, b))] = Replacing[f[Len(seq)]][b]
    BY <2>2, <2>3, FoldsOn
  <2>5. \A s \in Passes : Replacing[s][b] = Replace(s, b) BY DEF Replacing
  <2> QED BY <2>2, <2>3, <2>4, <2>5
<1>4. ASSUME NEW seq \in Seq(Byte) PROVE Decoding(seq) \in Passes
  <2>1. PICK f : Folds(f, Passes, Clear, Replacing, seq) /\ Decoding(seq) = f[Len(seq)]
    BY DecodingFolds
  <2>2. f \in [0..Len(seq) -> Passes] /\ Len(seq) \in 0..Len(seq) BY <2>1 DEF Folds
  <2> QED BY <2>1, <2>2
<1> QED BY <1>2, <1>3, <1>4

\* So does Split.
Cutting == [s \in Segmented |-> [b \in Byte |-> Cut(s, b)]]

\* Split is what the fold over the whole sequence comes to.
LEMMA SplitFolds ==
  ASSUME NEW seq \in Seq(Byte)
  PROVE  \E at : Folds(at, Segmented, Whole, Cutting, seq) /\ Split(seq) = at[Len(seq)]
<1> DEFINE Solves(at) ==
              at = [n \in 0..Len(seq) |-> IF n = 0 THEN Whole ELSE Cut(at[n - 1], seq[n])]
           chosen == CHOOSE at : Solves(at)
<1>1. Cutting \in [Segmented -> [Byte -> Segmented]] BY CutType DEF Cutting
<1>2. Whole \in Segmented BY DEF Segmented, Whole, Texts
<1>3. PICK at : Folds(at, Segmented, Whole, Cutting, seq) BY <1>1, <1>2, Folding
<1>4. /\ at \in [0..Len(seq) -> Segmented] /\ at[0] = Whole
      /\ \A n \in 1..Len(seq) : at[n] = Cutting[at[n - 1]][seq[n]]
  BY <1>3 DEF Folds
<1>5. ASSUME NEW n \in 1..Len(seq) PROVE at[n] = Cut(at[n - 1], seq[n])
  <2>1. at[n - 1] \in Segmented /\ seq[n] \in Byte BY <1>4
  <2>2. \A s \in Segmented : \A b \in Byte : Cutting[s][b] = Cut(s, b) BY DEF Cutting
  <2> QED BY <1>4, <2>1, <2>2
<1>6. Solves(at)
  <2>1. at = [n \in 0..Len(seq) |-> at[n]] BY <1>4
  <2>2. ASSUME NEW n \in 0..Len(seq)
        PROVE  at[n] = IF n = 0 THEN Whole ELSE Cut(at[n - 1], seq[n])
    <3>1. n # 0 => n \in 1..Len(seq) OBVIOUS
    <3> QED BY <1>4, <1>5, <3>1, Zenon
  <2> QED BY <2>1, <2>2
<1>7. Solves(chosen) BY <1>6
<1>8. Split(seq) = chosen[Len(seq)] BY DEF Split, Whole
<1> HIDE DEF chosen
<1>9. /\ chosen[0] = Whole
      /\ \A n \in 1..Len(seq) : chosen[n] = Cut(chosen[n - 1], seq[n])
  BY <1>7
<1>10. \A n \in 1..Len(seq) : at[n - 1] = chosen[n - 1] => at[n] = chosen[n] BY <1>5, <1>9
<1>11. Len(seq) \in 0..Len(seq) /\ Len(seq) \in Nat OBVIOUS
<1>12. Parallel(at, chosen, Len(seq)) BY <1>4, <1>9, <1>10 DEF Parallel
<1>13. at[Len(seq)] = chosen[Len(seq)] BY <1>11, <1>12, Alike
<1> QED BY <1>3, <1>8, <1>13

\* Split of nothing, and of one element more.
LEMMA SplitLaw ==
  /\ Split(<<>>) = Whole
  /\ \A seq \in Seq(Byte) : Split(seq) \in Segmented
  /\ \A seq \in Seq(Byte), b \in Byte : Split(Append(seq, b)) = Cut(Split(seq), b)
<1>1. <<>> \in Seq(Byte) /\ Len(<<>>) = 0 OBVIOUS
<1>2. Split(<<>>) = Whole BY <1>1, SplitFolds DEF Folds
<1>3. ASSUME NEW seq \in Seq(Byte), NEW b \in Byte
      PROVE  Split(seq) \in Segmented /\ Split(Append(seq, b)) = Cut(Split(seq), b)
  <2>1. Append(seq, b) \in Seq(Byte) OBVIOUS
  <2>2. PICK f : Folds(f, Segmented, Whole, Cutting, seq) /\ Split(seq) = f[Len(seq)]
    BY SplitFolds
  <2>3. PICK g : /\ Folds(g, Segmented, Whole, Cutting, Append(seq, b))
                 /\ Split(Append(seq, b)) = g[Len(Append(seq, b))]
    BY <2>1, SplitFolds
  <2>4. /\ f[Len(seq)] \in Segmented
        /\ g[Len(Append(seq, b))] = Cutting[f[Len(seq)]][b]
    BY <2>2, <2>3, FoldsOn
  <2>5. \A s \in Segmented : Cutting[s][b] = Cut(s, b) BY DEF Cutting
  <2> QED BY <2>2, <2>3, <2>4, <2>5
<1>4. ASSUME NEW seq \in Seq(Byte) PROVE Split(seq) \in Segmented
  <2>1. PICK f : Folds(f, Segmented, Whole, Cutting, seq) /\ Split(seq) = f[Len(seq)]
    BY SplitFolds
  <2>2. f \in [0..Len(seq) -> Segmented] /\ Len(seq) \in 0..Len(seq) BY <2>1 DEF Folds
  <2> QED BY <2>1, <2>2
<1> QED BY <1>2, <1>3, <1>4

\* So does Value.
Counting == [s \in Int |-> [b \in Byte |-> 10 * s + (b - Zero)]]

\* Value is what the fold over the whole sequence comes to.
LEMMA ValueFolds ==
  ASSUME NEW seq \in Seq(Byte)
  PROVE  \E at : Folds(at, Int, 0, Counting, seq) /\ Value(seq) = at[Len(seq)]
<1> DEFINE Solves(at) ==
              at = [n \in 0..Len(seq) |-> IF n = 0 THEN 0 ELSE 10 * at[n - 1] + (seq[n] - Zero)]
           chosen == CHOOSE at : Solves(at)
<1>1. Counting \in [Int -> [Byte -> Int]] BY DEF Counting, Zero, Byte
<1>2. 0 \in Int OBVIOUS
<1>3. PICK at : Folds(at, Int, 0, Counting, seq) BY <1>1, <1>2, Folding
<1>4. /\ at \in [0..Len(seq) -> Int] /\ at[0] = 0
      /\ \A n \in 1..Len(seq) : at[n] = Counting[at[n - 1]][seq[n]]
  BY <1>3 DEF Folds
<1>5. ASSUME NEW n \in 1..Len(seq) PROVE at[n] = 10 * at[n - 1] + (seq[n] - Zero)
  <2>1. at[n - 1] \in Int /\ seq[n] \in Byte BY <1>4
  <2>2. \A s \in Int : \A b \in Byte : Counting[s][b] = 10 * s + (b - Zero) BY DEF Counting
  <2> QED BY <1>4, <2>1, <2>2
<1>6. Solves(at)
  <2>1. at = [n \in 0..Len(seq) |-> at[n]] BY <1>4
  <2>2. ASSUME NEW n \in 0..Len(seq)
        PROVE  at[n] = IF n = 0 THEN 0 ELSE 10 * at[n - 1] + (seq[n] - Zero)
    <3>1. n # 0 => n \in 1..Len(seq) OBVIOUS
    <3> QED BY <1>4, <1>5, <3>1, Zenon
  <2> QED BY <2>1, <2>2
<1>7. Solves(chosen) BY <1>6
<1>8. Value(seq) = chosen[Len(seq)] BY DEF Value
<1> HIDE DEF chosen
<1>9. /\ chosen[0] = 0
      /\ \A n \in 1..Len(seq) : chosen[n] = 10 * chosen[n - 1] + (seq[n] - Zero)
  BY <1>7
<1>10. \A n \in 1..Len(seq) : at[n - 1] = chosen[n - 1] => at[n] = chosen[n] BY <1>5, <1>9
<1>11. Len(seq) \in 0..Len(seq) /\ Len(seq) \in Nat OBVIOUS
<1>12. Parallel(at, chosen, Len(seq)) BY <1>4, <1>9, <1>10 DEF Parallel
<1>13. at[Len(seq)] = chosen[Len(seq)] BY <1>11, <1>12, Alike
<1> QED BY <1>3, <1>8, <1>13

\* Value of nothing, and of one element more.
LEMMA ValueLaw ==
  /\ Value(<<>>) = 0
  /\ \A seq \in Seq(Byte) : Value(seq) \in Int
  /\ \A seq \in Seq(Byte), b \in Byte : Value(Append(seq, b)) = 10 * Value(seq) + (b - Zero)
<1>1. <<>> \in Seq(Byte) /\ Len(<<>>) = 0 OBVIOUS
<1>2. Value(<<>>) = 0 BY <1>1, ValueFolds DEF Folds
<1>3. ASSUME NEW seq \in Seq(Byte), NEW b \in Byte
      PROVE  Value(seq) \in Int /\ Value(Append(seq, b)) = 10 * Value(seq) + (b - Zero)
  <2>1. Append(seq, b) \in Seq(Byte) OBVIOUS
  <2>2. PICK f : Folds(f, Int, 0, Counting, seq) /\ Value(seq) = f[Len(seq)]
    BY ValueFolds
  <2>3. PICK g : /\ Folds(g, Int, 0, Counting, Append(seq, b))
                 /\ Value(Append(seq, b)) = g[Len(Append(seq, b))]
    BY <2>1, ValueFolds
  <2>4. /\ f[Len(seq)] \in Int
        /\ g[Len(Append(seq, b))] = Counting[f[Len(seq)]][b]
    BY <2>2, <2>3, FoldsOn
  <2>5. \A s \in Int : Counting[s][b] = 10 * s + (b - Zero) BY DEF Counting
  <2> QED BY <2>2, <2>3, <2>4, <2>5
<1>4. ASSUME NEW seq \in Seq(Byte) PROVE Value(seq) \in Int
  <2>1. PICK f : Folds(f, Int, 0, Counting, seq) /\ Value(seq) = f[Len(seq)]
    BY ValueFolds
  <2>2. f \in [0..Len(seq) -> Int] /\ Len(seq) \in 0..Len(seq) BY <2>1 DEF Folds
  <2> QED BY <2>1, <2>2
<1> QED BY <1>2, <1>3, <1>4

\* So does Escaped.
Escaping == [s \in Texts |-> [b \in Byte |-> s \o Escape(b)]]

\* Escaped is what the fold over the whole sequence comes to.
LEMMA EscapedFolds ==
  ASSUME NEW seq \in Seq(Byte)
  PROVE  \E at : Folds(at, Texts, <<>>, Escaping, seq) /\ Escaped(seq) = at[Len(seq)]
<1> DEFINE Solves(at) ==
              at = [n \in 0..Len(seq) |-> IF n = 0 THEN <<>> ELSE at[n - 1] \o Escape(seq[n])]
           chosen == CHOOSE at : Solves(at)
<1>1. Escaping \in [Texts -> [Byte -> Texts]] BY EscapeType DEF Escaping, Texts
<1>2. <<>> \in Texts BY DEF Texts
<1>3. PICK at : Folds(at, Texts, <<>>, Escaping, seq) BY <1>1, <1>2, Folding
<1>4. /\ at \in [0..Len(seq) -> Texts] /\ at[0] = <<>>
      /\ \A n \in 1..Len(seq) : at[n] = Escaping[at[n - 1]][seq[n]]
  BY <1>3 DEF Folds
<1>5. ASSUME NEW n \in 1..Len(seq) PROVE at[n] = at[n - 1] \o Escape(seq[n])
  <2>1. at[n - 1] \in Texts /\ seq[n] \in Byte BY <1>4
  <2>2. \A s \in Texts : \A b \in Byte : Escaping[s][b] = s \o Escape(b) BY DEF Escaping
  <2> QED BY <1>4, <2>1, <2>2
<1>6. Solves(at)
  <2>1. at = [n \in 0..Len(seq) |-> at[n]] BY <1>4
  <2>2. ASSUME NEW n \in 0..Len(seq)
        PROVE  at[n] = IF n = 0 THEN <<>> ELSE at[n - 1] \o Escape(seq[n])
    <3>1. n # 0 => n \in 1..Len(seq) OBVIOUS
    <3> QED BY <1>4, <1>5, <3>1, Zenon
  <2> QED BY <2>1, <2>2
<1>7. Solves(chosen) BY <1>6
<1>8. Escaped(seq) = chosen[Len(seq)] BY DEF Escaped
<1> HIDE DEF chosen
<1>9. /\ chosen[0] = <<>>
      /\ \A n \in 1..Len(seq) : chosen[n] = chosen[n - 1] \o Escape(seq[n])
  BY <1>7
<1>10. \A n \in 1..Len(seq) : at[n - 1] = chosen[n - 1] => at[n] = chosen[n] BY <1>5, <1>9
<1>11. Len(seq) \in 0..Len(seq) /\ Len(seq) \in Nat OBVIOUS
<1>12. Parallel(at, chosen, Len(seq)) BY <1>4, <1>9, <1>10 DEF Parallel
<1>13. at[Len(seq)] = chosen[Len(seq)] BY <1>11, <1>12, Alike
<1> QED BY <1>3, <1>8, <1>13

\* Escaped of nothing, and of one element more.
LEMMA EscapedLaw ==
  /\ Escaped(<<>>) = <<>>
  /\ \A seq \in Seq(Byte) : Escaped(seq) \in Texts
  /\ \A seq \in Seq(Byte), b \in Byte : Escaped(Append(seq, b)) = Escaped(seq) \o Escape(b)
<1>1. <<>> \in Seq(Byte) /\ Len(<<>>) = 0 OBVIOUS
<1>2. Escaped(<<>>) = <<>> BY <1>1, EscapedFolds DEF Folds
<1>3. ASSUME NEW seq \in Seq(Byte), NEW b \in Byte
      PROVE  Escaped(seq) \in Texts /\ Escaped(Append(seq, b)) = Escaped(seq) \o Escape(b)
  <2>1. Append(seq, b) \in Seq(Byte) OBVIOUS
  <2>2. PICK f : Folds(f, Texts, <<>>, Escaping, seq) /\ Escaped(seq) = f[Len(seq)]
    BY EscapedFolds
  <2>3. PICK g : /\ Folds(g, Texts, <<>>, Escaping, Append(seq, b))
                 /\ Escaped(Append(seq, b)) = g[Len(Append(seq, b))]
    BY <2>1, EscapedFolds
  <2>4. /\ f[Len(seq)] \in Texts
        /\ g[Len(Append(seq, b))] = Escaping[f[Len(seq)]][b]
    BY <2>2, <2>3, FoldsOn
  <2>5. \A s \in Texts : Escaping[s][b] = s \o Escape(b) BY DEF Escaping
  <2> QED BY <2>2, <2>3, <2>4, <2>5
<1>4. ASSUME NEW seq \in Seq(Byte) PROVE Escaped(seq) \in Texts
  <2>1. PICK f : Folds(f, Texts, <<>>, Escaping, seq) /\ Escaped(seq) = f[Len(seq)]
    BY EscapedFolds
  <2>2. f \in [0..Len(seq) -> Texts] /\ Len(seq) \in 0..Len(seq) BY <2>1 DEF Folds
  <2> QED BY <2>1, <2>2
<1> QED BY <1>2, <1>3, <1>4

\* Escaping and decoding undo each other, whatever is in the key.
LEMMA DecodesEscaped ==
  ASSUME NEW key \in Seq(Byte)
  PROVE  Decoding(Escaped(key)) = [text |-> key, open |-> FALSE]
<1> DEFINE Closed(t) == [text |-> t, open |-> FALSE]
           Q == {k \in Seq(Byte) : Decoding(Escaped(k)) = Closed(k)}
<1>1. <<>> \in Q
  <2>1. Decoding(Escaped(<<>>)) = Closed(<<>>) BY DecodingLaw, EscapedLaw DEF Clear
  <2> QED BY <2>1
<1>2. ASSUME NEW k \in Seq(Byte), NEW b \in Byte, k \in Q PROVE Append(k, b) \in Q
  <2> DEFINE e == Escaped(k)
  <2>1. e \in Seq(Byte) /\ Escaped(Append(k, b)) = e \o Escape(b) BY EscapedLaw DEF Texts
  <2>2. Decoding(e) = Closed(k) BY <1>2
  <2>3. Append(k, b) \in Seq(Byte) OBVIOUS
  <2> HIDE DEF e
  <2>4. \A c \in Byte : Decoding(Append(e, c)) = Replace(Closed(k), c) BY <2>1, <2>2, DecodingLaw
  <2>5. ASSUME NEW c \in Byte
        PROVE  Replace(Closed(k), c) = [text |-> Append(k, c), open |-> c = Tilde]
    BY DEF Replace
  <2>6. CASE b # Tilde /\ b # Slash
    <3>1. Escape(b) = <<b>> BY <2>6 DEF Escape
    <3>2. Escaped(Append(k, b)) = Append(e, b) BY <2>1, <3>1
    <3>3. Decoding(Append(e, b)) = [text |-> Append(k, b), open |-> b = Tilde] BY <2>4, <2>5
    <3>4. (b = Tilde) = FALSE BY <2>6
    <3>5. Decoding(Append(e, b)) = Closed(Append(k, b)) BY <3>3, <3>4
    <3> QED BY <2>3, <3>2, <3>5
  <2> DEFINE opened == [text |-> Append(k, Tilde), open |-> TRUE]
  <2>7. Decoding(Append(e, Tilde)) = opened BY <2>4, <2>5, Bytes
  <2>8. Append(e, Tilde) \in Seq(Byte) BY <2>1, Bytes
  <2>9. \A c \in Byte : Decoding(Append(Append(e, Tilde), c)) = Replace(opened, c)
    BY <2>7, <2>8, DecodingLaw
  <2>10. CASE b = Tilde
    <3>1. Escape(b) = <<Tilde, Zero>> BY <2>10, Bytes DEF Escape
    <3>2. Escaped(Append(k, b)) = Append(Append(e, Tilde), Zero) BY <2>1, <3>1, Bytes
    <3>3. Replace(opened, Zero) = Closed(Append(k, Tilde)) BY Bytes DEF Replace
    <3> QED BY <2>3, <2>9, <2>10, <3>2, <3>3, Bytes
  <2>11. CASE b = Slash
    <3>1. Escape(b) = <<Tilde, One>> BY <2>11, Bytes DEF Escape
    <3>2. Escaped(Append(k, b)) = Append(Append(e, Tilde), One) BY <2>1, <3>1, Bytes
    <3>3. Replace(opened, One) = Closed(Append(Front(Append(k, Tilde)), Slash)) BY Bytes DEF Replace
    <3>4. Front(Append(k, Tilde)) = k BY Bytes, Appended
    <3> QED BY <2>3, <2>9, <2>11, <3>2, <3>3, <3>4, Bytes
  <2> QED BY <2>6, <2>10, <2>11
<1> HIDE DEF Q
<1>3. Seq(Byte) \subseteq Q BY <1>1, <1>2, SeqInduction
<1> QED BY <1>3 DEF Q

\* A text without "~" stands for itself.
LEMMA DecodesPlain ==
  ASSUME NEW text \in Seq(Byte), \A i \in 1..Len(text) : text[i] # Tilde
  PROVE  Decoding(text) = [text |-> text, open |-> FALSE]
<1> DEFINE Closed(t) == [text |-> t, open |-> FALSE]
           Plain(t) == \A i \in 1..Len(t) : t[i] # Tilde
           Q == {t \in Seq(Byte) : Plain(t) => Decoding(t) = Closed(t)}
<1>1. <<>> \in Q
  <2>1. Decoding(<<>>) = Closed(<<>>) BY DecodingLaw DEF Clear
  <2> QED BY <2>1
<1>2. ASSUME NEW t \in Seq(Byte), NEW b \in Byte, t \in Q PROVE Append(t, b) \in Q
  <2>1. /\ Append(t, b) \in Seq(Byte)
        /\ Len(Append(t, b)) = Len(t) + 1 /\ Len(t) \in Nat
        /\ \A i \in 1..Len(t) : Append(t, b)[i] = t[i]
        /\ Append(t, b)[Len(t) + 1] = b
    BY Appended
  <2> SUFFICES ASSUME Plain(Append(t, b))
               PROVE  Decoding(Append(t, b)) = Closed(Append(t, b))
    BY <2>1
  <2>2. Plain(t) /\ b # Tilde BY <2>1
  <2> HIDE DEF Plain
  <2>3. Decoding(t) = Closed(t) BY <1>2, <2>2
  <2>4. Decoding(Append(t, b)) = Replace(Closed(t), b) BY <2>3, DecodingLaw
  <2>5. Replace(Closed(t), b) = [text |-> Append(t, b), open |-> b = Tilde] BY DEF Replace
  <2>6. (b = Tilde) = FALSE BY <2>2
  <2> QED BY <2>4, <2>5, <2>6
<1> HIDE DEF Q
<1>3. Seq(Byte) \subseteq Q BY <1>1, <1>2, SeqInduction
<1> QED BY <1>3 DEF Q

\* No slash is left in an escaped key.
Unslashed(text) == text \in Seq(Byte) /\ \A i \in 1..Len(text) : text[i] # Slash

\* Nor is there one where two texts without meet.
LEMMA UnslashedJoined ==
  ASSUME NEW s, NEW t, Unslashed(s), Unslashed(t)
  PROVE  Unslashed(s \o t)
<1>1. s \in Seq(Byte) /\ t \in Seq(Byte) BY DEF Unslashed
<1>2. /\ s \o t \in Seq(Byte)
      /\ Len(s \o t) = Len(s) + Len(t) /\ Len(s) \in Nat /\ Len(t) \in Nat
      /\ \A i \in 1..Len(s) + Len(t) :
            (s \o t)[i] = IF i <= Len(s) THEN s[i] ELSE t[i - Len(s)]
  BY <1>1, ConcatProperties
<1>3. ASSUME NEW i \in 1..Len(s \o t) PROVE (s \o t)[i] # Slash
  <2>1. CASE i <= Len(s)
    <3>1. i \in 1..Len(s) /\ (s \o t)[i] = s[i] BY <1>2, <2>1
    <3> QED BY <3>1 DEF Unslashed
  <2>2. CASE ~(i <= Len(s))
    <3>1. i - Len(s) \in 1..Len(t) /\ (s \o t)[i] = t[i - Len(s)] BY <1>2, <2>2
    <3> QED BY <3>1 DEF Unslashed
  <2> QED BY <2>1, <2>2
<1> QED BY <1>2, <1>3 DEF Unslashed

\* Escaping leaves no slash in a key (Escaped).
LEMMA EscapedUnslashed ==
  ASSUME NEW key \in Seq(Byte)
  PROVE  Unslashed(Escaped(key))
<1> DEFINE Q == {k \in Seq(Byte) : Unslashed(Escaped(k))}
<1>1. <<>> \in Q
  <2>1. Escaped(<<>>) = <<>> BY EscapedLaw
  <2>2. Unslashed(<<>>) BY DEF Unslashed
  <2> QED BY <2>1, <2>2
<1>2. ASSUME NEW k \in Seq(Byte), NEW b \in Byte, k \in Q PROVE Append(k, b) \in Q
  <2>1. Escaped(Append(k, b)) = Escaped(k) \o Escape(b) BY EscapedLaw
  <2>2. Unslashed(Escape(b))
    <3>1. Unslashed(<<Tilde, Zero>>) BY Bytes DEF Unslashed
    <3>2. Unslashed(<<Tilde, One>>) BY Bytes DEF Unslashed
    <3>3. b # Slash => Unslashed(<<b>>) BY DEF Unslashed
    <3> QED BY <3>1, <3>2, <3>3, Zenon DEF Escape
  <2>3. Unslashed(Escaped(k)) BY <1>2
  <2>4. Unslashed(Escaped(k) \o Escape(b)) BY <2>2, <2>3, UnslashedJoined
  <2>5. Append(k, b) \in Seq(Byte) OBVIOUS
  <2> QED BY <2>1, <2>4, <2>5
<1> HIDE DEF Q
<1>3. Seq(Byte) \subseteq Q BY <1>1, <1>2, SeqInduction
<1> QED BY <1>3 DEF Q

\* A text without a slash goes to the last segment.
LEMMA SplitJoined ==
  ASSUME NEW t \in Seq(Byte), NEW s, Unslashed(s)
  PROVE  Split(t \o s) = Append(Front(Split(t)), Last(Split(t)) \o s)
<1> DEFINE front == Front(Split(t))
           last == Last(Split(t))
           Q == {u \in Seq(Byte) : Unslashed(u) => Split(t \o u) = Append(front, last \o u)}
<1>1. Split(t) \in Seq(Texts) /\ Split(t) # <<>> BY SplitLaw DEF Segmented
<1>2. front \in Seq(Texts) /\ last \in Texts /\ Split(t) = Append(front, last)
  BY <1>1, Unappended
<1> HIDE DEF front, last
<1>3. <<>> \in Q
  <2>1. t \o <<>> = t BY ConcatEmptySeq
  <2>2. last \o <<>> = last BY <1>2, ConcatEmptySeq DEF Texts
  <2>3. <<>> \in Seq(Byte) OBVIOUS
  <2> QED BY <1>2, <2>1, <2>2, <2>3
<1>4. ASSUME NEW u \in Seq(Byte), NEW b \in Byte, u \in Q PROVE Append(u, b) \in Q
  <2>1. /\ Append(u, b) \in Seq(Byte)
        /\ Len(Append(u, b)) = Len(u) + 1 /\ Len(u) \in Nat
        /\ \A i \in 1..Len(u) : Append(u, b)[i] = u[i]
        /\ Append(u, b)[Len(u) + 1] = b
    BY Appended
  <2> SUFFICES ASSUME Unslashed(Append(u, b))
               PROVE  Split(t \o Append(u, b)) = Append(front, last \o Append(u, b))
    BY <2>1
  <2>2. Unslashed(u) /\ b # Slash BY <2>1 DEF Unslashed
  <2>3. Split(t \o u) = Append(front, last \o u) BY <1>4, <2>2
  <2>4. t \o u \in Seq(Byte) /\ t \o Append(u, b) = Append(t \o u, b) OBVIOUS
  <2>5. last \o u \in Texts /\ last \o Append(u, b) = Append(last \o u, b) BY <1>2 DEF Texts
  <2>6. Split(t \o Append(u, b)) = Cut(Append(front, last \o u), b) BY <2>3, <2>4, SplitLaw
  <2>7. /\ Front(Append(front, last \o u)) = front
        /\ Last(Append(front, last \o u)) = last \o u
    <3> DEFINE more == last \o u
    <3>1. more \in Texts BY <2>5
    <3> HIDE DEF more
    <3>2. Front(Append(front, more)) = front /\ Last(Append(front, more)) = more
      BY <1>2, <3>1, Appended
    <3> QED BY <3>2 DEF more
  <2>8. Cut(Append(front, last \o u), b) = Append(front, Append(last \o u, b))
    BY <2>2, <2>7 DEF Cut
  <2> QED BY <2>5, <2>6, <2>8
<1> HIDE DEF Q
<1>5. Seq(Byte) \subseteq Q BY <1>3, <1>4, SeqInduction
<1>6. s \in Q BY <1>5 DEF Unslashed
<1> QED BY <1>6 DEF Q, front, last

\* A text without a slash is one segment.
LEMMA SplitWhole ==
  ASSUME NEW s, Unslashed(s)
  PROVE  Split(s) = <<s>>
<1>1. s \in Seq(Byte) /\ <<>> \in Seq(Byte) BY DEF Unslashed
<1>2. Split(<<>> \o s) = Append(Front(Whole), Last(Whole) \o s) BY <1>1, SplitJoined, SplitLaw
<1>3. Front(Whole) = <<>> /\ Last(Whole) = <<>>
  <2>1. Len(Whole) = 1 /\ Whole[1] = <<>> BY DEF Whole
  <2>2. Last(Whole) = <<>> BY <2>1 DEF Last
  <2>3. Front(Whole) = SubSeq(Whole, 1, 0) BY <2>1 DEF Front
  <2>4. SubSeq(Whole, 1, 0) = <<>> BY SubSeqEmpty
  <2> QED BY <2>2, <2>3, <2>4
<1>4. <<>> \o s = s BY <1>1
<1>5. Append(<<>>, s) = <<s>> OBVIOUS
<1> QED BY <1>2, <1>3, <1>4, <1>5

\* A slash and a text without one are one segment more.
LEMMA SplitOneMore ==
  ASSUME NEW t \in Seq(Byte), NEW s, Unslashed(s)
  PROVE  Split(t \o <<Slash>> \o s) = Append(Split(t), s)
<1>1. s \in Seq(Byte) BY DEF Unslashed
<1>2. t \o <<Slash>> = Append(t, Slash) /\ Append(t, Slash) \in Seq(Byte) BY Bytes
<1>3. Split(Append(t, Slash)) = Append(Split(t), <<>>) BY Bytes, SplitLaw DEF Cut
<1>4. Split(t) \in Seq(Texts) /\ <<>> \in Texts BY SplitLaw DEF Segmented, Texts
<1>5. Front(Append(Split(t), <<>>)) = Split(t) /\ Last(Append(Split(t), <<>>)) = <<>>
  BY <1>4, Appended
<1>6. Split(Append(t, Slash) \o s) = Append(Split(t), <<>> \o s) BY <1>2, <1>3, <1>5, SplitJoined
<1>7. <<>> \o s = s BY <1>1
<1> QED BY <1>2, <1>6, <1>7

\* The numeral of an index is a text of digits with that value.
Digital(text) == text \in Seq(Byte) /\ text # <<>> /\ \A i \in 1..Len(text) : text[i] \in Digits

\* The recursion of Numeral goes over a number, which is divided.
LEMMA NumeralDef ==
  ASSUME NEW index \in Nat
  PROVE  \E f : /\ \A n \in 0..index : f[n] = IF n < 10 THEN <<Zero + n>>
                                             ELSE Append(f[n \div 10], Zero + (n % 10))
                /\ Numeral(index) = f[index]
<1> DEFINE Solves(f, m) == f = [n \in 0..m |-> IF n < 10 THEN <<Zero + n>>
                                               ELSE Append(f[n \div 10], Zero + (n % 10))]
           Exists(m) == \E f : Solves(f, m)
           S == {m \in Nat : Exists(m)}
<1> HIDE DEF Exists
<1>1. 0 \in S
  <2> DEFINE f == [n \in 0..0 |-> <<Zero + n>>]
  <2>1. Solves(f, 0) OBVIOUS
  <2> HIDE DEF Solves
  <2> QED BY <2>1 DEF Exists
<1>2. ASSUME NEW m \in Nat, m \in S PROVE m + 1 \in S
  <2>0. Exists(m) BY <1>2
  <2>1. PICK f : Solves(f, m) BY ONLY <2>0 DEF Exists
  <2> DEFINE g == [n \in 0..(m + 1) |->
                     IF n # m + 1 THEN f[n]
                     ELSE IF n < 10 THEN <<Zero + n>>
                     ELSE Append(f[n \div 10], Zero + (n % 10))]
  <2>2. ASSUME NEW n \in 0..(m + 1)
        PROVE  g[n] = IF n < 10 THEN <<Zero + n>> ELSE Append(g[n \div 10], Zero + (n % 10))
    <3>1. n >= 10 => n \div 10 \in 0..m /\ n \div 10 # m + 1 /\ n \div 10 \in 0..(m + 1) OBVIOUS
    <3>2. n >= 10 => g[n \div 10] = f[n \div 10] BY <3>1
    <3>3. CASE n = m + 1 BY <3>2, <3>3
    <3>4. CASE n \in 0..m
      <4>1. g[n] = f[n] BY <3>4
      <4>2. f[n] = IF n < 10 THEN <<Zero + n>> ELSE Append(f[n \div 10], Zero + (n % 10))
        BY <2>1, <3>4
      <4> QED BY <3>2, <4>1, <4>2
    <3> QED BY <3>3, <3>4
  <2>3. g = [n \in 0..(m + 1) |-> g[n]] OBVIOUS
  <2> HIDE DEF g
  <2>4. Solves(g, m + 1) BY <2>2, <2>3
  <2> HIDE DEF Solves
  <2>5. Exists(m + 1) BY <2>4 DEF Exists
  <2> QED BY <2>5
<1> HIDE DEF S
<1>3. Nat \subseteq S BY <1>1, <1>2, Induction
<1>4. Exists(index) BY <1>3 DEF S
<1> DEFINE chosen == CHOOSE f : Solves(f, index)
<1>5. Solves(chosen, index) BY ONLY <1>4 DEF Exists
<1>6. Numeral(index) = chosen[index] BY DEF Numeral
<1> HIDE DEF chosen
<1>7. \A n \in 0..index : chosen[n] = IF n < 10 THEN <<Zero + n>>
                                     ELSE Append(chosen[n \div 10], Zero + (n % 10))
  BY <1>5
<1> QED BY <1>6, <1>7

\* A numeral is read as the number it was written for (strconv.Atoi).
LEMMA NumeralValue ==
  ASSUME NEW index \in Nat
  PROVE  Digital(Numeral(index)) /\ Value(Numeral(index)) = index
<1>1. PICK f : /\ \A n \in 0..index : f[n] = IF n < 10 THEN <<Zero + n>>
                                            ELSE Append(f[n \div 10], Zero + (n % 10))
               /\ Numeral(index) = f[index]
  BY NumeralDef
<1> DEFINE Right(n) == Digital(f[n]) /\ Value(f[n]) = n
           S == {m \in Nat : \A n \in 0..m : n <= index => Right(n)}
<1>2. \A d \in 0..9 : Zero + d \in Digits /\ Zero + d \in Byte BY DEF Zero, Digits, Byte
<1>3. ASSUME NEW n \in 0..index, n < 10 PROVE Right(n)
  <2>1. f[n] = <<Zero + n>> BY <1>1, <1>3
  <2>2. n \in 0..9 BY <1>3
  <2>3. Digital(<<Zero + n>>) BY <1>2, <2>2 DEF Digital
  <2>4. <<>> \in Seq(Byte) /\ Append(<<>>, Zero + n) = <<Zero + n>> OBVIOUS
  <2>5. Value(<<Zero + n>>) = 10 * 0 + ((Zero + n) - Zero) BY <1>2, <2>2, <2>4, ValueLaw
  <2>6. 10 * 0 + ((Zero + n) - Zero) = n BY DEF Zero
  <2> QED BY <2>1, <2>3, <2>5, <2>6
<1>4. ASSUME NEW n \in 0..index, n >= 10, Right(n \div 10) PROVE Right(n)
  <2> DEFINE tens == f[n \div 10]
             digit == Zero + (n % 10)
  <2>0. ~(n < 10) /\ f[n] = IF n < 10 THEN <<Zero + n>>
                             ELSE Append(f[n \div 10], Zero + (n % 10))
    BY <1>1, <1>4
  <2>1. f[n] = Append(tens, digit) BY <2>0, Zenon
  <2>2. n % 10 \in 0..9 /\ n = 10 * (n \div 10) + (n % 10) /\ n \div 10 \in Nat OBVIOUS
  <2>3. digit \in Digits /\ digit \in Byte BY <1>2, <2>2
  <2>4. digit - Zero = n % 10 BY <2>2 DEF Zero
  <2>5. Digital(tens) /\ Value(tens) = n \div 10 BY <1>4
  <2> HIDE DEF tens, digit
  <2>6. /\ Append(tens, digit) \in Seq(Byte) /\ Append(tens, digit) # <<>>
        /\ Len(Append(tens, digit)) = Len(tens) + 1 /\ Len(tens) \in Nat
        /\ \A i \in 1..Len(tens) : Append(tens, digit)[i] = tens[i]
        /\ Append(tens, digit)[Len(tens) + 1] = digit
    BY <2>3, <2>5, Appended DEF Digital
  <2>7. Digital(Append(tens, digit)) BY <2>3, <2>5, <2>6 DEF Digital
  <2>8. Value(Append(tens, digit)) = 10 * Value(tens) + (digit - Zero)
    BY <2>3, <2>5, ValueLaw DEF Digital
  <2>9. Value(Append(tens, digit)) = n BY <2>2, <2>4, <2>5, <2>8
  <2> QED BY <2>1, <2>7, <2>9
<1> HIDE DEF Right
<1>5. 0 \in S
  <2>1. 0 <= index => Right(0) BY <1>3
  <2> QED BY <2>1
<1>6. ASSUME NEW m \in Nat, m \in S PROVE m + 1 \in S
  <2> SUFFICES ASSUME NEW n \in 0..(m + 1), n <= index PROVE Right(n) OBVIOUS
  <2>1. CASE n \in 0..m BY <1>6, <2>1
  <2>2. CASE n < 10 BY <1>3, <2>2
  <2>3. CASE n >= 10
    <3>1. n \div 10 \in 0..m /\ n \div 10 <= index BY <2>3
    <3> QED BY <1>4, <1>6, <2>3, <3>1
  <2> QED BY <2>2, <2>3
<1> HIDE DEF S
<1>7. Nat \subseteq S BY <1>5, <1>6, Induction
<1>8. Right(index) BY <1>7 DEF S
<1> QED BY <1>1, <1>8 DEF Right

\* A text of digits is taken for its value, and is no sign (Index).
LEMMA DigitsAreValued ==
  ASSUME NEW text, Digital(text)
  PROVE  /\ Index(text) = Value(text)
         /\ Decoded(text) = text
         /\ Unslashed(text)
<1>1. /\ text \in Seq(Byte) /\ text # <<>> /\ Len(text) >= 1
      /\ \A i \in 1..Len(text) : text[i] \in Digits
  BY DEF Digital
<1>2. Plus \notin Digits /\ Minus \notin Digits /\ Tilde \notin Digits /\ Slash \notin Digits
  BY DEF Plus, Minus, Tilde, Slash, Digits, Zero
<1>3. Head(text) \in Digits BY <1>1
<1>4. ToSet(text) \ Digits = {} BY <1>1 DEF ToSet
<1>5. Head(text) # Plus /\ Head(text) # Minus BY <1>2, <1>3
<1>6. Index(text) = Value(text) BY <1>1, <1>4, <1>5 DEF Index
<1>7. \A i \in 1..Len(text) : text[i] # Tilde /\ text[i] # Slash BY <1>1, <1>2
<1>8. Decoding(text) = [text |-> text, open |-> FALSE] BY <1>1, <1>7, DecodesPlain
<1>9. Decoded(text) = text BY <1>8 DEF Decoded
<1> QED BY <1>1, <1>6, <1>7, <1>9 DEF Unslashed

\* So does Pointer, segment by segment.
Pointing == [s \in Texts |-> [b \in Texts |-> s \o <<Slash>> \o b]]

\* Pointer is what the fold over the whole sequence comes to.
LEMMA PointerFolds ==
  ASSUME NEW seq \in Seq(Texts)
  PROVE  \E at : Folds(at, Texts, <<>>, Pointing, seq) /\ Pointer(seq) = at[Len(seq)]
<1> DEFINE Solves(at) ==
              at = [n \in 0..Len(seq) |-> IF n = 0 THEN <<>> ELSE at[n - 1] \o <<Slash>> \o seq[n]]
           chosen == CHOOSE at : Solves(at)
<1>1. Pointing \in [Texts -> [Texts -> Texts]] BY Bytes DEF Pointing, Texts
<1>2. <<>> \in Texts BY DEF Texts
<1>3. PICK at : Folds(at, Texts, <<>>, Pointing, seq) BY <1>1, <1>2, Folding
<1>4. /\ at \in [0..Len(seq) -> Texts] /\ at[0] = <<>>
      /\ \A n \in 1..Len(seq) : at[n] = Pointing[at[n - 1]][seq[n]]
  BY <1>3 DEF Folds
<1>5. ASSUME NEW n \in 1..Len(seq) PROVE at[n] = at[n - 1] \o <<Slash>> \o seq[n]
  <2>1. at[n - 1] \in Texts /\ seq[n] \in Texts BY <1>4
  <2>2. \A s \in Texts : \A b \in Texts : Pointing[s][b] = s \o <<Slash>> \o b BY DEF Pointing
  <2> QED BY <1>4, <2>1, <2>2
<1>6. Solves(at)
  <2>1. at = [n \in 0..Len(seq) |-> at[n]] BY <1>4
  <2>2. ASSUME NEW n \in 0..Len(seq)
        PROVE  at[n] = IF n = 0 THEN <<>> ELSE at[n - 1] \o <<Slash>> \o seq[n]
    <3>1. n # 0 => n \in 1..Len(seq) OBVIOUS
    <3> QED BY <1>4, <1>5, <3>1, Zenon
  <2> QED BY <2>1, <2>2
<1>7. Solves(chosen) BY <1>6
<1>8. Pointer(seq) = chosen[Len(seq)] BY DEF Pointer
<1> HIDE DEF chosen
<1>9. /\ chosen[0] = <<>>
      /\ \A n \in 1..Len(seq) : chosen[n] = chosen[n - 1] \o <<Slash>> \o seq[n]
  BY <1>7
<1>10. \A n \in 1..Len(seq) : at[n - 1] = chosen[n - 1] => at[n] = chosen[n] BY <1>5, <1>9
<1>11. Len(seq) \in 0..Len(seq) /\ Len(seq) \in Nat OBVIOUS
<1>12. Parallel(at, chosen, Len(seq)) BY <1>4, <1>9, <1>10 DEF Parallel
<1>13. at[Len(seq)] = chosen[Len(seq)] BY <1>11, <1>12, Alike
<1> QED BY <1>3, <1>8, <1>13

\* Pointer of nothing, and of one element more.
LEMMA PointerLaw ==
  /\ Pointer(<<>>) = <<>>
  /\ \A seq \in Seq(Texts) : Pointer(seq) \in Texts
  /\ \A seq \in Seq(Texts), b \in Texts : Pointer(Append(seq, b)) = Pointer(seq) \o <<Slash>> \o b
<1>1. <<>> \in Seq(Texts) /\ Len(<<>>) = 0 OBVIOUS
<1>2. Pointer(<<>>) = <<>> BY <1>1, PointerFolds DEF Folds
<1>3. ASSUME NEW seq \in Seq(Texts), NEW b \in Texts
      PROVE  Pointer(seq) \in Texts /\ Pointer(Append(seq, b)) = Pointer(seq) \o <<Slash>> \o b
  <2>1. Append(seq, b) \in Seq(Texts) OBVIOUS
  <2>2. PICK f : Folds(f, Texts, <<>>, Pointing, seq) /\ Pointer(seq) = f[Len(seq)]
    BY PointerFolds
  <2>3. PICK g : /\ Folds(g, Texts, <<>>, Pointing, Append(seq, b))
                 /\ Pointer(Append(seq, b)) = g[Len(Append(seq, b))]
    BY <2>1, PointerFolds
  <2>4. /\ f[Len(seq)] \in Texts
        /\ g[Len(Append(seq, b))] = Pointing[f[Len(seq)]][b]
    BY <2>2, <2>3, FoldsOn
  <2>5. \A s \in Texts : Pointing[s][b] = s \o <<Slash>> \o b BY DEF Pointing
  <2> QED BY <2>2, <2>3, <2>4, <2>5
<1>4. ASSUME NEW seq \in Seq(Texts) PROVE Pointer(seq) \in Texts
  <2>1. PICK f : Folds(f, Texts, <<>>, Pointing, seq) /\ Pointer(seq) = f[Len(seq)]
    BY PointerFolds
  <2>2. f \in [0..Len(seq) -> Texts] /\ Len(seq) \in 0..Len(seq) BY <2>1 DEF Folds
  <2> QED BY <2>1, <2>2
<1> QED BY <1>2, <1>3, <1>4

\* A pointer of unslashed segments is split into them.
LEMMA PointerSplit ==
  ASSUME NEW segments \in Seq(Texts), segments # <<>>,
         \A i \in 1..Len(segments) : Unslashed(segments[i])
  PROVE  /\ Pointer(segments) # <<>> /\ Head(Pointer(segments)) = Slash
         /\ Split(Tail(Pointer(segments))) = segments
<1> DEFINE Plain(ss) == \A i \in 1..Len(ss) : Unslashed(ss[i])
           Right(ss) == \E rest \in Texts : Pointer(ss) = <<Slash>> \o rest /\ Split(rest) = ss
           Q == {ss \in Seq(Texts) : Plain(ss) /\ ss # <<>> => Right(ss)}
<1>1. <<>> \in Q OBVIOUS
<1>2. ASSUME NEW ss \in Seq(Texts), NEW s \in Texts, ss \in Q PROVE Append(ss, s) \in Q
  <2>1. /\ Append(ss, s) \in Seq(Texts)
        /\ Len(Append(ss, s)) = Len(ss) + 1 /\ Len(ss) \in Nat
        /\ \A i \in 1..Len(ss) : Append(ss, s)[i] = ss[i]
        /\ Append(ss, s)[Len(ss) + 1] = s
    BY Appended
  <2> SUFFICES ASSUME Plain(Append(ss, s)) PROVE Right(Append(ss, s)) BY <2>1
  <2>2. Plain(ss) /\ Unslashed(s) BY <2>1
  <2> HIDE DEF Plain
  <2>3. Pointer(Append(ss, s)) = Pointer(ss) \o <<Slash>> \o s BY PointerLaw
  <2>4. CASE ss = <<>>
    <3>1. <<>> \o <<Slash>> \o s = <<Slash>> \o s
      <4>1. <<Slash>> \in Seq(Byte) BY Bytes
      <4> QED BY <4>1
    <3>2. Pointer(ss) = <<>> BY <2>4, PointerLaw
    <3>3. Split(s) = <<s>> BY <2>2, SplitWhole
    <3>4. Append(ss, s) = <<s>> BY <2>4
    <3> QED BY <2>3, <3>1, <3>2, <3>3, <3>4
  <2>5. CASE ss # <<>>
    <3>1. PICK rest \in Texts : Pointer(ss) = <<Slash>> \o rest /\ Split(rest) = ss
      BY <1>2, <2>2, <2>5
    <3>2. <<Slash>> \in Seq(Byte) /\ rest \in Seq(Byte) /\ s \in Seq(Byte) BY Bytes DEF Texts
    <3>3. /\ (<<Slash>> \o rest) \o <<Slash>> \o s = <<Slash>> \o (rest \o <<Slash>> \o s)
          /\ rest \o <<Slash>> \o s \in Seq(Byte)
      BY <3>2
    <3>4. Split(rest \o <<Slash>> \o s) = Append(ss, s) BY <2>2, <3>1, <3>2, SplitOneMore
    <3>5. rest \o <<Slash>> \o s \in Texts BY <3>3 DEF Texts
    <3>6. Pointer(Append(ss, s)) = <<Slash>> \o (rest \o <<Slash>> \o s) BY <2>3, <3>1, <3>3
    <3> QED BY <3>4, <3>5, <3>6
  <2> QED BY <2>4, <2>5
<1> HIDE DEF Q
<1>3. Seq(Texts) \subseteq Q BY <1>1, <1>2, SeqInduction
<1>4. PICK rest \in Texts : Pointer(segments) = <<Slash>> \o rest /\ Split(rest) = segments
  BY <1>3 DEF Q
<1>5. rest \in Seq(Byte) /\ Slash \in Byte BY Bytes DEF Texts
<1>6. /\ <<Slash>> \o rest # <<>> /\ Head(<<Slash>> \o rest) = Slash
      /\ Tail(<<Slash>> \o rest) = rest
  <2> DEFINE p == <<Slash>> \o rest
  <2>0. <<Slash>> \in Seq(Byte) /\ Len(<<Slash>>) = 1 /\ <<Slash>>[1] = Slash BY <1>5
  <2>1. /\ p \in Seq(Byte) /\ Len(p) = Len(<<Slash>>) + Len(rest) /\ Len(rest) \in Nat
        /\ \A i \in 1..Len(<<Slash>>) + Len(rest) :
              p[i] = IF i <= Len(<<Slash>>) THEN <<Slash>>[i] ELSE rest[i - Len(<<Slash>>)]
    BY <1>5, <2>0, ConcatProperties
  <2>2. /\ Len(p) = 1 + Len(rest) /\ p[1] = Slash
        /\ \A i \in 1..Len(rest) : p[i + 1] = rest[i]
    <3>1. Len(p) = 1 + Len(rest) /\ 1 \in 1..Len(<<Slash>>) + Len(rest) BY <2>0, <2>1
    <3>2. p[1] = Slash BY <2>0, <2>1, <3>1
    <3>3. ASSUME NEW i \in 1..Len(rest) PROVE p[i + 1] = rest[i]
      <4>1. i + 1 \in 1..Len(<<Slash>>) + Len(rest) /\ ~(i + 1 <= Len(<<Slash>>))
            /\ (i + 1) - Len(<<Slash>>) = i
        BY <2>0, <2>1
      <4> QED BY <2>1, <4>1
    <3> QED BY <3>1, <3>2, <3>3
  <2> HIDE DEF p
  <2>3. p # <<>> BY <2>1, <2>2
  <2>4. /\ Tail(p) \in Seq(Byte) /\ Len(Tail(p)) = Len(p) - 1
        /\ \A i \in 1..Len(Tail(p)) : Tail(p)[i] = p[i + 1]
    BY <2>1, <2>3, HeadTailProperties
  <2>5. Tail(p) = rest BY <1>5, <2>1, <2>2, <2>4, SeqEqual
  <2>6. Head(p) = Slash BY <2>1, <2>2, <2>3
  <2> QED BY <2>3, <2>5, <2>6 DEF p
<1> QED BY <1>4, <1>6

\* One segment of a pointer leads to the child it stands for.
LEMMA StepFinds ==
  ASSUME NEW value, IsJson(value), NEW segment, NEW child,
         <<segment, child>> \in Children(value)
  PROVE  /\ segment \in Texts /\ Unslashed(segment)
         /\ PointerStep(value, Decoded(segment)) = child
<1>1. CASE value.kind = "map"
  <2>1. Children(value) = {<<Escaped(k), value.child[k]>> : k \in DOMAIN value.child}
    BY <1>1, Zenon DEF Children
  <2>2. PICK k \in DOMAIN value.child : segment = Escaped(k) /\ child = value.child[k] BY <2>1
  <2>3. k \in Seq(Byte) BY <1>1, <2>2 DEF IsJson
  <2>4. Decoded(segment) = k BY <2>2, <2>3, DecodesEscaped DEF Decoded
  <2>5. segment \in Texts /\ Unslashed(segment)
    BY <2>2, <2>3, EscapedLaw, EscapedUnslashed DEF Texts
  <2>6. PointerStep(value, k) = value.child[k] BY <1>1, <2>2 DEF PointerStep
  <2> QED BY <2>2, <2>4, <2>5, <2>6
<1>2. CASE value.kind = "array"
  <2>1. Children(value) = {<<Numeral(i - 1), value.child[i]>> : i \in DOMAIN value.child}
    BY <1>2 DEF Children
  <2>2. PICK i \in DOMAIN value.child : segment = Numeral(i - 1) /\ child = value.child[i] BY <2>1
  <2> DEFINE Elements == ToSet(value.child)
  <2>3. value.child \in Seq(Elements) BY <1>2 DEF IsJson
  <2> HIDE DEF Elements
  <2>4. i \in 1..Len(value.child) /\ Len(value.child) \in Nat /\ i - 1 \in Nat BY <2>3
  <2>5. Digital(segment) /\ Value(segment) = i - 1 BY <2>2, <2>4, NumeralValue
  <2>6. Index(segment) = i - 1 /\ Decoded(segment) = segment /\ Unslashed(segment)
    BY <2>5, DigitsAreValued
  <2>7. i - 1 \in 0..(Len(value.child) - 1) /\ (i - 1) + 1 = i BY <2>4
  <2>8. PointerStep(value, segment) = value.child[Index(segment) + 1]
    BY <1>2, <2>6, <2>7 DEF PointerStep
  <2>9. segment \in Texts BY <2>5 DEF Digital, Texts
  <2> QED BY <2>2, <2>6, <2>7, <2>8, <2>9
<1>3. CASE value.kind # "map" /\ value.kind # "array"
  <2>1. Children(value) = {} BY <1>3, Zenon DEF Children
  <2> QED BY <2>1
<1> QED BY <1>1, <1>2, <1>3

\* However deep a value lies in a payload, whatever the keys on the way contain and however
\* long the arrays are: the pointer of its way leads ExtractPromptText to it.
THEOREM PointersFind ==
  ASSUME NEW segments \in Seq(Texts), segments # <<>>, NEW values,
         \A i \in 1..Len(segments) :
            /\ IsJson(values[i - 1])
            /\ <<segments[i], values[i]>> \in Children(values[i - 1])
  PROVE  Found(values[0], segments, values[Len(segments)])
<1> DEFINE pointer == Pointer(segments)
           m == Len(segments)
           Solves(at) == at = [n \in 0..m |-> IF n = 0 THEN values[0]
                                   ELSE PointerStep(at[n - 1], Decoded(segments[n]))]
           chosen == CHOOSE at : Solves(at)
<1>1. m \in Nat /\ m # 0 OBVIOUS
<1>2. ASSUME NEW n \in 1..m
      PROVE  PointerStep(values[n - 1], Decoded(segments[n])) = values[n] /\ Unslashed(segments[n])
  <2>1. IsJson(values[n - 1]) /\ <<segments[n], values[n]>> \in Children(values[n - 1]) OBVIOUS
  <2> QED BY <2>1, StepFinds
<1>3. /\ pointer # <<>> /\ Head(pointer) = Slash
      /\ Split(Tail(pointer)) = segments
  BY <1>2, PointerSplit
<1>4. ValueAtPointer(values[0], pointer) = chosen[m]
  <2> HIDE DEF pointer
  <2> QED BY <1>3 DEF ValueAtPointer
<1> DEFINE way == [n \in 0..m |-> values[n]]
<1>5. Solves(way)
  <2>1. ASSUME NEW n \in 0..m
        PROVE  values[n] = IF n = 0 THEN values[0]
                           ELSE PointerStep(way[n - 1], Decoded(segments[n]))
    <3>1. n # 0 => n \in 1..m /\ way[n - 1] = values[n - 1] BY <1>1
    <3> QED BY <1>2, <3>1
  <2> QED BY <2>1
<1> HIDE DEF m
<1>6. Solves(chosen) BY <1>5
<1> HIDE DEF chosen
<1>7. /\ chosen[0] = values[0]
      /\ \A n \in 1..m : chosen[n] = PointerStep(chosen[n - 1], Decoded(segments[n]))
  BY <1>1, <1>6
<1>8. Parallel(chosen, values, m) BY <1>2, <1>7 DEF Parallel
<1>9. chosen[m] = values[m]
  <2>1. m \in 0..m BY <1>1
  <2> QED BY <1>1, <1>8, <2>1, Alike
<1> QED BY <1>4, <1>9 DEF Found, ExtractPromptText, m, pointer

\* So it is with every payload of two levels.
THEOREM PayloadsAreReached ==
  ASSUME NEW payload, IsJson(payload), \A c \in Children(payload) : IsJson(c[2])
  PROVE  Reaches(payload)
<1> SUFFICES ASSUME NEW c \in Children(payload)
             PROVE  /\ Found(payload, <<c[1]>>, c[2])
                    /\ \A d \in Children(c[2]) : Found(payload, <<c[1], d[1]>>, d[2])
  BY DEF Reaches
<1>1. \A v : \A e \in Children(v) : e = <<e[1], e[2]>> BY DEF Children
<1>2. c[1] \in Texts BY <1>1, StepFinds
<1>3. Found(payload, <<c[1]>>, c[2])
  <2> DEFINE segments == <<c[1]>>
             values == [n \in 0..1 |-> IF n = 0 THEN payload ELSE c[2]]
  <2>1. segments \in Seq(Texts) /\ segments # <<>> /\ Len(segments) = 1 /\ segments[1] = c[1]
    BY <1>2
  <2>2. values[0] = payload /\ values[1] = c[2] OBVIOUS
  <2>3. <<c[1], c[2]>> \in Children(payload) BY <1>1
  <2> HIDE DEF values
  <2>4. \A i \in 1..Len(segments) :
           /\ IsJson(values[i - 1])
           /\ <<segments[i], values[i]>> \in Children(values[i - 1])
    BY <2>1, <2>2, <2>3
  <2>5. Found(values[0], segments, values[Len(segments)])
    <3> HIDE DEF segments
    <3> QED BY <2>1, <2>4, PointersFind
  <2> QED BY <2>1, <2>2, <2>5
<1>4. ASSUME NEW d \in Children(c[2]) PROVE Found(payload, <<c[1], d[1]>>, d[2])
  <2> DEFINE segments == <<c[1], d[1]>>
             values == [n \in 0..2 |-> IF n = 0 THEN payload ELSE IF n = 1 THEN c[2] ELSE d[2]]
  <2>0. d[1] \in Texts BY <1>1, StepFinds
  <2>1. /\ segments \in Seq(Texts) /\ segments # <<>> /\ Len(segments) = 2
        /\ segments[1] = c[1] /\ segments[2] = d[1]
    BY <1>2, <2>0
  <2>2. values[0] = payload /\ values[1] = c[2] /\ values[2] = d[2] OBVIOUS
  <2>3. <<c[1], c[2]>> \in Children(payload) /\ <<d[1], d[2]>> \in Children(c[2]) BY <1>1
  <2> HIDE DEF values
  <2>4. \A i \in 1..Len(segments) :
           /\ IsJson(values[i - 1])
           /\ <<segments[i], values[i]>> \in Children(values[i - 1])
    <3>1. \A i \in 1..2 : i = 1 \/ i = 2 OBVIOUS
    <3> QED BY <2>1, <2>2, <2>3, <3>1
  <2>5. Found(values[0], segments, values[Len(segments)])
    <3> HIDE DEF segments
    <3> QED BY <2>1, <2>4, PointersFind
  <2> QED BY <2>1, <2>2, <2>5
<1> QED BY <1>3, <1>4

-----------------------------------------------------------------------------
(* The digest of the schema files: an order lists the files and their      *)
(* members, NUL ends each part of what is fed, and no part has one.        *)

\* In an order of its elements, every element of a finite set has its place: that which has
\* as many up to it.
Ordered(S, R) ==
    /\ \A x \in S : <<x, x>> \notin R
    /\ \A x, y \in S : x # y => <<x, y>> \in R \/ <<y, x>> \in R
    /\ \A x, y, z \in S : <<x, y>> \in R /\ <<y, z>> \in R => <<x, z>> \in R

Lined(s, S, R) ==
    /\ s \in [1..Cardinality(S) -> S]
    /\ \A i, j \in 1..Cardinality(S) : i < j => <<s[i], s[j]>> \in R

\* In every such order a finite set can be listed.
LEMMA OrderExists ==
  ASSUME NEW S, IsFiniteSet(S), NEW R, Ordered(S, R)
  PROVE  \E s : Lined(s, S, R)
<1> DEFINE n == Cardinality(S)
           upto(x) == {y \in S : y = x \/ <<y, x>> \in R}
           rank == [x \in S |-> Cardinality(upto(x))]
<1>1. n \in Nat BY FS_CardinalityType
<1>2. \A x \in S : IsFiniteSet(upto(x)) /\ Cardinality(upto(x)) \in Nat
  BY FS_Subset, FS_CardinalityType
<1>3. ASSUME NEW x \in S, NEW y \in S, <<x, y>> \in R
      PROVE  Cardinality(upto(x)) < Cardinality(upto(y))
  <2>1. upto(x) \subseteq upto(y) BY <1>3 DEF Ordered
  <2>2. y \in upto(y) OBVIOUS
  <2>3. y \notin upto(x)
    <3>1. y # x BY <1>3 DEF Ordered
    <3>2. <<y, x>> \notin R BY <1>3 DEF Ordered
    <3> QED BY <3>1, <3>2
  <2> HIDE DEF upto
  <2>4. upto(x) # upto(y) BY <2>2, <2>3
  <2> QED BY <1>2, <2>1, <2>4, FS_Subset
<1>4. \A x \in S : Cardinality(upto(x)) \in 1..n
  <2> SUFFICES ASSUME NEW x \in S PROVE Cardinality(upto(x)) \in 1..n OBVIOUS
  <2>1. upto(x) \subseteq S /\ x \in upto(x) OBVIOUS
  <2> HIDE DEF upto
  <2>2. Cardinality(upto(x)) <= n BY <2>1, FS_Subset
  <2>3. Cardinality(upto(x)) # 0 BY <1>2, <2>1, FS_EmptySet
  <2> QED BY <1>1, <1>2, <2>2, <2>3
<1> HIDE DEF upto
<1>5. rank \in [S -> 1..n] BY <1>4
<1>6. ASSUME NEW x \in S, NEW y \in S, x # y PROVE rank[x] # rank[y]
  <2>1. <<x, y>> \in R \/ <<y, x>> \in R BY <1>6 DEF Ordered
  <2>2. rank[x] < rank[y] \/ rank[y] < rank[x] BY <1>3, <2>1
  <2>3. rank[x] \in Int /\ rank[y] \in Int BY <1>5
  <2> QED BY <2>2, <2>3
<1>7. \A x, y \in S : <<x, y>> \in R => rank[x] < rank[y] BY <1>3
<1> HIDE DEF rank
<1>8. rank \in Injection(S, 1..n) BY <1>5, <1>6 DEF Injection, IsInjective
<1>9. IsFiniteSet(1..n) /\ Cardinality(1..n) = n BY <1>1, FS_Interval
<1>10. rank \in Surjection(S, 1..n) BY <1>8, <1>9, FS_Injection DEF n
<1> DEFINE s == [i \in 1..n |-> CHOOSE x \in S : rank[x] = i]
<1>11. \A i \in 1..n : \E x \in S : rank[x] = i BY <1>10 DEF Surjection
<1>12. \A i \in 1..n : s[i] \in S /\ rank[s[i]] = i BY <1>11
<1>13. s \in [1..n -> S] BY <1>12
<1> HIDE DEF s
<1>14. ASSUME NEW i \in 1..n, NEW j \in 1..n, i < j PROVE <<s[i], s[j]>> \in R
  <2>1. s[i] # s[j] BY <1>12, <1>14
  <2>2. ~(rank[s[j]] < rank[s[i]]) BY <1>12, <1>14
  <2>3. <<s[j], s[i]>> \notin R BY <1>7, <1>12, <2>2
  <2> QED BY <1>12, <2>1, <2>3 DEF Ordered
<1> QED BY <1>13, <1>14 DEF n, Lined

\* An enumeration in order leaves nothing out.
LEMMA AllInOrder ==
  ASSUME NEW S, IsFiniteSet(S), NEW R, Ordered(S, R), NEW s, Lined(s, S, R)
  PROVE  /\ s \in Seq(S) /\ Len(s) = Cardinality(S)
         /\ \A x \in S : \E i \in 1..Len(s) : s[i] = x
<1> DEFINE n == Cardinality(S)
<1>0. s \in [1..n -> S] /\ \A i, j \in 1..n : i < j => <<s[i], s[j]>> \in R BY DEF Lined
<1>1. n \in Nat BY FS_CardinalityType
<1>2. IsFiniteSet(1..n) /\ Cardinality(1..n) = n BY <1>1, FS_Interval
<1>3. ASSUME NEW i \in 1..n, NEW j \in 1..n, i < j PROVE s[i] # s[j]
  BY <1>0, <1>3 DEF Ordered
<1>4. ASSUME NEW i \in 1..n, NEW j \in 1..n, s[i] = s[j] PROVE i = j
  <2>1. ~(i < j) /\ ~(j < i) BY <1>3, <1>4
  <2> QED BY <2>1
<1>5. s \in Injection(1..n, S) BY <1>0, <1>4 DEF Injection, IsInjective
<1>6. s \in Surjection(1..n, S) BY <1>2, <1>5, FS_Injection
<1>7. s \in Seq(S) /\ Len(s) = n BY <1>0, <1>1
<1> QED BY <1>6, <1>7 DEF Surjection

\* Keys are in the order of numbers.
LEMMA KeysOrdered ==
  ASSUME NEW S, S \subseteq Char \X Char, \A m, k \in S : m # k => m[1] # k[1]
  PROVE  \E R : /\ Ordered(S, R)
                /\ \A m, k \in S : <<m, k>> \in R <=> KeyBefore(m, k)
<1> DEFINE R == {p \in S \X S : p[1][1] < p[2][1]}
<1>1. \A m, k \in S : <<m, k>> \in R <=> m[1] < k[1] OBVIOUS
<1>2. \A m \in S : m[1] \in Int BY DEF Char
<1> HIDE DEF R
<1>3. Ordered(S, R)
  <2>1. \A x \in S : <<x, x>> \notin R BY <1>1, <1>2
  <2>2. ASSUME NEW x \in S, NEW y \in S, x # y PROVE <<x, y>> \in R \/ <<y, x>> \in R
    <3>1. x[1] # y[1] /\ x[1] \in Int /\ y[1] \in Int BY <1>2, <2>2
    <3>2. x[1] < y[1] \/ y[1] < x[1] BY <3>1
    <3> QED BY <1>1, <3>2
  <2>3. ASSUME NEW x \in S, NEW y \in S, NEW z \in S, <<x, y>> \in R, <<y, z>> \in R
        PROVE  <<x, z>> \in R
    <3>1. x[1] < y[1] /\ y[1] < z[1] /\ x[1] \in Int /\ y[1] \in Int /\ z[1] \in Int
      BY <1>1, <1>2, <2>3
    <3>2. x[1] < z[1] BY <3>1
    <3> QED BY <1>1, <3>2
  <2> QED BY <2>1, <2>2, <2>3 DEF Ordered
<1> QED BY <1>1, <1>3 DEF KeyBefore

\* Where two paths part, the one that is before the other ends or has the lower character.
Parts(l, r, i) ==
    /\ i \in 1..(Len(l) + 1) /\ i <= Len(r)
    /\ \A j \in 1..(i - 1) : l[j] = r[j]
    /\ i = Len(l) + 1 \/ l[i] < r[i]

\* That is how bytes compare (Before).
LEMMA BeforeParts ==
  ASSUME NEW l \in Seq(Char), NEW r \in Seq(Char)
  PROVE  Before(l, r) <=> \E i \in Nat : Parts(l, r, i)
<1>1. Len(l) \in Nat /\ Len(r) \in Nat /\ DOMAIN l = 1..Len(l) /\ DOMAIN r = 1..Len(r) OBVIOUS
<1>2. ASSUME IsStrictPrefix(l, r) PROVE Parts(l, r, Len(l) + 1)
  <2>1. Len(l) <= Len(r) /\ SubSeq(l, 1, Len(l)) = SubSeq(r, 1, Len(l)) /\ l # r
    BY <1>2 DEF IsStrictPrefix, IsPrefix
  <2>2. \A j \in 1..Len(l) : SubSeq(l, 1, Len(l))[j] = l[j] OBVIOUS
  <2>3. \A j \in 1..Len(l) : SubSeq(r, 1, Len(l))[j] = r[j] BY <2>1
  <2>4. \A j \in 1..Len(l) : l[j] = r[j] BY <2>1, <2>2, <2>3
  <2>5. Len(l) # Len(r) BY <2>1, <2>4, SeqEqual
  <2> DEFINE n == Len(l)
  <2>6. n \in Nat /\ Len(r) \in Nat /\ n < Len(r)
    <3>1. Len(l) <= Len(r) BY ONLY <2>1
    <3>2. Len(l) \in Nat /\ Len(r) \in Nat BY LenProperties
    <3> QED BY ONLY <2>5, <3>1, <3>2 DEF n
  <2>7. \A j \in 1..n : l[j] = r[j] BY <2>4
  <2>8. 1..((n + 1) - 1) = 1..n /\ n + 1 \in 1..(n + 1) /\ n + 1 <= Len(r)
    <3> HIDE DEF n
    <3> QED BY <2>6
  <2> HIDE DEF n
  <2>9. \A j \in 1..((n + 1) - 1) : l[j] = r[j] BY <2>7, <2>8
  <2>10. n = Len(l) BY DEF n
  <2> QED BY <2>8, <2>9, <2>10 DEF Parts
<1>3. ASSUME NEW i \in DOMAIN l \cap DOMAIN r, l[i] < r[i], \A j \in 1..(i - 1) : l[j] = r[j]
      PROVE  Parts(l, r, i)
  BY <1>1, <1>3 DEF Parts
<1>4. ASSUME NEW i \in Nat, Parts(l, r, i), i = Len(l) + 1 PROVE IsStrictPrefix(l, r)
  <2>1. Len(l) < Len(r) /\ \A j \in 1..Len(l) : l[j] = r[j] BY <1>1, <1>4 DEF Parts
  <2>2. /\ SubSeq(l, 1, Len(l)) \in Seq(Char) /\ Len(SubSeq(l, 1, Len(l))) = Len(l)
        /\ \A j \in 1..Len(l) : SubSeq(l, 1, Len(l))[j] = l[j]
    OBVIOUS
  <2>3. /\ SubSeq(r, 1, Len(l)) \in Seq(Char) /\ Len(SubSeq(r, 1, Len(l))) = Len(l)
        /\ \A j \in 1..Len(l) : SubSeq(r, 1, Len(l))[j] = r[j]
    BY <2>1
  <2>4. \A j \in 1..Len(l) : SubSeq(l, 1, Len(l))[j] = SubSeq(r, 1, Len(l))[j]
    BY <2>1, <2>2, <2>3
  <2>5. SubSeq(l, 1, Len(l)) = SubSeq(r, 1, Len(l)) BY <2>2, <2>3, <2>4, SeqEqual
  <2> QED BY <2>1, <2>5 DEF IsStrictPrefix, IsPrefix
<1>5. ASSUME NEW i \in Nat, Parts(l, r, i), i # Len(l) + 1 PROVE Before(l, r)
  <2>1. i \in DOMAIN l \cap DOMAIN r /\ l[i] < r[i] /\ \A j \in 1..(i - 1) : l[j] = r[j]
    BY <1>1, <1>5 DEF Parts
  <2> QED BY <2>1 DEF Before
<1>6. Len(l) + 1 \in Nat BY <1>1
<1> QED BY <1>2, <1>3, <1>4, <1>5, <1>6 DEF Before

\* So paths are in an order, that of their bytes.
LEMMA PathsOrdered ==
  ASSUME NEW S, S \subseteq Seq(Char)
  PROVE  \E R : /\ Ordered(S, R)
                /\ \A l, r \in S : <<l, r>> \in R <=> Before(l, r)
<1> DEFINE R == {p \in S \X S : Before(p[1], p[2])}
<1>1. \A l, r \in S : <<l, r>> \in R <=> Before(l, r) OBVIOUS
<1> HIDE DEF R
<1>2. \A l, r \in S : <<l, r>> \in R <=> \E i \in Nat : Parts(l, r, i) BY <1>1, BeforeParts
<1>3. \A l \in S : l \in Seq(Char) /\ Len(l) \in Nat /\ \A i \in 1..Len(l) : l[i] \in Int
  <2>1. Char \subseteq Int BY DEF Char
  <2> SUFFICES ASSUME NEW l \in S
               PROVE  l \in Seq(Char) /\ Len(l) \in Nat /\ \A i \in 1..Len(l) : l[i] \in Int
    OBVIOUS
  <2>2. l \in Seq(Char) OBVIOUS
  <2>3. Len(l) \in Nat /\ \A i \in 1..Len(l) : l[i] \in Char BY <2>2, ElementOfSeq
  <2> QED BY <2>1, <2>2, <2>3
<1>4. ASSUME NEW x \in S PROVE <<x, x>> \notin R
  <2> SUFFICES ASSUME NEW i \in Nat, Parts(x, x, i) PROVE FALSE BY <1>2
  <2>1. i <= Len(x) /\ i >= 1 /\ (i = Len(x) + 1 \/ x[i] < x[i]) BY DEF Parts
  <2>2. i \in 1..Len(x) BY <1>3, <2>1
  <2>3. x[i] \in Int BY <1>3, <2>2
  <2> QED BY <1>3, <2>1, <2>3
<1>5. ASSUME NEW x \in S, NEW y \in S, x # y PROVE <<x, y>> \in R \/ <<y, x>> \in R
  <2> DEFINE D == {i \in Nat : /\ i >= 1 /\ i <= Len(x) + 1 /\ i <= Len(y) + 1
                               /\ i = Len(x) + 1 \/ i = Len(y) + 1 \/ x[i] # y[i]}
  <2>1. Len(x) \in Nat /\ Len(y) \in Nat BY <1>3
  <2>2. D # {}
    <3>1. CASE Len(x) <= Len(y)
      <4>1. Len(x) + 1 \in D BY <2>1, <3>1
      <4> QED BY <4>1
    <3>2. CASE Len(y) <= Len(x)
      <4>1. Len(y) + 1 \in D BY <2>1, <3>2
      <4> QED BY <4>1
    <3> QED BY <2>1, <3>1, <3>2
  <2>3. D \subseteq Nat OBVIOUS
  <2>4. PICK i \in D : \A j \in D : i <= j
    <3> HIDE DEF D
    <3> QED BY <2>2, <2>3, Least
  <2>5. /\ i \in Nat /\ i >= 1 /\ i <= Len(x) + 1 /\ i <= Len(y) + 1
        /\ i = Len(x) + 1 \/ i = Len(y) + 1 \/ x[i] # y[i]
    OBVIOUS
  <2>6. ASSUME NEW j \in 1..(i - 1) PROVE x[j] = y[j]
    <3>1. j \in Nat /\ j >= 1 /\ j < i /\ j <= Len(x) /\ j <= Len(y) BY <2>1, <2>5
    <3>2. j \notin D BY <2>4, <2>5, <3>1
    <3> QED BY <2>1, <3>1, <3>2
  <2> HIDE DEF D
  <2>7. ~(i = Len(x) + 1 /\ i = Len(y) + 1)
    <3> SUFFICES ASSUME i = Len(x) + 1, i = Len(y) + 1 PROVE FALSE OBVIOUS
    <3>1. Len(x) = Len(y) /\ \A j \in 1..Len(x) : x[j] = y[j] BY <2>1, <2>6
    <3>2. x = y BY <1>3, <3>1, SeqEqual
    <3> QED BY <1>5, <3>2
  <2>8. CASE i = Len(x) + 1
    <3>1. Parts(x, y, i) BY <2>1, <2>5, <2>6, <2>7, <2>8 DEF Parts
    <3> QED BY <1>2, <2>5, <3>1
  <2>9. CASE i = Len(y) + 1
    <3>1. Parts(y, x, i) BY <2>1, <2>5, <2>6, <2>7, <2>9 DEF Parts
    <3> QED BY <1>2, <2>5, <3>1
  <2>10. CASE i # Len(x) + 1 /\ i # Len(y) + 1
    <3>1. i \in 1..Len(x) /\ i \in 1..Len(y) /\ x[i] # y[i] BY <2>1, <2>5, <2>10
    <3>2. x[i] \in Int /\ y[i] \in Int BY <1>3, <3>1
    <3>3. x[i] < y[i] \/ y[i] < x[i] BY <3>1, <3>2
    <3>4. CASE x[i] < y[i]
      <4>1. Parts(x, y, i) BY <2>1, <2>5, <2>6, <3>1, <3>4 DEF Parts
      <4> QED BY <1>2, <2>5, <4>1
    <3>5. CASE y[i] < x[i]
      <4>1. Parts(y, x, i) BY <2>1, <2>5, <2>6, <3>1, <3>5 DEF Parts
      <4> QED BY <1>2, <2>5, <4>1
    <3> QED BY <3>3, <3>4, <3>5
  <2> QED BY <2>8, <2>9, <2>10
<1>6. ASSUME NEW x \in S, NEW y \in S, NEW z \in S, <<x, y>> \in R, <<y, z>> \in R
      PROVE  <<x, z>> \in R
  <2>1. PICK i \in Nat : Parts(x, y, i) BY <1>2, <1>6
  <2>2. PICK j \in Nat : Parts(y, z, j) BY <1>2, <1>6
  <2>3. Len(x) \in Nat /\ Len(y) \in Nat /\ Len(z) \in Nat BY <1>3
  <2>4. /\ i >= 1 /\ i <= Len(x) + 1 /\ i <= Len(y)
        /\ \A k \in 1..(i - 1) : x[k] = y[k]
        /\ i = Len(x) + 1 \/ x[i] < y[i]
    BY <2>1, <2>3 DEF Parts
  <2>5. /\ j >= 1 /\ j <= Len(y) + 1 /\ j <= Len(z)
        /\ \A k \in 1..(j - 1) : y[k] = z[k]
        /\ j = Len(y) + 1 \/ y[j] < z[j]
    BY <2>2, <2>3 DEF Parts
  <2>6. CASE i < j
    <3>1. i \in 1..(j - 1) /\ y[i] = z[i] BY <2>4, <2>5, <2>6
    <3>2. \A k \in 1..(i - 1) : x[k] = z[k] BY <2>4, <2>5, <2>6
    <3>3. Parts(x, z, i) BY <2>3, <2>4, <2>5, <2>6, <3>1, <3>2 DEF Parts
    <3> QED BY <1>2, <3>3
  <2>7. CASE j < i
    <3>1. j \in 1..(i - 1) /\ x[j] = y[j] /\ j <= Len(x) BY <2>3, <2>4, <2>5, <2>7
    <3>2. y[j] < z[j] BY <2>3, <2>4, <2>5, <2>7
    <3>3. \A k \in 1..(j - 1) : x[k] = z[k] BY <2>4, <2>5, <2>7
    <3>4. Parts(x, z, j) BY <2>3, <2>5, <3>1, <3>2, <3>3 DEF Parts
    <3> QED BY <1>2, <3>4
  <2>8. CASE i = j
    <3>1. \A k \in 1..(i - 1) : x[k] = z[k] BY <2>4, <2>5, <2>8
    <3>2. y[i] < z[i] BY <2>3, <2>4, <2>5, <2>8
    <3>3. i = Len(x) + 1 \/ x[i] < z[i]
      <4> SUFFICES ASSUME i # Len(x) + 1 PROVE x[i] < z[i] OBVIOUS
      <4>1. i \in 1..Len(x) /\ i \in 1..Len(y) /\ i \in 1..Len(z) /\ x[i] < y[i]
        BY <2>3, <2>4, <2>5, <2>8
      <4>2. x[i] \in Int /\ y[i] \in Int /\ z[i] \in Int BY <1>3, <4>1
      <4> QED BY <3>2, <4>1, <4>2
    <3>4. Parts(x, z, i) BY <2>3, <2>4, <2>5, <2>8, <3>1, <3>3 DEF Parts
    <3> QED BY <1>2, <3>4
  <2> QED BY <2>6, <2>7, <2>8
<1>7. Ordered(S, R) BY <1>4, <1>5, <1>6 DEF Ordered
<1> QED BY <1>1, <1>7

\* What ends in NUL, and what has none.
Ended(X) == X # <<>> => X[Len(X)] = Nul
Bare == Seq(Char)
Fedness == Seq(Nat)

\* No character is NUL.
LEMMA CharIsNat == Char \subseteq Nat /\ Nul \in Nat /\ \A c \in Char : c # Nul
BY DEF Char, Nul

\* A text without NUL may be fed.
LEMMA BareIsFed == Bare \subseteq Fedness
<1> SUFFICES ASSUME NEW s \in Seq(Char) PROVE s \in Seq(Nat) BY DEF Bare, Fedness
<1>1. Len(s) \in Nat /\ s \in [1..Len(s) -> Char] BY LenProperties
<1>2. s \in [1..Len(s) -> Nat] BY <1>1, CharIsNat
<1> QED BY <1>1, <1>2, SeqDef

\* Where the last part begins shows.
LEMMA LastPlaces ==
  ASSUME NEW X \in Fedness, NEW u \in Bare
  PROVE  LET W == X \o u \o <<Nul>>
         IN /\ W \in Fedness /\ Len(W) = Len(X) + Len(u) + 1
            /\ \A i \in 1..Len(X) : W[i] = X[i]
            /\ \A i \in 1..Len(u) : W[Len(X) + i] = u[i]
            /\ W[Len(W)] = Nul
<1> DEFINE V == X \o u
           W == V \o <<Nul>>
<1>1. u \in Fedness /\ <<Nul>> \in Fedness /\ Len(<<Nul>>) = 1 /\ <<Nul>>[1] = Nul
  BY BareIsFed, CharIsNat DEF Fedness
<1>2. /\ V \in Fedness /\ Len(V) = Len(X) + Len(u)
      /\ \A i \in 1..(Len(X) + Len(u)) : V[i] = IF i <= Len(X) THEN X[i] ELSE u[i - Len(X)]
  BY <1>1, ConcatProperties DEF Fedness
<1> HIDE DEF V
<1>3. /\ W \in Fedness /\ Len(W) = Len(V) + 1
      /\ \A i \in 1..(Len(V) + 1) : W[i] = IF i <= Len(V) THEN V[i] ELSE <<Nul>>[i - Len(V)]
  BY <1>1, <1>2, ConcatProperties DEF Fedness
<1> HIDE DEF W
<1>4. Len(X) \in Nat /\ Len(u) \in Nat /\ Len(V) \in Nat BY <1>1, <1>2, LenProperties DEF Fedness
<1>5. ASSUME NEW i \in 1..Len(X) PROVE W[i] = X[i]
  <2>1. i \in 1..(Len(X) + Len(u)) /\ i \in 1..(Len(V) + 1) /\ i <= Len(X) /\ i <= Len(V)
    BY <1>2, <1>4
  <2> QED BY <1>2, <1>3, <2>1
<1>6. ASSUME NEW i \in 1..Len(u) PROVE W[Len(X) + i] = u[i]
  <2> DEFINE j == Len(X) + i
  <2>1. /\ j \in 1..(Len(X) + Len(u)) /\ j \in 1..(Len(V) + 1) /\ ~(j <= Len(X)) /\ j <= Len(V)
        /\ j - Len(X) = i
    BY <1>2, <1>4
  <2> HIDE DEF j
  <2>2. W[j] = V[j] BY <1>3, <2>1
  <2>3. V[j] = u[j - Len(X)] BY <1>2, <2>1
  <2> QED BY <2>1, <2>2, <2>3 DEF j
<1>7. W[Len(W)] = Nul
  <2> DEFINE j == Len(V) + 1
  <2>1. j \in 1..(Len(V) + 1) /\ ~(j <= Len(V)) /\ j - Len(V) = 1 BY <1>4
  <2> HIDE DEF j
  <2>2. W[j] = <<Nul>>[j - Len(V)] BY <1>3, <2>1
  <2>3. W[j] = Nul BY <1>1, <2>1, <2>2
  <2> QED BY <1>3, <2>3 DEF j
<1>8. Len(W) = Len(X) + Len(u) + 1 BY <1>2, <1>3
<1> QED BY <1>3, <1>5, <1>6, <1>7, <1>8 DEF W, V

\* The last part of what is fed can be told from what was fed before it: it has no NUL,
\* and what was fed before ends in one.
LEMMA NotLonger ==
  ASSUME NEW X \in Fedness, NEW Y \in Fedness, Ended(Y), NEW u \in Bare, NEW v \in Bare,
         X \o u \o <<Nul>> = Y \o v \o <<Nul>>
  PROVE  ~(Len(X) < Len(Y))
<1> SUFFICES ASSUME Len(X) < Len(Y) PROVE FALSE OBVIOUS
<1> DEFINE W == X \o u \o <<Nul>>
<1>1. /\ Len(W) = Len(X) + Len(u) + 1
      /\ \A i \in 1..Len(u) : W[Len(X) + i] = u[i]
  BY LastPlaces
<1>2. W = Y \o v \o <<Nul>> OBVIOUS
<1> HIDE DEF W
<1>3. /\ Len(W) = Len(Y) + Len(v) + 1
      /\ \A i \in 1..Len(Y) : W[i] = Y[i]
  BY <1>2, LastPlaces
<1>4. Len(X) \in Nat /\ Len(Y) \in Nat /\ Len(u) \in Nat /\ Len(v) \in Nat
  BY LenProperties DEF Fedness, Bare
<1> DEFINE i == Len(Y) - Len(X)
<1>5. i \in 1..Len(u) /\ Len(X) + i = Len(Y) /\ Len(Y) \in 1..Len(Y) BY <1>1, <1>3, <1>4
<1> HIDE DEF i
<1>6. W[Len(Y)] = u[i] /\ W[Len(Y)] = Y[Len(Y)] BY <1>1, <1>3, <1>5
<1>7. u[i] \in Char BY <1>5, ElementOfSeq DEF Bare
<1>8. Y # <<>> BY <1>5, EmptySeq DEF Fedness
<1> QED BY <1>6, <1>7, <1>8, CharIsNat DEF Ended

\* So two streams that are the same have the same last part, and the same before it.
LEMMA LastTold ==
  ASSUME NEW X \in Fedness, NEW Y \in Fedness, Ended(X), Ended(Y), NEW u \in Bare, NEW v \in Bare,
         X \o u \o <<Nul>> = Y \o v \o <<Nul>>
  PROVE  X = Y /\ u = v
<1> DEFINE W == X \o u \o <<Nul>>
<1>1. /\ Len(W) = Len(X) + Len(u) + 1
      /\ \A i \in 1..Len(X) : W[i] = X[i]
      /\ \A i \in 1..Len(u) : W[Len(X) + i] = u[i]
  BY LastPlaces
<1>2. W = Y \o v \o <<Nul>> OBVIOUS
<1> HIDE DEF W
<1>3. /\ Len(W) = Len(Y) + Len(v) + 1
      /\ \A i \in 1..Len(Y) : W[i] = Y[i]
      /\ \A i \in 1..Len(v) : W[Len(Y) + i] = v[i]
  BY <1>2, LastPlaces
<1>4. Len(X) \in Nat /\ Len(Y) \in Nat /\ Len(u) \in Nat /\ Len(v) \in Nat
  BY LenProperties DEF Fedness, Bare
<1>5. ~(Len(X) < Len(Y)) /\ ~(Len(Y) < Len(X)) BY NotLonger
<1>6. Len(X) = Len(Y) /\ Len(u) = Len(v) BY <1>1, <1>3, <1>4, <1>5
<1>7. \A i \in 1..Len(X) : X[i] = Y[i] BY <1>1, <1>3, <1>6
<1>8. \A i \in 1..Len(u) : u[i] = v[i] BY <1>1, <1>3, <1>6
<1>9. X = Y BY <1>6, <1>7, SeqEqual DEF Fedness
<1>10. u = v BY <1>6, <1>8, SeqEqual DEF Bare
<1> QED BY <1>9, <1>10

\* What is fed ends in NUL again.
LEMMA EndedAfter ==
  ASSUME NEW X \in Fedness, NEW u \in Bare
  PROVE  X \o u \o <<Nul>> \in Fedness /\ Ended(X \o u \o <<Nul>>)
BY LastPlaces DEF Ended

\* The members of a file: no key twice.
Member == Char \X Char
Contents == {members \in Seq(Member) :
                \A i, j \in 1..Len(members) : i # j => members[i][1] # members[j][1]}

\* A member is its key and its value.
LEMMA MemberParts ==
  /\ \A m \in Member : m = <<m[1], m[2]>> /\ m[1] \in Char /\ m[2] \in Char
  /\ \A m, k \in Member : m[1] = k[1] /\ m[2] = k[2] => m = k
BY DEF Member

\* The members of a file, in the order of their keys: all of them, and nothing else.
LEMMA Sorted ==
  ASSUME NEW members \in Contents
  PROVE  LET sorted == InOrder(ToSet(members), KeyBefore)
         IN /\ sorted \in Seq(Member)
            /\ ToSet(members) = {sorted[i] : i \in 1..Len(sorted)}
<1> DEFINE S == ToSet(members)
           n == Cardinality(S)
           Chosen(s) == \A i, j \in 1..n : i < j => KeyBefore(s[i], s[j])
           sorted == CHOOSE s \in [1..n -> S] : Chosen(s)
<1>1. members \in Seq(Member) /\ Len(members) \in Nat /\ DOMAIN members = 1..Len(members)
  BY LenProperties DEF Contents
<1>2. S = {members[i] : i \in 1..Len(members)} BY <1>1 DEF ToSet
<1>3. \A i \in 1..Len(members) : members[i] \in S BY <1>2
<1>4. \A m \in S : \E i \in 1..Len(members) : members[i] = m BY <1>2
<1> HIDE DEF S
<1>5. IsFiniteSet(S)
  <2>1. members \in [1..Len(members) -> S] BY <1>1, <1>3, LenProperties
  <2>2. members \in Surjection(1..Len(members), S) BY <1>4, <2>1 DEF Surjection
  <2>3. IsFiniteSet(1..Len(members)) BY <1>1, FS_Interval
  <2> QED BY <2>2, <2>3, FS_Surjection
<1>6. S \subseteq Member BY <1>1, <1>4, ElementOfSeq
<1>7. ASSUME NEW m \in S, NEW k \in S, m # k PROVE m[1] # k[1]
  <2>1. PICK i \in 1..Len(members) : members[i] = m BY <1>4
  <2>2. PICK j \in 1..Len(members) : members[j] = k BY <1>4
  <2>3. i # j BY <1>7, <2>1, <2>2
  <2> QED BY <2>1, <2>2, <2>3 DEF Contents
<1>8. PICK R : Ordered(S, R) /\ \A m, k \in S : <<m, k>> \in R <=> KeyBefore(m, k)
  BY <1>6, <1>7, KeysOrdered DEF Member
<1>9. \E s \in [1..n -> S] : \A i, j \in 1..n : i < j => <<s[i], s[j]>> \in R
  BY <1>5, <1>8, OrderExists DEF Lined
<1> HIDE DEF n
<1>10. ASSUME NEW s \in [1..n -> S]
       PROVE  Chosen(s) <=> \A i, j \in 1..n : i < j => <<s[i], s[j]>> \in R
  <2>1. \A i \in 1..n : s[i] \in S OBVIOUS
  <2> QED BY <1>8, <2>1
<1>11. \E s \in [1..n -> S] : Chosen(s) BY <1>9, <1>10
<1>12. sorted = InOrder(S, KeyBefore) BY DEF InOrder, n
<1>13. sorted \in [1..n -> S] /\ Chosen(sorted)
  <2> HIDE DEF Chosen
  <2> QED BY <1>11
<1> HIDE DEF sorted
<1>14. \A i, j \in 1..n : i < j => <<sorted[i], sorted[j]>> \in R BY <1>10, <1>13
<1>15. /\ sorted \in Seq(S) /\ Len(sorted) = n
       /\ \A x \in S : \E i \in 1..Len(sorted) : sorted[i] = x
  <2>1. Lined(sorted, S, R) BY <1>13, <1>14 DEF n, Lined
  <2> QED BY <1>5, <1>8, <2>1, AllInOrder DEF n
<1>16. sorted \in Seq(Member)
  <2>1. sorted \in [1..Len(sorted) -> Member] /\ Len(sorted) \in Nat
    BY <1>6, <1>13, <1>15, LenProperties
  <2> QED BY <2>1, SeqDef
<1>17. S = {sorted[i] : i \in 1..Len(sorted)} BY <1>13, <1>15
<1> QED BY <1>12, <1>16, <1>17 DEF S

\* So what they are encoded as is a text without NUL, and tells what the members are.
LEMMA EncodedTells ==
  /\ \A one \in Contents : Encoded(one) \in Bare
  /\ \A one, other \in Contents :
        Encoded(one) = Encoded(other) <=> ToSet(one) = ToSet(other)
<1> DEFINE sorted(c) == InOrder(ToSet(c), KeyBefore)
<1>1. \A c \in Contents : /\ sorted(c) \in Seq(Member)
                          /\ ToSet(c) = {sorted(c)[i] : i \in 1..Len(sorted(c))}
  BY Sorted
<1>2. \A c \in Contents : Encoded(c) =
         [n \in 1..(2 * Len(sorted(c))) |->
            IF n % 2 = 1 THEN sorted(c)[(n + 1) \div 2][1] ELSE sorted(c)[n \div 2][2]]
  BY DEF Encoded
<1> HIDE DEF sorted
<1>3. ASSUME NEW c \in Contents
      PROVE  /\ Encoded(c) \in Bare /\ Len(Encoded(c)) = 2 * Len(sorted(c))
             /\ Len(sorted(c)) \in Nat
             /\ \A k \in 1..Len(sorted(c)) : /\ Encoded(c)[2 * k - 1] = sorted(c)[k][1]
                                             /\ Encoded(c)[2 * k] = sorted(c)[k][2]
  <2> DEFINE s == sorted(c)
             w == Encoded(c)
             m == 2 * Len(s)
  <2>1. s \in Seq(Member) /\ Len(s) \in Nat BY <1>1, LenProperties
  <2>2. \A k \in 1..Len(s) : s[k] \in Member BY <2>1, ElementOfSeq
  <2>3. \A k \in 1..Len(s) : s[k][1] \in Char /\ s[k][2] \in Char BY <2>2, MemberParts
  <2>4. w = [n \in 1..m |-> IF n % 2 = 1 THEN s[(n + 1) \div 2][1] ELSE s[n \div 2][2]] BY <1>2
  <2> HIDE DEF s, w
  <2>5. \A n \in 1..m : /\ n % 2 = 1 => (n + 1) \div 2 \in 1..Len(s)
                        /\ n % 2 # 1 => n \div 2 \in 1..Len(s)
    BY <2>1
  <2>6. \A n \in 1..m : w[n] \in Char BY <2>3, <2>4, <2>5
  <2>7. m \in Nat BY <2>1
  <2>8. w \in [1..m -> Char] BY <2>4, <2>6
  <2> HIDE DEF m
  <2>9. w \in Bare /\ Len(w) = m
    <3>1. w \in Seq(Char) BY <2>7, <2>8, SeqDef
    <3>2. DOMAIN w = 1..m BY <2>8
    <3>3. Len(w) \in Nat /\ DOMAIN w = 1..Len(w) BY <3>1, LenProperties
    <3>4. Len(w) = m BY <2>7, <3>2, <3>3
    <3> QED BY <3>1, <3>4 DEF Bare
  <2>10. ASSUME NEW k \in 1..Len(s) PROVE w[2 * k - 1] = s[k][1] /\ w[2 * k] = s[k][2]
    <3>1. /\ 2 * k - 1 \in 1..m /\ 2 * k \in 1..m
          /\ (2 * k - 1) % 2 = 1 /\ (2 * k) % 2 # 1
          /\ ((2 * k - 1) + 1) \div 2 = k /\ (2 * k) \div 2 = k
      BY <2>1 DEF m
    <3> QED BY <2>4, <3>1
  <2> QED BY <2>1, <2>9, <2>10 DEF s, w, m
<1>4. ASSUME NEW one \in Contents, NEW other \in Contents,
             Encoded(one) = Encoded(other)
      PROVE  ToSet(one) = ToSet(other)
  <2>1. Len(sorted(one)) = Len(sorted(other)) BY <1>3, <1>4
  <2>2. ASSUME NEW k \in 1..Len(sorted(one)) PROVE sorted(one)[k] = sorted(other)[k]
    <3>1. sorted(one)[k] \in Member /\ sorted(other)[k] \in Member BY <1>1, <2>1, ElementOfSeq
    <3>2. sorted(one)[k][1] = sorted(other)[k][1] /\ sorted(one)[k][2] = sorted(other)[k][2]
      BY <1>3, <1>4, <2>1
    <3> QED BY <3>1, <3>2, MemberParts
  <2>3. sorted(one) = sorted(other) BY <1>1, <2>1, <2>2, SeqEqual
  <2> QED BY <1>1, <2>3
<1>5. ASSUME NEW one \in Contents, NEW other \in Contents, ToSet(one) = ToSet(other)
      PROVE  Encoded(one) = Encoded(other)
  BY <1>5 DEF Encoded
<1> QED BY <1>3, <1>4, <1>5

\* What is in a file: members, and the rest.
FileType == [members : Contents, rest : Bare]

\* The canonical content of a file is a text without NUL, and tells what the file says: its
\* members if it is JSON, all its bytes if it is not.
LEMMA ContentTells ==
  ASSUME NEW path
  PROVE  /\ \A one \in FileType : CanonicalContent(path, one) \in Bare
         /\ \A one, other \in FileType :
               CanonicalContent(path, one) = CanonicalContent(path, other)
                  <=> SaysSame(path, one, other)
<1>1. \A file \in FileType : file.members \in Contents /\ file.rest \in Bare BY DEF FileType
<1>2. CASE IsJsonFile(path)
  <2>1. \A file : CanonicalContent(path, file) = Encoded(file.members)
    BY <1>2 DEF CanonicalContent
  <2>2. \A one, other : SaysSame(path, one, other) <=> ToSet(one.members) = ToSet(other.members)
    BY <1>2 DEF SaysSame
  <2> QED BY <1>1, <2>1, <2>2, EncodedTells
<1>3. CASE ~IsJsonFile(path)
  <2>1. \A file : CanonicalContent(path, file) = file.rest BY <1>3 DEF CanonicalContent
  <2>2. \A one, other : SaysSame(path, one, other) <=> one.rest = other.rest
    BY <1>3 DEF SaysSame
  <2> QED BY <1>1, <2>1, <2>2
<1> QED BY <1>2, <1>3

\* A file as the digest reads it: a path and what is in it.
Filed == Bare \X FileType

\* Its path and its canonical content have no NUL.
LEMMA FiledParts ==
  \A f \in Filed : f[1] \in Bare /\ f[2] \in FileType /\ CanonicalContent(f[1], f[2]) \in Bare
BY ContentTells DEF Filed

\* A path and a content are fed one after the other, each with NUL after it
\* (hashSchemaFile).
LEMMA HashType ==
  ASSUME NEW f \in Filed
  PROVE  /\ HashSchemaFile(f[1], f[2]) \in Fedness
         /\ \A X \in Fedness :
               X \o HashSchemaFile(f[1], f[2])
                  = (X \o f[1] \o <<Nul>>) \o CanonicalContent(f[1], f[2]) \o <<Nul>>
<1> DEFINE u == f[1]
           v == CanonicalContent(f[1], f[2])
           z == <<Nul>>
<1>1. u \in Fedness /\ v \in Fedness BY FiledParts, BareIsFed
<1>2. z \in Fedness BY CharIsNat DEF Fedness
<1>3. HashSchemaFile(f[1], f[2]) = u \o z \o v \o z BY DEF HashSchemaFile
<1> HIDE DEF u, v, z
<1>4. \A a, b \in Fedness : a \o b \in Fedness BY ConcatProperties DEF Fedness
<1>5. \A a, b, c \in Fedness : (a \o b) \o c = a \o (b \o c) BY ConcatAssociative DEF Fedness
<1>6. u \o z \o v \o z \in Fedness BY <1>1, <1>2, <1>4
<1>7. ASSUME NEW X \in Fedness PROVE X \o (u \o z \o v \o z) = (X \o u \o z) \o v \o z
  <2>1. u \o z \in Fedness /\ (u \o z) \o v \in Fedness BY <1>1, <1>2, <1>4
  <2>2. X \o (((u \o z) \o v) \o z) = (X \o ((u \o z) \o v)) \o z BY <1>2, <1>5, <2>1
  <2>3. X \o ((u \o z) \o v) = (X \o (u \o z)) \o v BY <1>1, <1>5, <2>1
  <2>4. X \o (u \o z) = (X \o u) \o z BY <1>1, <1>2, <1>5
  <2> QED BY <2>2, <2>3, <2>4
<1> QED BY <1>3, <1>6, <1>7 DEF u, v, z

\* What is fed stays what may be fed.
LEMMA HashAdds ==
  ASSUME NEW s \in Fedness, NEW f \in Filed
  PROVE  s \o HashSchemaFile(f[1], f[2]) \in Fedness
BY HashType, ConcatProperties DEF Fedness

\* Fed reads files one by one.
Feeding == [s \in Fedness |-> [b \in Filed |-> s \o HashSchemaFile(b[1], b[2])]]

\* Fed is what the fold over the whole sequence comes to.
LEMMA FedFolds ==
  ASSUME NEW seq \in Seq(Filed)
  PROVE  \E at : Folds(at, Fedness, <<>>, Feeding, seq) /\ Fed(seq) = at[Len(seq)]
<1> DEFINE Solves(at) ==
              at = [n \in 0..Len(seq) |->
                      IF n = 0 THEN <<>>
                      ELSE at[n - 1] \o HashSchemaFile(seq[n][1], seq[n][2])]
           chosen == CHOOSE at : Solves(at)
<1>1. Feeding \in [Fedness -> [Filed -> Fedness]] BY HashAdds DEF Feeding
<1>2. <<>> \in Fedness BY DEF Fedness
<1>3. PICK at : Folds(at, Fedness, <<>>, Feeding, seq) BY <1>1, <1>2, Folding
<1>4. /\ at \in [0..Len(seq) -> Fedness] /\ at[0] = <<>>
      /\ \A n \in 1..Len(seq) : at[n] = Feeding[at[n - 1]][seq[n]]
  BY <1>3 DEF Folds
<1>5. ASSUME NEW n \in 1..Len(seq) PROVE at[n] = at[n - 1] \o HashSchemaFile(seq[n][1], seq[n][2])
  <2>1. at[n - 1] \in Fedness /\ seq[n] \in Filed BY <1>4
  <2>2. \A s \in Fedness : \A b \in Filed : Feeding[s][b] = s \o HashSchemaFile(b[1], b[2])
    BY DEF Feeding
  <2> QED BY <1>4, <2>1, <2>2
<1>6. Solves(at)
  <2>1. at = [n \in 0..Len(seq) |-> at[n]] BY <1>4
  <2>2. ASSUME NEW n \in 0..Len(seq)
        PROVE  at[n] = IF n = 0 THEN <<>> ELSE at[n - 1] \o HashSchemaFile(seq[n][1], seq[n][2])
    <3>1. n # 0 => n \in 1..Len(seq) OBVIOUS
    <3> QED BY <1>4, <1>5, <3>1, Zenon
  <2> QED BY <2>1, <2>2
<1>7. Solves(chosen) BY <1>6
<1>8. Fed(seq) = chosen[Len(seq)] BY DEF Fed
<1> HIDE DEF chosen
<1>9. /\ chosen[0] = <<>>
      /\ \A n \in 1..Len(seq) : chosen[n] = chosen[n - 1] \o HashSchemaFile(seq[n][1], seq[n][2])
  BY <1>7
<1>10. \A n \in 1..Len(seq) : at[n - 1] = chosen[n - 1] => at[n] = chosen[n] BY <1>5, <1>9
<1>11. Len(seq) \in 0..Len(seq) /\ Len(seq) \in Nat OBVIOUS
<1>12. Parallel(at, chosen, Len(seq)) BY <1>4, <1>9, <1>10 DEF Parallel
<1>13. at[Len(seq)] = chosen[Len(seq)] BY <1>11, <1>12, Alike
<1> QED BY <1>3, <1>8, <1>13

\* Fed of nothing, and of one element more.
LEMMA FedLaw ==
  /\ Fed(<<>>) = <<>>
  /\ \A seq \in Seq(Filed) : Fed(seq) \in Fedness
  /\ \A seq \in Seq(Filed), b \in Filed :
        Fed(Append(seq, b)) = Fed(seq) \o HashSchemaFile(b[1], b[2])
<1>1. <<>> \in Seq(Filed) /\ Len(<<>>) = 0 OBVIOUS
<1>2. Fed(<<>>) = <<>> BY <1>1, FedFolds DEF Folds
<1>3. ASSUME NEW seq \in Seq(Filed), NEW b \in Filed
      PROVE  Fed(seq) \in Fedness /\ Fed(Append(seq, b)) = Fed(seq) \o HashSchemaFile(b[1], b[2])
  <2>1. Append(seq, b) \in Seq(Filed) OBVIOUS
  <2>2. PICK f : Folds(f, Fedness, <<>>, Feeding, seq) /\ Fed(seq) = f[Len(seq)]
    BY FedFolds
  <2>3. PICK g : /\ Folds(g, Fedness, <<>>, Feeding, Append(seq, b))
                 /\ Fed(Append(seq, b)) = g[Len(Append(seq, b))]
    BY <2>1, FedFolds
  <2>4. /\ f[Len(seq)] \in Fedness
        /\ g[Len(Append(seq, b))] = Feeding[f[Len(seq)]][b]
    BY <2>2, <2>3, FoldsOn
  <2>5. \A s \in Fedness : Feeding[s][b] = s \o HashSchemaFile(b[1], b[2]) BY DEF Feeding
  <2> QED BY <2>2, <2>3, <2>4, <2>5
<1>4. ASSUME NEW seq \in Seq(Filed) PROVE Fed(seq) \in Fedness
  <2>1. PICK f : Folds(f, Fedness, <<>>, Feeding, seq) /\ Fed(seq) = f[Len(seq)]
    BY FedFolds
  <2>2. f \in [0..Len(seq) -> Fedness] /\ Len(seq) \in 0..Len(seq) BY <2>1 DEF Folds
  <2> QED BY <2>1, <2>2
<1> QED BY <1>2, <1>3, <1>4

\* What is fed for one file more, part by part; it ends in NUL, and is never nothing.
LEMMA FedParts ==
  ASSUME NEW s \in Seq(Filed), NEW f \in Filed
  PROVE  /\ Fed(s) \in Fedness
         /\ Fed(s) \o f[1] \o <<Nul>> \in Fedness
         /\ Ended(Fed(s) \o f[1] \o <<Nul>>)
         /\ Fed(Append(s, f))
               = (Fed(s) \o f[1] \o <<Nul>>) \o CanonicalContent(f[1], f[2]) \o <<Nul>>
         /\ Fed(Append(s, f)) \in Fedness /\ Ended(Fed(Append(s, f)))
         /\ Fed(Append(s, f)) # <<>>
<1>1. Fed(s) \in Fedness BY FedLaw
<1>2. f[1] \in Bare /\ CanonicalContent(f[1], f[2]) \in Bare BY FiledParts
<1> DEFINE X == Fed(s) \o f[1] \o <<Nul>>
<1>3. X \in Fedness /\ Ended(X) BY <1>1, <1>2, EndedAfter
<1>4. Fed(Append(s, f)) = Fed(s) \o HashSchemaFile(f[1], f[2]) BY FedLaw
<1>5. Fed(Append(s, f)) = X \o CanonicalContent(f[1], f[2]) \o <<Nul>> BY <1>1, <1>4, HashType
<1> HIDE DEF X
<1> DEFINE W == X \o CanonicalContent(f[1], f[2]) \o <<Nul>>
<1>6. W \in Fedness /\ Ended(W) BY <1>2, <1>3, EndedAfter
<1>7. Len(W) = Len(X) + Len(CanonicalContent(f[1], f[2])) + 1 BY <1>2, <1>3, LastPlaces
<1>8. Len(X) \in Nat /\ Len(CanonicalContent(f[1], f[2])) \in Nat
  BY <1>2, <1>3, LenProperties DEF Fedness, Bare
<1> HIDE DEF W
<1>9. Len(W) # 0 BY <1>7, <1>8
<1>10. W # <<>> BY <1>9, EmptySeq
<1> QED BY <1>1, <1>3, <1>5, <1>6, <1>10 DEF X, W

\* Whatever is fed is nothing or ends in NUL.
LEMMA FedEnded == \A s \in Seq(Filed) : Fed(s) \in Fedness /\ Ended(Fed(s))
<1> DEFINE Q == {s \in Seq(Filed) : Ended(Fed(s))}
<1>1. <<>> \in Q
  <2>1. Fed(<<>>) = <<>> BY FedLaw
  <2>2. <<>> \in Seq(Filed) BY EmptySeq
  <2> QED BY <2>1, <2>2 DEF Ended
<1>2. ASSUME NEW s \in Seq(Filed), NEW f \in Filed, s \in Q PROVE Append(s, f) \in Q
  BY FedParts, Appended
<1> HIDE DEF Q
<1>3. Seq(Filed) \subseteq Q BY <1>1, <1>2, SeqInduction
<1> QED BY <1>3, FedLaw DEF Q

\* Two lists of files that say the same: the same paths, with the same canonical contents.
Agree(f, g) == f[1] = g[1] /\ CanonicalContent(f[1], f[2]) = CanonicalContent(g[1], g[2])
Same(s, t) ==
    /\ Len(s) = Len(t)
    /\ \A i \in 1..Len(s) : Agree(s[i], t[i])

\* Two lists that say the same still do with files that do.
LEMMA SameLonger ==
  ASSUME NEW s \in Seq(Filed), NEW t \in Seq(Filed), Same(s, t), NEW f \in Filed, NEW g \in Filed,
         Agree(f, g)
  PROVE  Same(Append(s, f), Append(t, g))
<1> DEFINE a == Append(s, f)
           b == Append(t, g)
           m == Len(s)
<1>1. /\ Len(a) = m + 1 /\ m \in Nat /\ (\A i \in 1..m : a[i] = s[i]) /\ a[m + 1] = f
  BY Appended
<1>2. Len(t) = m BY DEF Same
<1>3. /\ Len(b) = m + 1 /\ (\A i \in 1..m : b[i] = t[i]) /\ b[m + 1] = g
  BY <1>2, Appended
<1> HIDE DEF a, b
<1>4. \A i \in 1..m : Agree(s[i], t[i])
  BY DEF Same
<1> HIDE DEF m
<1>5. ASSUME NEW i \in 1..Len(a) PROVE Agree(a[i], b[i])
  <2>1. i \in 1..m \/ i = m + 1 BY <1>1
  <2> QED BY <1>1, <1>3, <1>4, <2>1
<1>6. Len(a) = Len(b) BY <1>1, <1>3
<1> QED BY <1>5, <1>6 DEF Same, a, b

\* What is fed tells the files.
LEMMA FedTells ==
  ASSUME NEW s \in Seq(Filed), NEW t \in Seq(Filed), Fed(s) = Fed(t)
  PROVE  Same(s, t)
<1> DEFINE Q == {u \in Seq(Filed) : \A v \in Seq(Filed) : Fed(u) = Fed(v) => Same(u, v)}
<1>1. <<>> \in Q
  <2>1. <<>> \in Seq(Filed) /\ Fed(<<>>) = <<>> BY EmptySeq, FedLaw
  <2>2. ASSUME NEW v \in Seq(Filed), Fed(<<>>) = Fed(v) PROVE Same(<<>>, v)
    <3>1. v = <<>>
      <4> SUFFICES ASSUME v # <<>> PROVE FALSE OBVIOUS
      <4>1. Front(v) \in Seq(Filed) /\ Last(v) \in Filed /\ v = Append(Front(v), Last(v))
        BY Unappended
      <4>2. Fed(v) # <<>> BY <4>1, FedParts
      <4> QED BY <2>1, <2>2, <4>2
    <3> QED BY <3>1 DEF Same
  <2> QED BY <2>1, <2>2
<1>2. ASSUME NEW u \in Seq(Filed), NEW f \in Filed, u \in Q PROVE Append(u, f) \in Q
  <2>1. Append(u, f) \in Seq(Filed) BY Appended
  <2>2. ASSUME NEW v \in Seq(Filed), Fed(Append(u, f)) = Fed(v) PROVE Same(Append(u, f), v)
    <3> DEFINE w == Front(v)
               g == Last(v)
    <3>1. v # <<>>
      <4>1. Fed(Append(u, f)) # <<>> BY FedParts
      <4> QED BY <2>2, <4>1, FedLaw
    <3>2. w \in Seq(Filed) /\ g \in Filed /\ v = Append(w, g) BY <3>1, Unappended
    <3> HIDE DEF w, g
    <3> DEFINE X == Fed(u) \o f[1] \o <<Nul>>
               Y == Fed(w) \o g[1] \o <<Nul>>
    <3>3. /\ X \in Fedness /\ Ended(X)
          /\ Fed(Append(u, f)) = X \o CanonicalContent(f[1], f[2]) \o <<Nul>>
      BY FedParts
    <3>4. /\ Y \in Fedness /\ Ended(Y)
          /\ Fed(Append(w, g)) = Y \o CanonicalContent(g[1], g[2]) \o <<Nul>>
      BY <3>2, FedParts
    <3>5. /\ f[1] \in Bare /\ CanonicalContent(f[1], f[2]) \in Bare
          /\ g[1] \in Bare /\ CanonicalContent(g[1], g[2]) \in Bare
      BY <3>2, FiledParts
    <3> HIDE DEF X, Y
    <3>6. X \o CanonicalContent(f[1], f[2]) \o <<Nul>>
             = Y \o CanonicalContent(g[1], g[2]) \o <<Nul>>
      BY <2>2, <3>2, <3>3, <3>4
    <3>7. X = Y /\ CanonicalContent(f[1], f[2]) = CanonicalContent(g[1], g[2])
      <4> DEFINE c == CanonicalContent(f[1], f[2])
                 e == CanonicalContent(g[1], g[2])
      <4>1. c \in Bare /\ e \in Bare /\ X \o c \o <<Nul>> = Y \o e \o <<Nul>> BY <3>5, <3>6
      <4>2. X \in Fedness /\ Y \in Fedness /\ Ended(X) /\ Ended(Y) BY <3>3, <3>4
      <4> HIDE DEF c, e
      <4>3. X = Y /\ c = e BY ONLY <4>1, <4>2, LastTold
      <4> QED BY <4>3 DEF c, e
    <3>8. Fed(u) \o f[1] \o <<Nul>> = Fed(w) \o g[1] \o <<Nul>> BY <3>7 DEF X, Y
    <3>9. Fed(u) \in Fedness /\ Fed(w) \in Fedness /\ Ended(Fed(u)) /\ Ended(Fed(w))
      BY <3>2, FedEnded
    <3>10. Fed(u) = Fed(w) /\ f[1] = g[1]
      <4> DEFINE x == Fed(u)
                 y == Fed(w)
                 c == f[1]
                 e == g[1]
      <4>1. /\ c \in Bare /\ e \in Bare /\ x \o c \o <<Nul>> = y \o e \o <<Nul>>
            /\ x \in Fedness /\ y \in Fedness /\ Ended(x) /\ Ended(y)
        BY <3>5, <3>8, <3>9
      <4> HIDE DEF x, y, c, e
      <4>2. x = y /\ c = e BY ONLY <4>1, LastTold
      <4> QED BY <4>2 DEF x, y, c, e
    <3>11. Same(u, w) BY <1>2, <3>2, <3>10
    <3>12. Agree(f, g) BY <3>7, <3>10 DEF Agree
    <3> QED BY <3>2, <3>11, <3>12, SameLonger
  <2> QED BY <2>1, <2>2
<1> HIDE DEF Q
<1>3. Seq(Filed) \subseteq Q BY <1>1, <1>2, SeqInduction
<1> QED BY <1>3 DEF Q

\* Files that say the same are fed alike.
LEMMA FedOfSame ==
  ASSUME NEW s \in Seq(Filed), NEW t \in Seq(Filed), Same(s, t)
  PROVE  Fed(s) = Fed(t)
<1> DEFINE m == Len(s)
<1>1. PICK f : Folds(f, Fedness, <<>>, Feeding, s) /\ Fed(s) = f[m] BY FedFolds
<1>2. PICK g : Folds(g, Fedness, <<>>, Feeding, t) /\ Fed(t) = g[Len(t)] BY FedFolds
<1>3. m = Len(t) /\ m \in Nat BY LenProperties DEF Same
<1>4. /\ f \in [0..m -> Fedness] /\ f[0] = <<>>
      /\ \A n \in 1..m : f[n] = Feeding[f[n - 1]][s[n]]
  BY <1>1 DEF Folds
<1>5. g[0] = <<>> /\ \A n \in 1..m : g[n] = Feeding[g[n - 1]][t[n]] BY <1>2, <1>3 DEF Folds
<1>6. ASSUME NEW n \in 1..m, f[n - 1] = g[n - 1] PROVE f[n] = g[n]
  <2>1. Agree(s[n], t[n]) BY DEF Same
  <2>2. HashSchemaFile(s[n][1], s[n][2]) = HashSchemaFile(t[n][1], t[n][2])
    BY <2>1 DEF Agree, HashSchemaFile
  <2>3. s[n] \in Filed /\ t[n] \in Filed /\ f[n - 1] \in Fedness
    BY <1>3, <1>4, ElementOfSeq
  <2>4. /\ Feeding[f[n - 1]][s[n]] = f[n - 1] \o HashSchemaFile(s[n][1], s[n][2])
        /\ Feeding[f[n - 1]][t[n]] = f[n - 1] \o HashSchemaFile(t[n][1], t[n][2])
    BY <2>3 DEF Feeding
  <2> QED BY <1>4, <1>5, <1>6, <2>2, <2>4
<1> HIDE DEF m
<1>7. Parallel(f, g, m) BY <1>4, <1>5, <1>6 DEF Parallel
<1>8. m \in 0..m BY <1>3
<1> QED BY <1>1, <1>2, <1>3, <1>7, <1>8, Alike

\* The paths of a directory, in their order: all of them, and nothing else.
LEMMA Listed ==
  ASSUME NEW S, IsFiniteSet(S), S \subseteq Bare
  PROVE  LET paths == InOrder(S, Before)
         IN /\ paths \in Seq(S) /\ Len(paths) \in Nat
            /\ S = {paths[i] : i \in 1..Len(paths)}
<1> DEFINE n == Cardinality(S)
           Chosen(s) == \A i, j \in 1..n : i < j => Before(s[i], s[j])
           paths == CHOOSE s \in [1..n -> S] : Chosen(s)
<1>1. PICK R : Ordered(S, R) /\ \A l, r \in S : <<l, r>> \in R <=> Before(l, r)
  BY PathsOrdered DEF Bare
<1>2. PICK some : Lined(some, S, R) BY <1>1, OrderExists
<1> HIDE DEF n
<1>3. ASSUME NEW s \in [1..n -> S]
      PROVE  Chosen(s) <=> \A i, j \in 1..n : i < j => <<s[i], s[j]>> \in R
  <2>1. \A i \in 1..n : s[i] \in S OBVIOUS
  <2> QED BY <1>1, <2>1
<1>4. \E s \in [1..n -> S] : Chosen(s)
  <2>1. some \in [1..n -> S] /\ \A i, j \in 1..n : i < j => <<some[i], some[j]>> \in R
    BY <1>2 DEF Lined, n
  <2> QED BY <1>3, <2>1
<1>5. paths = InOrder(S, Before) BY DEF InOrder, n
<1>6. paths \in [1..n -> S] /\ Chosen(paths)
  <2> HIDE DEF Chosen
  <2> QED BY <1>4
<1> HIDE DEF paths
<1>7. \A i, j \in 1..n : i < j => <<paths[i], paths[j]>> \in R BY <1>3, <1>6
<1>8. Lined(paths, S, R) BY <1>6, <1>7 DEF n, Lined
<1>9. /\ paths \in Seq(S) /\ Len(paths) = n
      /\ \A x \in S : \E i \in 1..Len(paths) : paths[i] = x
  BY <1>1, <1>8, AllInOrder DEF n
<1>10. Len(paths) \in Nat BY <1>9, LenProperties
<1>11. S = {paths[i] : i \in 1..Len(paths)} BY <1>6, <1>9
<1> QED BY <1>5, <1>9, <1>10, <1>11

\* The files of a directory, by their paths.
LEMMA FilesOf ==
  ASSUME NEW d, IsDirectory(d)
  PROVE  LET paths == InOrder(DOMAIN d, Before)
         IN /\ Files(d) \in Seq(Filed)
            /\ Len(Files(d)) = Len(paths)
            /\ DOMAIN d = {paths[i] : i \in 1..Len(paths)}
            /\ \A i \in 1..Len(paths) : Files(d)[i] = <<paths[i], d[paths[i]]>>
            /\ \A i \in 1..Len(paths) : paths[i] \in DOMAIN d
            /\ \A path \in DOMAIN d : d[path] \in FileType
<1> DEFINE paths == InOrder(DOMAIN d, Before)
           L == Len(paths)
<1>1. IsFiniteSet(DOMAIN d) /\ DOMAIN d \subseteq Bare BY DEF IsDirectory, Bare
<1>2. /\ paths \in Seq(DOMAIN d) /\ L \in Nat
      /\ DOMAIN d = {paths[i] : i \in 1..L}
  BY <1>1, Listed
<1>3. Files(d) = [i \in 1..L |-> <<paths[i], d[paths[i]]>>] BY DEF Files
<1>4. \A path \in DOMAIN d : d[path] \in FileType
  <2> SUFFICES ASSUME NEW path \in DOMAIN d PROVE d[path] \in FileType OBVIOUS
  <2> DEFINE members == d[path].members
  <2>1. /\ d[path] \in [members : Seq(Char \X Char), rest : Seq(Char)]
        /\ \A i, j \in DOMAIN members : i # j => members[i][1] # members[j][1]
    BY DEF IsDirectory
  <2>2. members \in Seq(Char \X Char) BY <2>1
  <2> HIDE DEF members
  <2>3. DOMAIN members = 1..Len(members) BY <2>2, LenProperties
  <2>4. members \in Contents BY <2>1, <2>2, <2>3 DEF Contents, Member
  <2> QED BY <2>1, <2>4 DEF members, FileType, Bare
<1> HIDE DEF paths
<1>5. \A i \in 1..L : paths[i] \in DOMAIN d BY <1>2
<1> HIDE DEF L
<1>6. \A i \in 1..L : <<paths[i], d[paths[i]]>> \in Filed BY <1>1, <1>4, <1>5 DEF Filed
<1>7. Files(d) \in [1..L -> Filed] BY <1>3, <1>6
<1>8. Files(d) \in Seq(Filed) BY <1>2, <1>7, SeqDef
<1>9. Len(Files(d)) = L
  <2>1. DOMAIN Files(d) = 1..L BY <1>7
  <2>2. Len(Files(d)) \in Nat /\ DOMAIN Files(d) = 1..Len(Files(d)) BY <1>8, LenProperties
  <2> HIDE DEF Files
  <2> QED BY <1>2, <2>1, <2>2
<1>10. \A i \in 1..L : Files(d)[i] = <<paths[i], d[paths[i]]>> BY <1>3
<1>11. L = Len(paths) BY DEF L
<1> QED BY <1>2, <1>4, <1>5, <1>8, <1>9, <1>10, <1>11 DEF paths

\* Whatever is generated: directories of the same digest have the same files, which say the
\* same, and directories that have them have the same digest, however many files there are
\* and however long their names and contents.
THEOREM DigestsTell ==
  ASSUME NEW one, NEW other, IsDirectory(one), IsDirectory(other)
  PROVE  Tells(one, other)
<1> DEFINE p == InOrder(DOMAIN one, Before)
           q == InOrder(DOMAIN other, Before)
           a == Files(one)
           b == Files(other)
<1>1. /\ a \in Seq(Filed) /\ Len(a) = Len(p)
      /\ DOMAIN one = {p[i] : i \in 1..Len(p)}
      /\ \A i \in 1..Len(p) : a[i] = <<p[i], one[p[i]]>> /\ p[i] \in DOMAIN one
      /\ \A path \in DOMAIN one : one[path] \in FileType
  BY FilesOf
<1>2. /\ b \in Seq(Filed) /\ Len(b) = Len(q)
      /\ DOMAIN other = {q[i] : i \in 1..Len(q)}
      /\ \A i \in 1..Len(q) : b[i] = <<q[i], other[q[i]]>> /\ q[i] \in DOMAIN other
      /\ \A path \in DOMAIN other : other[path] \in FileType
  BY FilesOf
<1>3. Stream(one) = Fed(a) /\ Stream(other) = Fed(b) BY DEF Stream
<1>4. DOMAIN one = DOMAIN other => p = q OBVIOUS
<1> HIDE DEF p, q, a, b
<1>5. Stream(one) = Stream(other) <=> Same(a, b) BY <1>1, <1>2, <1>3, FedTells, FedOfSame
<1>6. ASSUME Same(a, b)
      PROVE  /\ DOMAIN one = DOMAIN other
             /\ \A path \in DOMAIN one : SaysSame(path, one[path], other[path])
  <2>1. Len(p) = Len(q) BY <1>1, <1>2, <1>6 DEF Same
  <2>2. ASSUME NEW i \in 1..Len(p)
        PROVE  p[i] = q[i] /\ SaysSame(p[i], one[p[i]], other[p[i]])
    <3>1. a[i] = <<p[i], one[p[i]]>> /\ b[i] = <<q[i], other[q[i]]>> BY <1>1, <1>2, <2>1
    <3>2. Agree(a[i], b[i]) BY <1>1, <1>6 DEF Same
    <3>3. /\ p[i] = q[i]
          /\ CanonicalContent(p[i], one[p[i]]) = CanonicalContent(p[i], other[p[i]])
      BY <3>1, <3>2 DEF Agree
    <3>4. one[p[i]] \in FileType /\ other[p[i]] \in FileType BY <1>1, <1>2, <2>1, <3>3
    <3> QED BY <3>3, <3>4, ContentTells
  <2>3. DOMAIN one = DOMAIN other BY <1>1, <1>2, <2>1, <2>2
  <2> QED BY <1>1, <2>2, <2>3
<1>7. ASSUME DOMAIN one = DOMAIN other,
             \A path \in DOMAIN one : SaysSame(path, one[path], other[path])
      PROVE  Same(a, b)
  <2>1. p = q BY <1>4, <1>7
  <2>2. ASSUME NEW i \in 1..Len(a)
        PROVE  Agree(a[i], b[i])
    <3>1. i \in 1..Len(p) /\ i \in 1..Len(q) BY <1>1, <2>1
    <3>2. a[i] = <<p[i], one[p[i]]>> /\ b[i] = <<p[i], other[p[i]]>> /\ p[i] \in DOMAIN one
      BY <1>1, <1>2, <2>1, <3>1
    <3>3. one[p[i]] \in FileType /\ other[p[i]] \in FileType BY <1>1, <1>2, <1>7, <3>2
    <3>4. SaysSame(p[i], one[p[i]], other[p[i]]) BY <1>7, <3>2
    <3>5. CanonicalContent(p[i], one[p[i]]) = CanonicalContent(p[i], other[p[i]])
      BY <3>3, <3>4, ContentTells
    <3> QED BY <3>2, <3>5 DEF Agree
  <2>3. Len(a) = Len(b) BY <1>1, <1>2, <2>1
  <2> QED BY <2>2, <2>3 DEF Same
<1> QED BY <1>5, <1>6, <1>7 DEF Tells

-----------------------------------------------------------------------------
(* The compatibility checks: the first that fails, versions and routes.    *)

\* A list of checks either holds as a whole, or what it is called by is the code of a check
\* that fails while those before it hold (Verify, CheckMetadata).
LEMMA FirstFails ==
  ASSUME NEW checks, DOMAIN checks \subseteq Nat
  PROVE  \/ /\ \A i \in DOMAIN checks : checks[i][1]
            /\ FirstFailure(checks) = "compatible"
         \/ \E i \in DOMAIN checks :
               /\ ~checks[i][1] /\ FirstFailure(checks) = checks[i][2]
               /\ \A j \in DOMAIN checks : j < i => checks[j][1]
<1> DEFINE failed == {i \in DOMAIN checks : ~checks[i][1]}
<1>1. CASE failed = {} BY <1>1 DEF FirstFailure
<1>2. CASE failed # {}
  <2>1. Min(failed) \in failed /\ \A x \in failed : Min(failed) <= x BY <1>2, Least
  <2>2. \A j \in DOMAIN checks : j < Min(failed) => checks[j][1] BY <2>1
  <2> QED BY <1>2, <2>1, <2>2 DEF FirstFailure
<1> QED BY <1>1, <1>2

-----------------------------------------------------------------------------
(* Codex and the invocation service.                                       *)

\* CommandAppMetadata.Metadata fails with a code of something that is wrong with Codex.
LEMMA AppNames ==
  ASSUME NEW known, NEW codex
  PROVE \/ /\ AppMetadata(known, codex) = "compatible"
           /\ codex.bin /\ codex.version = "named" /\ codex.generates /\ codex.wellFormed
           /\ known.files \subseteq codex.files
        \/ AppMetadata(known, codex) = "codex_missing" /\ (~codex.bin \/ codex.version # "named")
        \/ /\ AppMetadata(known, codex) = "app_protocol_drift"
           /\ ~codex.generates \/ ~codex.wellFormed \/ ~(known.files \subseteq codex.files)
<1> DEFINE checks == <<
        <<codex.bin, "codex_missing">>,
        <<codex.version = "named", "codex_missing">>,
        <<codex.generates, "app_protocol_drift">>,
        <<known.files \subseteq codex.files, "app_protocol_drift">>,
        <<codex.wellFormed, "app_protocol_drift">>>>
<1>1. DOMAIN checks = 1..5 OBVIOUS
<1>2. AppMetadata(known, codex) = FirstFailure(checks) BY DEF AppMetadata
<1>3. /\ checks[1][1] <=> codex.bin
      /\ checks[2][1] <=> codex.version = "named"
      /\ checks[3][1] <=> codex.generates
      /\ checks[4][1] <=> known.files \subseteq codex.files
      /\ checks[5][1] <=> codex.wellFormed
  OBVIOUS
<1>4. /\ checks[1][2] = "codex_missing"
      /\ checks[2][2] = "codex_missing"
      /\ checks[3][2] = "app_protocol_drift"
      /\ checks[4][2] = "app_protocol_drift"
      /\ checks[5][2] = "app_protocol_drift"
  OBVIOUS
<1> HIDE DEF checks
<1>5. CASE (\A i \in DOMAIN checks : checks[i][1]) /\ FirstFailure(checks) = "compatible"
  BY <1>1, <1>2, <1>3, <1>5
<1>6. ASSUME NEW i \in DOMAIN checks, ~checks[i][1], FirstFailure(checks) = checks[i][2]
      PROVE \/ /\ AppMetadata(known, codex) = "codex_missing"
               /\ ~codex.bin \/ codex.version # "named"
            \/ /\ AppMetadata(known, codex) = "app_protocol_drift"
               /\ ~codex.generates \/ ~codex.wellFormed \/ ~(known.files \subseteq codex.files)
  BY <1>1, <1>2, <1>3, <1>4, <1>6
<1> QED BY <1>1, <1>5, <1>6, FirstFails

\* The routes of valid metadata are the published ones in some order: none is foreign, none
\* twice and their number right, so that none is missing (Metadata.Validate).
LEMMA RoutesAreAll ==
  ASSUME NEW published, IsFiniteSet(published), published # {},
         NEW metadata, NEW R, metadata.routes \in Seq(R)
  PROVE  ValidMetadata(published, metadata)
            <=> \E p \in SetToSeqs(published) : p = metadata.routes
<1> DEFINE routes == metadata.routes
           n == Cardinality(published)
<1>1. n \in Nat /\ n > 0 BY FS_CardinalityType, FS_EmptySet
<1>2. routes \in [1..Len(routes) -> R] /\ Len(routes) \in Nat /\ DOMAIN routes = 1..Len(routes)
  OBVIOUS
<1>3. ASSUME ValidMetadata(published, metadata)
      PROVE  routes \in SetToSeqs(published)
  <2>1. /\ ToSet(routes) \subseteq published
        /\ IsInjective(routes) /\ Len(routes) = n
    BY <1>3 DEF ValidMetadata, ValidRoutes
  <2>2. routes \in [1..n -> published] BY <1>2, <2>1 DEF ToSet
  <2>3. \A i, j \in 1..n : i # j => routes[i] # routes[j] BY <1>2, <2>1 DEF IsInjective
  <2> QED BY <2>2, <2>3 DEF SetToSeqs
<1>4. ASSUME routes \in SetToSeqs(published)
      PROVE  ValidMetadata(published, metadata)
  <2>1. /\ routes \in [1..n -> published]
        /\ \A i, j \in 1..n : i # j => routes[i] # routes[j]
    BY <1>4 DEF SetToSeqs
  <2>2. Len(routes) = n BY <1>1, <1>2, <2>1
  <2>3. IsInjective(routes) BY <2>1 DEF IsInjective
  <2>4. routes \in Injection(1..n, published) BY <2>1, <2>3 DEF Injection
  <2>5. IsFiniteSet(1..n) /\ Cardinality(1..n) = n BY <1>1, FS_Interval
  <2>6. routes \in Surjection(1..n, published) BY <2>4, <2>5, FS_Injection
  <2>7. \A r \in published : \E i \in 1..n : routes[i] = r BY <2>6 DEF Surjection
  <2>8. ToSet(routes) = published BY <1>2, <2>1, <2>2, <2>7 DEF ToSet
  <2>9. routes # <<>> BY <1>1, <2>2
  <2> QED BY <2>2, <2>3, <2>8, <2>9 DEF ValidMetadata, ValidRoutes
<1> QED BY <1>3, <1>4

\* The code of a version that is not accepted says on which side of the oldest accepted one
\* it lies (CheckContractVersion).
LEMMA VersionNames ==
  ASSUME NEW required, required.versions \subseteq Versions, RequireVersions(required.versions),
         NEW version \in Versions
  PROVE  LET code == CheckContractVersion(required, version)
             unaccepted == version \notin required.versions /\ ~Odd(version)
             below == \A n \in Numbers(required) : VersionNumber(version) < n
         IN \/ code = "compatible" /\ ~unaccepted /\ ~(Odd(version))
            \/ code = "metadata_malformed" /\ Odd(version)
            \/ code = "contract_too_old" /\ unaccepted /\ below
            \/ code = "contract_too_new" /\ unaccepted /\ ~below
<1> DEFINE oldest == Min(Numbers(required))
<1>1. Numbers(required) \subseteq Nat /\ Numbers(required) # {}
  BY DEF Numbers, VersionNumber, Versions, RequireVersions
<1>2. oldest \in Numbers(required) /\ \A n \in Numbers(required) : oldest <= n BY <1>1, Least
<1>3. VersionNumber(version) \in Int BY DEF VersionNumber, Versions
<1>4. VersionNumber(version) < oldest
         <=> \A n \in Numbers(required) : VersionNumber(version) < n
  <2> HIDE DEF oldest
  <2> QED BY <1>1, <1>2, <1>3
<1>5. version \in required.versions => ~Odd(version) BY DEF RequireVersions, Odd
<1>6. CheckContractVersion(required, version)
         = IF version \in required.versions THEN "compatible"
           ELSE IF Odd(version) THEN "metadata_malformed"
           ELSE IF VersionNumber(version) < oldest THEN "contract_too_old"
           ELSE "contract_too_new"
  BY DEF CheckContractVersion, Numbers
<1> HIDE DEF oldest
<1> QED BY <1>4, <1>5, <1>6

\* Valid requirements name published routes, and at least one (ValidateRoutes).
LEMMA RequiredRoutes ==
  ASSUME NEW required, NEW known, NEW R,
         Validate(required, known), required.routes \in Seq(R)
  PROVE  ToSet(required.routes) \subseteq known.routes /\ known.routes # {}
<1>1. required.routes # <<>> /\ ToSet(required.routes) \subseteq known.routes
  BY DEF Validate, ValidRoutes
<1>2. 1 \in DOMAIN required.routes BY <1>1
<1> QED BY <1>1, <1>2 DEF ToSet

\* CheckMetadata gives no code but of something that is wrong with the metadata: in
\* particular never route_missing, since the routes are all there by then.
LEMMA MetadataNames ==
  ASSUME NEW required, NEW known, NEW metadata, NEW R,
         Validate(required, known), IsFiniteSet(known.routes),
         required.versions \subseteq Versions, metadata.version \in Versions,
         required.routes \in Seq(R), metadata.routes \in Seq(R)
  PROVE  Names(CheckMetadata(required, known, metadata),
               WrongWithMetadata(required, known, metadata))
<1> DEFINE version == CheckContractVersion(required, metadata.version)
           unaccepted == metadata.version \notin required.versions /\ ~Odd(metadata.version)
           below == \A n \in Numbers(required) : VersionNumber(metadata.version) < n
           asPublished == ValidMetadata(known.routes, metadata)
           malformed == \/ Odd(metadata.version) \/ metadata.digest = "odd"
                        \/ metadata.features = {} \/ metadata.features \ known.features # {}
                        \/ ~asPublished
           wrong == WrongWithMetadata(required, known, metadata)
           checks == <<
             <<ValidMetadata(known.routes, metadata), "metadata_malformed">>,
             <<version = "compatible", version>>,
             <<RequireDigest(metadata.digest), "metadata_malformed">>,
             <<metadata.digest \in required.digests, "schema_digest_unaccepted">>,
             <<RequireFeatures(known, metadata.features), "metadata_malformed">>,
             <<required.features \subseteq metadata.features, "feature_missing">>,
             <<ToSet(required.routes) \subseteq ToSet(metadata.routes), "route_missing">>>>
<1>1. DOMAIN checks = 1..7 OBVIOUS
<1>2. CheckMetadata(required, known, metadata) = FirstFailure(checks) BY DEF CheckMetadata
<1>3. /\ checks[1][1] <=> asPublished
      /\ checks[2][1] <=> version = "compatible"
      /\ checks[3][1] <=> metadata.digest # "odd"
      /\ checks[4][1] <=> metadata.digest \in required.digests
      /\ checks[5][1] <=> metadata.features # {} /\ metadata.features \subseteq known.features
      /\ checks[6][1] <=> required.features \subseteq metadata.features
      /\ checks[7][1] <=> ToSet(required.routes) \subseteq ToSet(metadata.routes)
  BY DEF RequireDigest, RequireFeatures
<1>4. /\ checks[1][2] = "metadata_malformed"
      /\ checks[2][2] = version
      /\ checks[3][2] = "metadata_malformed"
      /\ checks[4][2] = "schema_digest_unaccepted"
      /\ checks[5][2] = "metadata_malformed"
      /\ checks[6][2] = "feature_missing"
      /\ checks[7][2] = "route_missing"
  OBVIOUS
<1>5. \/ version = "compatible" /\ ~unaccepted /\ ~Odd(metadata.version)
      \/ version = "metadata_malformed" /\ Odd(metadata.version)
      \/ version = "contract_too_old" /\ unaccepted /\ below
      \/ version = "contract_too_new" /\ unaccepted /\ ~below
  BY VersionNames DEF Validate
<1>6. ToSet(required.routes) \subseteq known.routes /\ known.routes # {} BY RequiredRoutes
<1>7. asPublished <=> \E p \in SetToSeqs(known.routes) : p = metadata.routes
  BY <1>6, RoutesAreAll
<1>8. asPublished => ToSet(required.routes) \subseteq ToSet(metadata.routes)
  BY <1>6 DEF ValidMetadata
<1>9. /\ "metadata_malformed" \in wrong <=> malformed
      /\ "contract_too_old" \in wrong <=> unaccepted /\ below
      /\ "contract_too_new" \in wrong <=> unaccepted /\ ~below
      /\ "schema_digest_unaccepted" \in wrong <=> metadata.digest \notin required.digests
      /\ "feature_missing" \in wrong <=> required.features \ metadata.features # {}
      /\ wrong \subseteq {"metadata_malformed", "contract_too_old", "contract_too_new",
                          "schema_digest_unaccepted", "feature_missing"}
  BY <1>7 DEF WrongWithMetadata
<1> HIDE DEF checks, version, unaccepted, below, asPublished, wrong
<1>10. CASE (\A i \in DOMAIN checks : checks[i][1]) /\ FirstFailure(checks) = "compatible"
  BY <1>1, <1>2, <1>3, <1>5, <1>9, <1>10 DEF Names, wrong
<1>11. ASSUME NEW i \in DOMAIN checks, ~checks[i][1], FirstFailure(checks) = checks[i][2],
              \A j \in DOMAIN checks : j < i => checks[j][1]
       PROVE  FirstFailure(checks) \in wrong
  BY <1>1, <1>3, <1>4, <1>5, <1>8, <1>9, <1>11
<1>12. CASE FirstFailure(checks) \in wrong BY <1>2, <1>12 DEF Names, wrong
<1>13. DOMAIN checks \subseteq Nat BY <1>1
<1> QED BY <1>13, <1>10, <1>11, <1>12, FirstFails

\* Routes that are not valid are wrong on their own account.
LEMMA MalformedRoutes ==
  ASSUME NEW required, NEW known, NEW metadata, NEW R,
         Validate(required, known), IsFiniteSet(known.routes),
         required.routes \in Seq(R), metadata.routes \in Seq(R),
         ~ValidMetadata(known.routes, metadata)
  PROVE  "metadata_malformed" \in WrongWithMetadata(required, known, metadata)
<1>1. known.routes # {} BY RequiredRoutes
<1>2. ~\E p \in SetToSeqs(known.routes) : p = metadata.routes BY <1>1, RoutesAreAll
<1> QED BY <1>2 DEF WrongWithMetadata

\* Client.Metadata tells a service that does not answer from one that answers oddly.
LEMMA ServiceNames ==
  ASSUME NEW known, NEW service, service.answer \in {"none", "odd", "metadata"}
  PROVE  LET code == ReadMetadata(known, service)
         IN \/ /\ code = "compatible" /\ service.answer = "metadata"
               /\ ValidMetadata(known.routes, service.metadata)
            \/ code = "endpoint_unavailable" /\ service.answer = "none"
            \/ code = "metadata_malformed" /\ service.answer = "odd"
            \/ /\ code = "metadata_malformed" /\ service.answer = "metadata"
               /\ ~ValidMetadata(known.routes, service.metadata)
<1> DEFINE code == ReadMetadata(known, service)
           asPublished == ValidMetadata(known.routes, service.metadata)
           checks == <<
             <<service.answer # "none", "endpoint_unavailable">>,
             <<service.answer = "metadata", "metadata_malformed">>,
             <<ValidMetadata(known.routes, service.metadata), "metadata_malformed">>>>
<1>1. DOMAIN checks = 1..3 /\ DOMAIN checks \subseteq Nat OBVIOUS
<1>2. code = FirstFailure(checks) BY DEF ReadMetadata
<1>3. /\ checks[1][1] <=> service.answer # "none"
      /\ checks[2][1] <=> service.answer = "metadata"
      /\ checks[3][1] <=> asPublished
  OBVIOUS
<1>4. /\ checks[1][2] = "endpoint_unavailable"
      /\ checks[2][2] = "metadata_malformed"
      /\ checks[3][2] = "metadata_malformed"
  OBVIOUS
<1> HIDE DEF checks, code, asPublished
<1>5. CASE (\A i \in DOMAIN checks : checks[i][1]) /\ FirstFailure(checks) = "compatible"
  BY <1>1, <1>2, <1>3, <1>5 DEF code, asPublished
<1>6. ASSUME NEW i \in DOMAIN checks, ~checks[i][1], FirstFailure(checks) = checks[i][2],
              \A j \in DOMAIN checks : j < i => checks[j][1]
      PROVE  \/ code = "endpoint_unavailable" /\ service.answer = "none"
             \/ code = "metadata_malformed" /\ service.answer = "odd"
             \/ code = "metadata_malformed" /\ service.answer = "metadata" /\ ~asPublished
  BY <1>1, <1>2, <1>3, <1>4, <1>6
<1> QED BY <1>1, <1>5, <1>6, FirstFails DEF code, asPublished

\* Verify finds the driver compatible exactly if nothing is wrong, and otherwise names
\* something that is.
LEMMA VerifyNames ==
  ASSUME NEW required, NEW known, NEW codex, NEW service, NEW Served,
         Shaped(required, known, service, Served)
  PROVE  Names(Verify(required, known, codex, service), Wrong(required, known, codex, service))
<1> DEFINE verified == Verify(required, known, codex, service)
           wrong == Wrong(required, known, codex, service)
           asked == WrongWithMetadata(required, known, service.metadata)
           app == AppMetadata(known, codex)
           fits == CheckApp(required, known)
           answer == ReadMetadata(known, service)
           checked == CheckMetadata(required, known, service.metadata)
           codes == <<app, fits, answer, checked>>
           checks == [i \in DOMAIN codes |-> <<codes[i] = "compatible", codes[i]>>]
<1>a. CASE ~Validate(required, known)
  <2>1. verified = "metadata_malformed" BY <1>a DEF Verify
  <2>2. "metadata_malformed" \in wrong BY <1>a DEF Wrong
  <2> QED BY <2>1, <2>2 DEF Names
<1>b. CASE Validate(required, known)
  <2>1. DOMAIN codes = 1..4 OBVIOUS
  <2>2. codes[1] = app /\ codes[2] = fits /\ codes[3] = answer /\ codes[4] = checked OBVIOUS
  <2>3. verified = FirstFailure(checks) BY <1>b DEF Verify
  <2> HIDE DEF codes
  <2>a. /\ DOMAIN checks = 1..4 /\ DOMAIN checks \subseteq Nat
        /\ \A i \in 1..4 : checks[i] = <<codes[i] = "compatible", codes[i]>>
    BY <2>1
  <2> HIDE DEF checks
  <2>b. ASSUME NEW i \in 1..4
        PROVE  (checks[i][1] <=> codes[i] = "compatible") /\ checks[i][2] = codes[i]
    <3>1. checks[i] = <<codes[i] = "compatible", codes[i]>> BY <2>a
    <3>2. checks[i][2] = codes[i] BY <3>1
    <3>3. CASE codes[i] = "compatible"
      <4>1. checks[i] = <<TRUE, codes[i]>> BY <3>1, <3>3
      <4> QED BY <3>2, <3>3, <4>1
    <3>4. CASE codes[i] # "compatible"
      <4>1. checks[i] = <<FALSE, codes[i]>> BY <3>1, <3>4
      <4> QED BY <3>2, <3>4, <4>1
    <3> QED BY <3>3, <3>4
  <2>c. "compatible" \notin asked BY DEF WrongWithMetadata
  <2>4. Names(checked, asked) BY <1>b, MetadataNames DEF Shaped
  <2>5. asked # {} /\ service.answer = "metadata" => asked \subseteq wrong BY DEF Wrong
  <2> DEFINE unfit == \/ required.files \ known.files # {}
                      \/ required.methods \ known.methods # {}
                      \/ required.notifications \ known.notifications # {}
             drift == \/ ~codex.generates \/ ~codex.wellFormed
                      \/ ~(known.files \subseteq codex.files) \/ unfit
             missing == ~codex.bin \/ codex.version # "named"
  <2>6. wrong = UNION {IF missing THEN {"codex_missing"} ELSE {},
                       IF drift THEN {"app_protocol_drift"} ELSE {},
                       IF service.answer = "none" THEN {"endpoint_unavailable"} ELSE {},
                       IF service.answer = "odd" THEN {"metadata_malformed"} ELSE {},
                       IF service.answer = "metadata" THEN asked ELSE {}}
    BY <1>b DEF Wrong
  <2>7. \/ fits = "compatible" /\ ~unfit
        \/ fits = "app_protocol_drift" /\ unfit
    BY DEF CheckApp
  <2>8. \/ app = "compatible" /\ ~missing /\ (drift => unfit)
        \/ app = "codex_missing" /\ missing
        \/ app = "app_protocol_drift" /\ drift
    BY AppNames
  <2>9. \/ answer = "compatible" /\ service.answer = "metadata"
        \/ answer = "endpoint_unavailable" /\ service.answer = "none"
        \/ answer = "metadata_malformed" /\ service.answer = "odd"
        \/ /\ answer = "metadata_malformed" /\ service.answer = "metadata"
           /\ "metadata_malformed" \in asked
    <3>1. CASE ValidMetadata(known.routes, service.metadata) BY <3>1, ServiceNames DEF Shaped
    <3>2. CASE ~ValidMetadata(known.routes, service.metadata)
      <4>1. "metadata_malformed" \in asked BY <1>b, <3>2, MalformedRoutes DEF Shaped
      <4> QED BY <3>2, <4>1, ServiceNames DEF Shaped
    <3> QED BY <3>1, <3>2
  <2> HIDE DEF verified, wrong, asked, app, fits, answer, checked, unfit, drift, missing
  <2>10. CASE (\A i \in DOMAIN checks : checks[i][1]) /\ FirstFailure(checks) = "compatible"
    <3>1. /\ app = "compatible" /\ fits = "compatible"
          /\ answer = "compatible" /\ checked = "compatible"
      BY <2>a, <2>b, <2>2, <2>10
    <3>2. asked = {} BY <2>4, <2>c, <3>1 DEF Names
    <3>3. wrong = {} BY <2>6, <2>7, <2>8, <2>9, <3>1, <3>2
    <3> QED BY <2>3, <2>10, <3>3 DEF Names, verified, wrong
  <2>11. ASSUME NEW i \in DOMAIN checks, ~checks[i][1], FirstFailure(checks) = checks[i][2],
                \A j \in DOMAIN checks : j < i => checks[j][1]
         PROVE  FirstFailure(checks) \in wrong
    <3>1. CASE i = 1 BY <2>a, <2>b, <2>2, <2>6, <2>8, <2>11, <3>1
    <3>2. CASE i = 2 BY <2>a, <2>b, <2>2, <2>6, <2>7, <2>11, <3>2 DEF drift
    <3>3. CASE i = 3 BY <2>a, <2>b, <2>2, <2>6, <2>9, <2>11, <3>3
    <3>4. CASE i = 4
      <4>1. checks[3][1] /\ codes[3] = "compatible" BY <2>a, <2>b, <2>11, <3>4
      <4>2. service.answer = "metadata" BY <2>2, <2>9, <4>1
      <4>3. checked # "compatible" /\ FirstFailure(checks) = checked
        BY <2>a, <2>b, <2>2, <2>11, <3>4
      <4>4. checked \in asked BY <2>4, <4>3 DEF Names
      <4> QED BY <2>5, <4>2, <4>3, <4>4
    <3> QED BY <2>a, <2>b, <2>11, <3>1, <3>2, <3>3, <3>4
  <2>12. CASE FirstFailure(checks) \in wrong BY <2>3, <2>12 DEF Names, verified, wrong
  <2> QED BY <2>a, <2>b, <2>10, <2>11, <2>12, FirstFails
<1> QED BY <1>a, <1>b

-----------------------------------------------------------------------------
(* The verdict.                                                            *)

\* What doctor finds wrong with Codex before it asks for the daemon is wrong
\* (cmd/driver, appMetadata).
LEMMA AppWrong ==
  ASSUME NEW required, NEW known, NEW codex, NEW service
  PROVE  LET found == AppMetadata(known, codex)
             fits == CheckApp(required, known)
             app == FirstFailure(<<<<found = "compatible", found>>,
                                   <<fits = "compatible", fits>>>>)
         IN app # "compatible" => app \in Wrong(required, known, codex, service)
<1> DEFINE found == AppMetadata(known, codex)
           fits == CheckApp(required, known)
           checks == <<<<found = "compatible", found>>, <<fits = "compatible", fits>>>>
           wrong == Wrong(required, known, codex, service)
<1>1. DOMAIN checks = 1..2 /\ DOMAIN checks \subseteq Nat OBVIOUS
<1>2. /\ checks[1][1] <=> found = "compatible"
      /\ checks[2][1] <=> fits = "compatible"
      /\ checks[1][2] = found /\ checks[2][2] = fits
  OBVIOUS
<1>3. found # "compatible" => found \in wrong BY AppNames DEF Wrong
<1>4. fits # "compatible" => fits \in wrong BY DEF CheckApp, Wrong
<1> HIDE DEF checks, found, fits, wrong
<1>5. FirstFailure(checks) # "compatible" => FirstFailure(checks) \in wrong
  BY <1>1, <1>2, <1>3, <1>4, FirstFails
<1> QED BY <1>5 DEF checks, found, fits, wrong

\* doctor names something that is wrong as well, at home or elsewhere, but overlooks that a
\* record it can read is not current (diagnose, runDiagnostic).
LEMMA DoctorNames ==
  ASSUME NEW required, NEW known, NEW record, NEW codex, NEW daemon, NEW service, NEW Served,
         Shaped(required, known, service, Served)
  PROVE  Names(Doctor(required, known, record, codex, daemon, service),
               (Wrong(required, known, codex, service)
                  \cup WrongAtHome(required, record, daemon)) \ Overlooked(required, record))
<1> DEFINE verified == Verify(required, known, codex, service)
           doctor == Doctor(required, known, record, codex, daemon, service)
           wrong == Wrong(required, known, codex, service)
           home == WrongAtHome(required, record, daemon)
           unseen == Overlooked(required, record)
           current == Current(required, record)
           valid == Validate(required, known)
           readable == Readable(required, record)
           found == AppMetadata(known, codex)
           fits == CheckApp(required, known)
           app == FirstFailure(<<<<found = "compatible", found>>, <<fits = "compatible", fits>>>>)
           obeys == DaemonCommand(daemon, "version")
           checks == <<
             <<record.present, "install_record_upgrade_required">>,
             <<valid, "metadata_malformed">>,
             <<readable, "install_record_upgrade_required">>,
             <<app = "compatible", app>>,
             <<daemon.ready /\ obeys, "metadata_malformed">>,
             <<verified = "compatible", verified>>>>
<1>1. DOMAIN checks = 1..6 /\ DOMAIN checks \subseteq Nat OBVIOUS
<1>2. doctor = FirstFailure(checks) BY DEF Doctor
<1>3. /\ checks[1][1] <=> record.present
      /\ checks[2][1] <=> valid
      /\ checks[3][1] <=> readable
      /\ checks[4][1] <=> app = "compatible"
      /\ checks[5][1] <=> daemon.ready /\ obeys
      /\ checks[6][1] <=> verified = "compatible"
  OBVIOUS
<1>4. /\ checks[1][2] = "install_record_upgrade_required"
      /\ checks[2][2] = "metadata_malformed"
      /\ checks[3][2] = "install_record_upgrade_required"
      /\ checks[4][2] = app
      /\ checks[5][2] = "metadata_malformed"
      /\ checks[6][2] = verified
  OBVIOUS
<1>5. Names(verified, wrong) BY VerifyNames
<1>6. "compatible" \notin wrong /\ "install_record_upgrade_required" \notin wrong
  BY DEF Wrong, WrongWithMetadata
<1>7. /\ "install_record_upgrade_required" \in home <=> ~current
      /\ "metadata_malformed" \in home <=> ~daemon.ready \/ ~obeys
      /\ home \subseteq {"install_record_upgrade_required", "metadata_malformed"}
  BY DEF WrongAtHome, DaemonCommand
<1>a. unseen = IF record.present /\ readable THEN {"install_record_upgrade_required"} ELSE {}
  BY DEF Overlooked
<1>b. current /\ valid => record.present /\ readable
  BY DEF Current, Validate, RequireRecord, Readable, Shaped
<1>8. ~valid => "metadata_malformed" \in wrong BY DEF Wrong
<1>9. app # "compatible" => app \in wrong BY AppWrong
<1> HIDE DEF checks, doctor, wrong, home, unseen, current, valid, readable, app, obeys, verified
<1>10. CASE (\A i \in DOMAIN checks : checks[i][1]) /\ FirstFailure(checks) = "compatible"
  <2>1. /\ record.present /\ valid /\ readable /\ daemon.ready /\ obeys
        /\ verified = "compatible"
    BY <1>1, <1>3, <1>10
  <2>2. wrong = {} BY <1>5, <1>6, <2>1 DEF Names
  <2>3. home \subseteq unseen BY <1>7, <1>a, <2>1
  <2> QED BY <1>2, <1>10, <2>2, <2>3 DEF Names, doctor, wrong, home, unseen
<1>11. ASSUME NEW i \in DOMAIN checks, ~checks[i][1], FirstFailure(checks) = checks[i][2],
              \A j \in DOMAIN checks : j < i => checks[j][1]
       PROVE  FirstFailure(checks) \in (wrong \cup home) \ unseen
  <2>1. CASE i = 1
    <3>1. ~current BY <1>3, <1>11, <2>1 DEF current, Current
    <3> QED BY <1>3, <1>4, <1>7, <1>11, <1>a, <2>1, <3>1
  <2>2. CASE i = 2 BY <1>3, <1>4, <1>8, <1>11, <1>a, <2>2
  <2>3. CASE i = 3
    <3>1. valid /\ ~readable BY <1>1, <1>3, <1>11, <2>3
    <3> QED BY <1>4, <1>7, <1>11, <1>a, <1>b, <2>3, <3>1
  <2>4. CASE i = 4 BY <1>3, <1>4, <1>6, <1>9, <1>11, <1>a, <2>4
  <2>5. CASE i = 5 BY <1>3, <1>4, <1>7, <1>11, <1>a, <2>5
  <2>6. CASE i = 6
    <3>1. verified # "compatible" /\ FirstFailure(checks) = verified BY <1>3, <1>4, <1>11, <2>6
    <3>2. verified \in wrong BY <1>5, <3>1 DEF Names
    <3> QED BY <1>6, <1>a, <3>1, <3>2
  <2> QED BY <1>1, <1>11, <2>1, <2>2, <2>3, <2>4, <2>5, <2>6
<1>12. CASE FirstFailure(checks) \in (wrong \cup home) \ unseen
  BY <1>2, <1>12 DEF Names, doctor, wrong, home, unseen
<1> QED BY <1>1, <1>10, <1>11, <1>12, FirstFails

\* Where nothing is wrong, run comes to its first claim (runCommand).
LEMMA SoundRuns ==
  ASSUME NEW required, NEW known, NEW record, NEW codex, NEW daemon, NEW service, NEW Served,
         Shaped(required, known, service, Served),
         Wrong(required, known, codex, service) \cup WrongAtHome(required, record, daemon) = {}
  PROVE  RunClaims(required, known, record, codex, daemon, service)
<1>1. Wrong(required, known, codex, service) = {} OBVIOUS
<1>2. WrongAtHome(required, record, daemon) = {} OBVIOUS
<1>3. Verify(required, known, codex, service) = "compatible" BY <1>1, VerifyNames DEF Names
<1>4. Validate(required, known) BY <1>1 DEF Wrong
<1>5. Current(required, record) /\ daemon.ready BY <1>2 DEF WrongAtHome
<1> QED BY <1>3, <1>4, <1>5 DEF RunClaims, EnsureDaemon

\* Diagnoses: whatever the requirements, the home, Codex, the daemon and the invocation
\* service are, the code is true but for the older record doctor overlooks, and where
\* nothing is wrong run comes to a claim (Verify, diagnose, runCommand).
THEOREM DiagnosesTruly ==
  ASSUME NEW required, NEW known, NEW record, NEW codex, NEW daemon, NEW service, NEW Served,
         Shaped(required, known, service, Served)
  PROVE  Diagnoses(required, known, record, codex, daemon, service)
BY VerifyNames, DoctorNames, SoundRuns DEF Diagnoses

-----------------------------------------------------------------------------
(* The properties of Algorithms: an input stays what it was.               *)

\* An input is one of those Algorithms is given (Init).
Given ==
    \/ input.kind = "payload" /\ input.payload \in Payloads
    \/ input.kind = "frames" /\ input.frames \in FrameInputs
    \/ input.kind = "paths" /\ input.root \in Roots /\ input.path \in Paths
    \/ input.kind = "directory" /\ input.directory \in Directories
    \/ input.kind = "situation" /\ input.situation \in Situations

\* What is given stays given.
LEMMA AlwaysGiven == Spec => []Given
<1>1. Init => Given BY DEF Init, Given
<1>2. Given /\ [Next]_input => Given' BY DEF Next, Given
<1> QED BY <1>1, <1>2, PTL DEF Spec

\* PointersReach, of every payload of JSON values, whatever its keys contain and however
\* long its arrays are (ExtractPromptText).
THEOREM AlgorithmsPointersReach == Spec => []PointersReach
<1>1. Given => PointersReach
  <2> SUFFICES ASSUME Given, input.kind = "payload" PROVE Reaches(input.payload)
    BY DEF PointersReach
  <2>1. input.payload \in Payloads BY DEF Given
  <2> QED BY <2>1, PayloadsAssumption, PayloadsAreReached
<1> QED BY <1>1, AlwaysGiven, PTL

\* FramesAligned, of every two frames (writeText, readFrame).
THEOREM AlgorithmsFramesAligned == Spec => []FramesAligned
<1>1. Given => FramesAligned
  <2> SUFFICES ASSUME Given, input.kind = "frames"
               PROVE  Aligned(input.frames.opcode, input.frames.length, input.frames.masked,
                              input.frames.next)
    BY DEF FramesAligned
  <2>1. input.frames \in FrameInputs BY DEF Given
  <2>2. /\ input.frames.opcode \in 0..15 /\ input.frames.length \in Lengths
        /\ input.frames.masked \in BOOLEAN /\ input.frames.next \in Lengths
    BY <2>1, FramesAssumption
  <2> QED BY <2>2, AlwaysAligned
<1> QED BY <1>1, AlwaysGiven, PTL

\* PathsContained, of every two paths (pathInside, inside).
THEOREM AlgorithmsPathsContained == Spec => []PathsContained
<1>1. Given => PathsContained
  <2> SUFFICES ASSUME Given, input.kind = "paths" PROVE Contained(input.root, input.path)
    BY DEF PathsContained
  <2>1. input.root \in Seq(Segments) /\ input.path \in Seq(Segments)
    BY PathsAssumption DEF Given
  <2> QED BY <2>1, ContainedWherever
<1> QED BY <1>1, AlwaysGiven, PTL

\* DigestTells, of every two directories (schemaDigest).
THEOREM AlgorithmsDigestTells == Spec => []DigestTells
<1>1. Given => DigestTells
  <2> SUFFICES ASSUME Given, input.kind = "directory", NEW other \in Directories
               PROVE  Tells(input.directory, other)
    BY DEF DigestTells
  <2>1. input.directory \in Directories BY DEF Given
  <2> QED BY <2>1, DirectoriesAssumption, DigestsTell
<1> QED BY <1>1, AlwaysGiven, PTL

\* DiagnosisTrue, of every manifest, home, Codex, daemon and invocation service (Verify,
\* diagnose, runCommand).
THEOREM AlgorithmsDiagnosisTrue == Spec => []DiagnosisTrue
<1>1. Given => DiagnosisTrue
  <2> SUFFICES ASSUME Given, input.kind = "situation"
               PROVE  LET s == input.situation
                      IN Diagnoses(s.required, Known, s.record, s.codex, s.daemon, s.service)
    BY DEF DiagnosisTrue
  <2>1. input.situation \in Situations BY DEF Given
  <2>2. Shaped(input.situation.required, Known, input.situation.service, Routes)
    BY <2>1, SituationsAssumption
  <2> QED BY <2>2, DiagnosesTruly
<1> QED BY <1>1, AlwaysGiven, PTL
=============================================================================
