-------------------------- MODULE SumpCaptureProofs -------------------------
(***************************************************************************)
(* The logic analyzer's ring for every sample count, every packing and     *)
(* every trigger: what the host reads back is what the pins were.          *)
(***************************************************************************)
EXTENDS SumpCapture, TLAPS

-----------------------------------------------------------------------------
Taken == [in : SUBSET Channels, over : SUBSET Channels]

TypeOK ==
  /\ buffer \in [Index -> SUBSET Channels] /\ INDEX \in Index
  /\ kept \in Seq(Taken) /\ Len(kept) <= Samples
  /\ delay_count \in Nat /\ read_count \in Nat /\ left \in Nat /\ sent \in Nat
  /\ data \in SUBSET Channels

(* The sample taken j samples before the one that goes to i, and where it  *)
(* was stored.                                                             *)
Ago(s, j) == s[Len(s) - j + 1]
Slot(i, j) == IF j <= i THEN i - j ELSE i + Samples - j

Value(i, k) == IF Lane(i) = 0 THEN k.in ELSE k.in \cup k.over

(* Seen from i, the samples are in the ring but for the w oldest places.   *)
Ring(b, s, i, w) ==
  \A j \in 1 .. Len(s) : j <= Samples - w => b[Slot(i, j)] = Value(Slot(i, j), Ago(s, j))

(* The lanes of its cell that come after i are free.                       *)
FreeAbove(b, i) == \A k \in Index : Cell(k) = Cell(i) /\ k > i => b[k] = {}

(* The lanes from i on to the end of its cell, wiped when lane 0 was       *)
(* stored: none if i is lane 0 and still to be stored.                     *)
Rest(i) == PerCell - Lane(i)
Gap(i) == Rest(i) % PerCell

(* The next sample goes to i: its lane is free.                            *)
Stepping(b, s, i) ==
  /\ Ring(b, s, i, Gap(i))
  /\ Lane(i) # 0 => b[i] = {} /\ FreeAbove(b, i)

(* The sample that triggered is at i, and so is the next one.              *)
Triggered(b, s, i, in) ==
  Ring(b, s, i, Rest(i)) /\ b[i] = in /\ FreeAbove(b, i)

Capture ==
  /\ at \in {"armed", "delay"} => sent = 0
  /\ at = "armed" => Stepping(buffer, kept, INDEX)
  /\ at = "delay" =>
       /\ left <= delay_count
       /\ IF left = delay_count THEN Triggered(buffer, kept, INDEX, data)
          ELSE Stepping(buffer, kept, INDEX)
  /\ at = "read" =>
       /\ Ring(buffer, kept, End, Wiped)
       /\ sent > 0 => data = buffer[INDEX]

IInv == TypeOK /\ Capture

-----------------------------------------------------------------------------
(* Cells and lanes.                                                        *)
Base(i) == i - Lane(i)

LEMMA TimesMonotone ==
  ASSUME NEW a \in Nat, NEW b \in Nat, NEW k \in Nat, a <= b
  PROVE  a * k <= b * k
OBVIOUS

(* Quotient and remainder are what they must be.                           *)
LEMMA DivUnique ==
  ASSUME NEW k \in Nat \ {0}, NEW d \in Nat, NEW r \in 0 .. (k - 1)
  PROVE  (d * k + r) \div k = d /\ (d * k + r) % k = r
<1> DEFINE x == d * k + r
           e == x \div k
           q == x % k
<1>1. x \in Nat
  OBVIOUS
<1>2. e \in Nat /\ q \in 0 .. (k - 1) /\ x = e * k + q
  BY <1>1
<1> HIDE DEF e, q
<1>3. CASE d + 1 <= e
  <2>1. (d + 1) * k <= e * k
    BY <1>2, <1>3, TimesMonotone
  <2>2. QED
    BY <1>2, <2>1
<1>4. CASE e + 1 <= d
  <2>1. (e + 1) * k <= d * k
    BY <1>2, <1>4, TimesMonotone
  <2>2. QED
    BY <1>2, <2>1
<1>5. e = d
  BY <1>2, <1>3, <1>4
<1>6. QED
  BY <1>2, <1>5 DEF e, q

(* A cell is PerCell places in a row, all of them in the ring.             *)
LEMMA CellFacts ==
  ASSUME NEW i \in Index
  PROVE  /\ Lane(i) \in 0 .. (PerCell - 1) /\ Base(i) \in Nat /\ i = Base(i) + Lane(i)
         /\ Base(i) + PerCell <= Samples
         /\ \A k \in Index : Cell(k) = Cell(i) <=> (Base(i) <= k /\ k < Base(i) + PerCell)
<1> DEFINE d == i \div PerCell
           c == Samples \div PerCell
<1>1. PerCell \in Nat \ {0} /\ Samples \in Nat \ {0} /\ i \in Nat /\ i < Samples
  BY SumpAssumption DEF Index
<1>2. d \in Nat /\ i = d * PerCell + Lane(i) /\ Lane(i) \in 0 .. (PerCell - 1)
  BY <1>1 DEF Lane
<1>3. c \in Nat /\ Samples = c * PerCell
  BY <1>1, SumpAssumption
<1>4. Base(i) = d * PerCell /\ d * PerCell \in Nat
  BY <1>1, <1>2 DEF Base
<1>5. \A k \in Index : Cell(k) = d <=> (d * PerCell <= k /\ k < (d + 1) * PerCell)
  <2> SUFFICES ASSUME NEW k \in Index
               PROVE  Cell(k) = d <=> (d * PerCell <= k /\ k < (d + 1) * PerCell)
    OBVIOUS
  <2>1. k \in Nat
    BY DEF Index
  <2>2. Cell(k) \in Nat /\ Cell(k) * PerCell <= k /\ k < (Cell(k) + 1) * PerCell
    BY <1>1, <2>1 DEF Cell
  <2> HIDE DEF d
  <2>3. ASSUME d * PerCell <= k, k < (d + 1) * PerCell PROVE Cell(k) = d
    <3>1. CASE Cell(k) + 1 <= d
      <4>1. (Cell(k) + 1) * PerCell <= d * PerCell
        BY <1>1, <1>2, <2>2, <3>1, TimesMonotone
      <4>2. QED
        BY <1>1, <1>2, <2>1, <2>2, <2>3, <4>1
    <3>2. CASE d + 1 <= Cell(k)
      <4>1. (d + 1) * PerCell <= Cell(k) * PerCell
        BY <1>1, <1>2, <2>2, <3>2, TimesMonotone
      <4>2. QED
        BY <1>1, <1>2, <2>1, <2>2, <2>3, <4>1
    <3>3. QED
      BY <1>2, <2>2, <3>1, <3>2
  <2>4. QED
    BY <2>2, <2>3
<1>6. (d + 1) * PerCell <= Samples
  <2> HIDE DEF c, d
  <2>1. CASE c <= d
    <3>1. c * PerCell <= d * PerCell
      BY <1>1, <1>2, <1>3, <2>1, TimesMonotone
    <3>2. QED
      BY <1>1, <1>2, <1>3, <1>4, <3>1
  <2>2. CASE d + 1 <= c
    BY <1>1, <1>2, <1>3, <2>2, TimesMonotone
  <2>3. QED
    BY <1>2, <1>3, <2>1, <2>2
<1>7. (d + 1) * PerCell = d * PerCell + PerCell
  BY <1>1, <1>2
<1>8. Cell(i) = d
  BY DEF Cell
<1> HIDE DEF d
<1>9. \A k \in Index : Cell(k) = Cell(i) <=> (Base(i) <= k /\ k < Base(i) + PerCell)
  BY <1>4, <1>5, <1>7, <1>8
<1>10. QED
  BY <1>1, <1>2, <1>4, <1>6, <1>7, <1>9

(* Where the index goes: to the next lane, or to lane 0 of the next cell   *)
(* or of the first.                                                        *)
LEMMA ForwardFacts ==
  ASSUME NEW i \in Index
  PROVE  /\ Forward(i) \in Index
         /\ Forward(i) = IF i = Samples - 1 THEN 0 ELSE i + 1
         /\ Lane(i) = PerCell - 1 => Lane(Forward(i)) = 0
         /\ Lane(i) # PerCell - 1 =>
              /\ Forward(i) = i + 1 /\ Lane(i + 1) = Lane(i) + 1
              /\ Cell(i + 1) = Cell(i)
<1> DEFINE d == i \div PerCell
<1>1. PerCell \in Nat \ {0} /\ Samples \in Nat \ {0} /\ i \in Nat /\ i < Samples
  BY SumpAssumption DEF Index
<1>2. d \in Nat /\ i = d * PerCell + Lane(i) /\ Lane(i) \in 0 .. (PerCell - 1)
  BY <1>1 DEF Lane
<1>3. Forward(i) = IF i = Samples - 1 THEN 0 ELSE i + 1
  <2>1. CASE i = Samples - 1
    BY <1>1, <2>1 DEF Forward
  <2>2. CASE i + 1 < Samples
    BY <1>1, <2>2 DEF Forward
  <2>3. QED
    BY <1>1, <2>1, <2>2
<1>4. Cell(i) = d
  BY DEF Cell
<1> HIDE DEF d
<1>5. ASSUME Lane(i) = PerCell - 1 PROVE Lane(Forward(i)) = 0
  <2>1. CASE i = Samples - 1
    BY <1>1, <1>3, <2>1 DEF Lane
  <2>2. CASE i # Samples - 1
    <3>1. i + 1 = (d + 1) * PerCell + 0 /\ d + 1 \in Nat /\ 0 \in 0 .. (PerCell - 1)
      BY <1>1, <1>2, <1>5
    <3>2. (i + 1) % PerCell = 0
      BY <1>1, <3>1, DivUnique
    <3>3. QED
      BY <1>3, <2>2, <3>2 DEF Lane
  <2>3. QED
    BY <2>1, <2>2
<1>6. ASSUME Lane(i) # PerCell - 1
      PROVE  Forward(i) = i + 1 /\ Lane(i + 1) = Lane(i) + 1 /\ Cell(i + 1) = Cell(i)
  <2>1. PICK r \in 0 .. (PerCell - 1) : r = Lane(i) + 1 /\ i + 1 = d * PerCell + r
    BY <1>1, <1>2, <1>6
  <2>2. (i + 1) \div PerCell = d /\ (i + 1) % PerCell = Lane(i) + 1
    <3>1. (d * PerCell + r) \div PerCell = d /\ (d * PerCell + r) % PerCell = r
      BY <1>1, <1>2, DivUnique
    <3>2. QED
      BY <2>1, <3>1
  <2>3. i # Samples - 1
    <3>1. Base(i) + PerCell <= Samples /\ i = Base(i) + Lane(i) /\ Base(i) \in Nat
      BY CellFacts
    <3>2. QED
      BY <1>1, <1>2, <1>6, <3>1
  <2>4. QED
    BY <1>3, <1>4, <2>2, <2>3 DEF Lane, Cell
<1>7. Forward(i) \in Index
  BY <1>1, <1>3 DEF Index
<1>8. QED
  BY <1>3, <1>5, <1>6, <1>7

(* And where it comes back from.                                           *)
LEMMA BackFacts ==
  ASSUME NEW i \in Index, NEW n \in Nat
  PROVE  /\ Back(i) \in Index
         /\ (Back(i) + (n + 1)) % Samples = (i + n) % Samples
<1>1. Samples \in Nat \ {0} /\ i \in Nat /\ i < Samples
  BY SumpAssumption DEF Index
<1>2. Back(i) \in Index
  BY <1>1 DEF Back, Index
<1>3. CASE i = 0
  <2>1. Back(i) + (n + 1) = n + Samples
    BY <1>1, <1>3 DEF Back
  <2>2. (n + Samples) % Samples = n % Samples
    <3>1. PICK e \in Nat, q \in 0 .. (Samples - 1) : n = e * Samples + q
      <4>1. n \div Samples \in Nat /\ n % Samples \in 0 .. (Samples - 1)
            /\ n = (n \div Samples) * Samples + (n % Samples)
        BY <1>1
      <4>2. QED
        BY <4>1
    <3>2. n + Samples = (e + 1) * Samples + q /\ e + 1 \in Nat
      BY <1>1, <3>1
    <3>3. n % Samples = q
      BY <1>1, <3>1, DivUnique
    <3>4. ((e + 1) * Samples + q) % Samples = q
      BY <1>1, <3>2, DivUnique
    <3>5. QED
      BY <3>2, <3>3, <3>4
  <2>3. QED
    BY <1>2, <1>3, <2>1, <2>2
<1>4. CASE i # 0
  <2>1. Back(i) + (n + 1) = i + n
    BY <1>1, <1>4 DEF Back
  <2>2. QED
    BY <1>2, <2>1
<1>5. QED
  BY <1>3, <1>4

(* Reading back n samples gets to where the n-th newest is.                *)
LEMMA EndSlot ==
  ASSUME NEW i \in Index, NEW n \in 1 .. Samples
  PROVE  Slot((i + n) % Samples, n) = i
<1>1. Samples \in Nat \ {0} /\ i \in Nat /\ i < Samples
  BY SumpAssumption DEF Index
<1>2. CASE i + n < Samples
  <2>1. (i + n) % Samples = i + n
    BY <1>1, <1>2
  <2>2. QED
    BY <1>1, <1>2, <2>1 DEF Slot
<1>3. CASE i + n >= Samples
  <2>1. (i + n) % Samples = i + n - Samples
    BY <1>1, <1>3
  <2>2. QED
    BY <1>1, <1>3, <2>1 DEF Slot
<1>4. QED
  BY <1>1, <1>2, <1>3

-----------------------------------------------------------------------------
(* A place of the ring is one of its places; one step on, every sample is  *)
(* one further back; the w places of a cell are the w oldest.              *)
LEMMA SlotFacts ==
  ASSUME NEW i \in Index, NEW j \in 1 .. Samples
  PROVE  /\ Slot(i, j) \in Index
         /\ j < Samples => Slot(i, j) # i /\ Slot(Forward(i), j + 1) = Slot(i, j)
         /\ Slot(Forward(i), 1) = i
         /\ \A m \in Nat : j <= Samples - m => ~(i <= Slot(i, j) /\ Slot(i, j) < i + m)
<1>1. Samples \in Nat \ {0} /\ i \in Nat /\ i < Samples
  BY SumpAssumption DEF Index
<1>2. Forward(i) = IF i = Samples - 1 THEN 0 ELSE i + 1
  BY ForwardFacts
<1>3. Slot(i, j) \in Index /\ (j < Samples => Slot(i, j) # i)
  BY <1>1 DEF Slot, Index
<1>4. j < Samples => Slot(Forward(i), j + 1) = Slot(i, j)
  BY <1>1, <1>2 DEF Slot
<1>5. Slot(Forward(i), 1) = i
  BY <1>1, <1>2 DEF Slot
<1>6. \A m \in Nat : j <= Samples - m => ~(i <= Slot(i, j) /\ Slot(i, j) < i + m)
  BY <1>1 DEF Slot
<1>7. QED
  BY <1>3, <1>4, <1>5, <1>6

(* The sequence of the newest samples, after one more.                     *)
LEMMA KeepFacts ==
  ASSUME NEW s \in Seq(Taken), Len(s) <= Samples, NEW k \in Taken,
         NEW t, t = Newest(Append(s, k))
  PROVE  /\ t \in Seq(Taken) /\ Len(t) <= Samples
         /\ Len(t) >= 1 /\ Len(t) <= Len(s) + 1 /\ Ago(t, 1) = k
         /\ \A j \in 1 .. (Len(t) - 1) : Ago(t, j + 1) = Ago(s, j)
<1> DEFINE u == Append(s, k)
<1>1. Samples \in Nat \ {0} /\ Len(s) \in Nat
  BY SumpAssumption
<1>2. u \in Seq(Taken) /\ Len(u) = Len(s) + 1
  OBVIOUS
<1>3. u[Len(s) + 1] = k /\ \A n \in 1 .. Len(s) : u[n] = s[n]
  OBVIOUS
<1> HIDE DEF u
<1>4. CASE Len(u) > Samples
  <2>1. t = Tail(u)
    BY <1>4 DEF Newest, u
  <2>2. /\ t \in Seq(Taken) /\ Len(t) = Len(s)
        /\ \A n \in 1 .. Len(t) : t[n] = u[n + 1]
    BY <1>1, <1>2, <2>1
  <2>3. Len(s) = Samples
    BY <1>1, <1>2, <1>4
  <2>4. Ago(t, 1) = k
    BY <1>1, <1>3, <2>2, <2>3 DEF Ago
  <2>5. \A j \in 1 .. (Len(t) - 1) : Ago(t, j + 1) = Ago(s, j)
    BY <1>1, <1>3, <2>2, <2>3 DEF Ago
  <2>6. QED
    BY <1>1, <2>2, <2>3, <2>4, <2>5
<1>5. CASE Len(u) <= Samples
  <2>1. t = u
    BY <1>1, <1>2, <1>5 DEF Newest, u
  <2>2. Ago(t, 1) = k
    BY <1>1, <1>2, <1>3, <2>1 DEF Ago
  <2>3. \A j \in 1 .. (Len(t) - 1) : Ago(t, j + 1) = Ago(s, j)
    BY <1>1, <1>2, <1>3, <2>1 DEF Ago
  <2>4. QED
    BY <1>1, <1>2, <1>5, <2>1, <2>2, <2>3
<1>6. QED
  BY <1>1, <1>2, <1>4, <1>5

-----------------------------------------------------------------------------
(* What one store does to the ring.                                        *)
LEMMA StoredFacts ==
  ASSUME NEW b \in [Index -> SUBSET Channels], NEW i \in Index, NEW in \in SUBSET Channels
  PROVE  /\ Stored(b, i, in) \in [Index -> SUBSET Channels]
         /\ Lane(i) = 0 => Stored(b, i, in)[i] = in
         /\ Lane(i) # 0 => Stored(b, i, in)[i] = b[i] \cup in
         /\ \A k \in Index :
              k # i /\ (Lane(i) = 0 => Cell(k) # Cell(i)) => Stored(b, i, in)[k] = b[k]
         /\ FreeAbove(Stored(b, i, in), i) <=> (Lane(i) = 0 \/ FreeAbove(b, i))
<1> DEFINE c == Stored(b, i, in)
<1>1. CASE Lane(i) = 0
  <2>1. c = [j \in Index |-> IF j = i THEN in ELSE IF Cell(j) = Cell(i) THEN {} ELSE b[j]]
    BY <1>1 DEF Stored
  <2> HIDE DEF c
  <2>2. c \in [Index -> SUBSET Channels]
    BY <2>1
  <2>3. c[i] = in /\ \A k \in Index : k # i => c[k] = IF Cell(k) = Cell(i) THEN {} ELSE b[k]
    BY <2>1
  <2>4. \A k \in Index : k > i => k # i
    BY SumpAssumption DEF Index
  <2>5. FreeAbove(c, i)
    BY <2>3, <2>4 DEF FreeAbove
  <2>6. QED
    BY <1>1, <2>2, <2>3, <2>5 DEF c
<1>2. CASE Lane(i) # 0
  <2>1. c = [b EXCEPT ![i] = @ \cup in]
    BY <1>2 DEF Stored
  <2> HIDE DEF c
  <2>2. c \in [Index -> SUBSET Channels]
    BY <2>1
  <2>3. c[i] = b[i] \cup in /\ \A k \in Index : k # i => c[k] = b[k]
    BY <2>1
  <2>4. \A k \in Index : k > i => k # i
    BY SumpAssumption DEF Index
  <2>5. FreeAbove(c, i) <=> FreeAbove(b, i)
    BY <2>3, <2>4 DEF FreeAbove
  <2>6. QED
    BY <1>2, <2>2, <2>3, <2>5 DEF c
<1>3. QED
  BY <1>1, <1>2

(* The oldest places but the rest of the cell are what they were.          *)
LEMMA StoreKeeps ==
  ASSUME NEW b \in [Index -> SUBSET Channels], NEW i \in Index, NEW in \in SUBSET Channels,
         NEW c, c = Stored(b, i, in), NEW j \in 1 .. Samples, j <= Samples - Rest(i)
  PROVE  c[Slot(i, j)] = b[Slot(i, j)]
<1>1. /\ Lane(i) \in 0 .. (PerCell - 1) /\ Base(i) \in Nat /\ i = Base(i) + Lane(i)
      /\ \A k \in Index : Cell(k) = Cell(i) <=> (Base(i) <= k /\ k < Base(i) + PerCell)
  BY CellFacts
<1>2. PerCell \in Nat \ {0} /\ Samples \in Nat \ {0}
  BY SumpAssumption
<1>3. Slot(i, j) \in Index /\ Slot(i, j) # i
  BY <1>1, <1>2, SlotFacts DEF Rest
<1>4. ASSUME Lane(i) = 0 PROVE Cell(Slot(i, j)) # Cell(i)
  <2>1. ~(i <= Slot(i, j) /\ Slot(i, j) < i + PerCell)
    BY <1>1, <1>2, <1>4, SlotFacts DEF Rest
  <2>2. Base(i) = i
    BY <1>1, <1>4
  <2>3. QED
    BY <1>1, <1>3, <2>1, <2>2
<1>5. \A k \in Index :
        k # i /\ (Lane(i) = 0 => Cell(k) # Cell(i)) => Stored(b, i, in)[k] = b[k]
  BY StoredFacts
<1>6. QED
  BY <1>3, <1>4, <1>5

(* The lanes that are wiped: all that follow, or none.                     *)
LEMMA GapFacts ==
  ASSUME NEW i \in Index
  PROVE  /\ Rest(i) \in 1 .. PerCell /\ PerCell <= Samples
         /\ Gap(i) = IF Lane(i) = 0 THEN 0 ELSE Rest(i)
         /\ Samples - Gap(Forward(i)) <= Samples - Rest(i) + 1
<1>1. PerCell \in Nat \ {0} /\ Samples \in Nat \ {0} /\ PerCell <= Samples
  BY SumpAssumption
<1>2. \A k \in Index : Lane(k) \in 0 .. (PerCell - 1)
  BY CellFacts
<1>3. \A k \in Index : Rest(k) \in 1 .. PerCell /\ Gap(k) = IF Lane(k) = 0 THEN 0 ELSE Rest(k)
  <2> SUFFICES ASSUME NEW k \in Index
               PROVE  Rest(k) \in 1 .. PerCell /\ Gap(k) = IF Lane(k) = 0 THEN 0 ELSE Rest(k)
    OBVIOUS
  <2>1. Lane(k) \in 0 .. (PerCell - 1)
    BY <1>2
  <2>2. Rest(k) \in 1 .. PerCell /\ (Lane(k) = 0 => Rest(k) = PerCell)
        /\ (Lane(k) # 0 => Rest(k) < PerCell)
    BY <1>1, <2>1 DEF Rest
  <2>3. QED
    BY <1>1, <2>2 DEF Gap
<1>4. CASE Lane(i) = PerCell - 1
  <2>1. Forward(i) \in Index /\ Lane(Forward(i)) = 0 /\ Rest(i) = 1
    BY <1>1, <1>4, ForwardFacts DEF Rest
  <2>2. QED
    BY <1>1, <1>3, <2>1
<1>5. CASE Lane(i) # PerCell - 1
  <2>1. Forward(i) \in Index /\ Lane(Forward(i)) = Lane(i) + 1 /\ Lane(i) \in 0 .. (PerCell - 1)
    BY <1>2, <1>5, ForwardFacts
  <2>2. Rest(Forward(i)) = Rest(i) - 1 /\ Lane(Forward(i)) # 0
    BY <1>1, <2>1 DEF Rest
  <2>3. QED
    BY <1>1, <1>3, <2>1, <2>2
<1>6. QED
  BY <1>1, <1>3, <1>4, <1>5

(* A sample is stored and the index goes on: all samples are one further   *)
(* back, the new one is the newest, and the next lane is free.             *)
LEMMA StoreStep ==
  ASSUME NEW b \in [Index -> SUBSET Channels], NEW i \in Index, NEW in \in SUBSET Channels,
         NEW s \in Seq(Taken), Len(s) <= Samples, NEW over \in SUBSET Channels,
         Ring(b, s, i, Rest(i)), Lane(i) # 0 => b[i] = over /\ FreeAbove(b, i),
         NEW c, c = Stored(b, i, in),
         NEW t, t = Newest(Append(s, [in |-> in, over |-> over]))
  PROVE  Stepping(c, t, Forward(i))
<1> DEFINE k == [in |-> in, over |-> over]
<1>1. Samples \in Nat \ {0} /\ k \in Taken /\ Len(s) \in Nat
  BY SumpAssumption DEF Taken
<1>2. /\ t \in Seq(Taken) /\ Len(t) <= Samples
      /\ Len(t) >= 1 /\ Len(t) <= Len(s) + 1 /\ Ago(t, 1) = k
      /\ \A j \in 1 .. (Len(t) - 1) : Ago(t, j + 1) = Ago(s, j)
  BY <1>1, KeepFacts
<1>3. /\ Rest(i) \in 1 .. PerCell /\ PerCell <= Samples /\ PerCell \in Nat
      /\ Samples - Gap(Forward(i)) <= Samples - Rest(i) + 1 /\ Gap(Forward(i)) \in Nat
  <2>1. /\ Rest(i) \in 1 .. PerCell /\ PerCell <= Samples
        /\ Samples - Gap(Forward(i)) <= Samples - Rest(i) + 1
    BY GapFacts
  <2>2. Forward(i) \in Index /\ PerCell \in Nat
    BY ForwardFacts, SumpAssumption
  <2>3. Gap(Forward(i)) \in Nat
    BY <2>2, GapFacts
  <2>4. QED
    BY <2>1, <2>2, <2>3
<1>4. c[i] = Value(i, k)
  <2>1. /\ Lane(i) = 0 => Stored(b, i, in)[i] = in
        /\ Lane(i) # 0 => Stored(b, i, in)[i] = b[i] \cup in
    BY StoredFacts
  <2>2. k.in = in /\ k.over = over
    OBVIOUS
  <2>3. QED
    BY <2>1, <2>2 DEF Value
<1>5. ASSUME NEW j \in 1 .. Len(t), j <= Samples - Gap(Forward(i))
      PROVE  c[Slot(Forward(i), j)] = Value(Slot(Forward(i), j), Ago(t, j))
  <2>1. CASE j = 1
    <3>1. Slot(Forward(i), 1) = i
      BY <1>1, SlotFacts
    <3>2. QED
      BY <1>2, <1>4, <2>1, <3>1
  <2>2. CASE j # 1
    <3>1. PICK n \in 1 .. Samples : j = n + 1 /\ n \in 1 .. Len(s) /\ n < Samples
      <4>1. j - 1 \in 1 .. Samples /\ j = (j - 1) + 1 /\ j - 1 \in 1 .. Len(s) /\ j - 1 < Samples
        BY <1>1, <1>2, <2>2
      <4>2. QED
        BY <4>1
    <3>2. n <= Samples - Rest(i)
      BY <1>1, <1>3, <1>5, <3>1
    <3>3. Slot(Forward(i), j) = Slot(i, n)
      BY <3>1, SlotFacts
    <3>4. Ago(t, j) = Ago(s, n)
      BY <1>1, <1>2, <3>1
    <3>5. c[Slot(i, n)] = b[Slot(i, n)]
      BY <3>2, StoreKeeps
    <3>6. b[Slot(i, n)] = Value(Slot(i, n), Ago(s, n))
      BY <3>1, <3>2 DEF Ring
    <3>7. QED
      BY <3>3, <3>4, <3>5, <3>6
  <2>3. QED
    BY <2>1, <2>2
<1>6. ASSUME Lane(Forward(i)) # 0
      PROVE  c[Forward(i)] = {} /\ FreeAbove(c, Forward(i))
  <2>1. /\ Forward(i) = i + 1 /\ Cell(i + 1) = Cell(i) /\ Forward(i) \in Index /\ i \in Nat
    BY <1>6, ForwardFacts DEF Index
  <2>2. FreeAbove(c, i)
    BY StoredFacts
  <2>3. \A m \in Index : m > i + 1 => m > i
    BY <2>1 DEF Index
  <2>4. i + 1 > i
    BY <2>1
  <2>5. QED
    BY <2>1, <2>2, <2>3, <2>4 DEF FreeAbove
<1>7. QED
  BY <1>5, <1>6 DEF Stepping, Ring

(* The sample that triggers is stored and the index stays.                 *)
LEMMA TriggerStep ==
  ASSUME NEW b \in [Index -> SUBSET Channels], NEW i \in Index, NEW in \in SUBSET Channels,
         NEW s \in Seq(Taken), Stepping(b, s, i),
         NEW c, c = Stored(b, i, in), Len(s) <= Samples
  PROVE  Triggered(c, s, i, in)
<1>1. Samples \in Nat \ {0} /\ Len(s) \in Nat
  BY SumpAssumption
<1>2. /\ Rest(i) \in 1 .. PerCell /\ PerCell \in Nat /\ Gap(i) = IF Lane(i) = 0 THEN 0 ELSE Rest(i)
  BY GapFacts, SumpAssumption
<1>3. ASSUME NEW j \in 1 .. Len(s), j <= Samples - Rest(i)
      PROVE  c[Slot(i, j)] = Value(Slot(i, j), Ago(s, j))
  <2>1. j <= Samples - Gap(i) /\ j \in 1 .. Samples
    BY <1>1, <1>2, <1>3
  <2>2. QED
    BY <1>3, <2>1, StoreKeeps DEF Stepping, Ring
<1>4. c[i] = in
  <2>1. /\ Lane(i) = 0 => Stored(b, i, in)[i] = in
        /\ Lane(i) # 0 => Stored(b, i, in)[i] = b[i] \cup in
    BY StoredFacts
  <2>2. Lane(i) # 0 => b[i] = {}
    BY DEF Stepping
  <2>3. QED
    BY <2>1, <2>2
<1>5. FreeAbove(c, i)
  <2>1. FreeAbove(c, i) <=> (Lane(i) = 0 \/ FreeAbove(b, i))
    BY StoredFacts
  <2>2. QED
    BY <2>1 DEF Stepping
<1>6. QED
  BY <1>3, <1>4, <1>5 DEF Triggered, Ring

-----------------------------------------------------------------------------
(* Every step keeps the types.                                             *)
LEMMA TypeStep == TypeOK /\ [Next]_vars => TypeOK'
<1> SUFFICES ASSUME TypeOK, [Next]_vars PROVE TypeOK'
  OBVIOUS
<1>1. CASE TestButton \/ OtherCommand \/ SetTrigger \/ Captured \/ ReadDone \/ Toggle \/ UNCHANGED vars
  <2>1. UNCHANGED <<CaptureVars, delay_count, read_count>>
    BY <1>1 DEF TestButton, OtherCommand, SetTrigger, Captured, ReadDone, Toggle, vars,
                CaptureVars, HostVars
  <2>2. QED
    BY <2>1 DEF TypeOK, CaptureVars
<1>2. CASE SetCounts
  BY <1>2, SumpAssumption DEF SetCounts, TypeOK, CaptureVars
<1>3. CASE Run
  <2>1. 0 \in Index /\ Samples \in Nat
    BY SumpAssumption DEF Index
  <2>2. kept' \in Seq(Taken) /\ Len(kept') <= Samples
    BY <1>3, <2>1 DEF Run
  <2>3. QED
    BY <1>3, <2>1, <2>2 DEF Run, TypeOK, HostVars
<1>4. CASE WaitTrigger
  <2>1. PICK in \in SUBSET Channels :
          /\ buffer' = Stored(buffer, INDEX, in)
          /\ IF Matches(in)
               THEN at' = "delay" /\ left' = delay_count /\ data' = in /\ UNCHANGED <<INDEX, kept>>
               ELSE INDEX' = Forward(INDEX) /\ Keep(in, {}) /\ UNCHANGED <<at, left, data>>
    BY <1>4 DEF WaitTrigger
  <2>2. buffer' \in [Index -> SUBSET Channels]
    BY <2>1, StoredFacts DEF TypeOK
  <2>3. INDEX' \in Index
    BY <2>1, ForwardFacts DEF TypeOK
  <2>4. kept' \in Seq(Taken) /\ Len(kept') <= Samples
    <3>1. [in |-> in, over |-> {}] \in Taken
      BY DEF Taken
    <3>2. kept' = kept \/ kept' = Newest(Append(kept, [in |-> in, over |-> {}]))
      BY <2>1 DEF Keep
    <3>3. QED
      BY <3>1, <3>2, KeepFacts DEF TypeOK
  <2>5. left' \in Nat /\ data' \in SUBSET Channels
    BY <2>1 DEF TypeOK
  <2>6. UNCHANGED <<sent, delay_count, read_count>>
    BY <1>4 DEF WaitTrigger, HostVars
  <2>7. QED
    BY <2>2, <2>3, <2>4, <2>5, <2>6 DEF TypeOK
<1>5. CASE Delay
  <2>1. PICK in \in SUBSET Channels :
          /\ buffer' = Stored(buffer, INDEX, in)
          /\ Keep(in, IF left = delay_count THEN data ELSE {})
    BY <1>5 DEF Delay
  <2>2. buffer' \in [Index -> SUBSET Channels]
    BY <2>1, StoredFacts DEF TypeOK
  <2>3. INDEX' \in Index
    BY <1>5, ForwardFacts DEF Delay, TypeOK
  <2>4. kept' \in Seq(Taken) /\ Len(kept') <= Samples
    <3>1. PICK over \in SUBSET Channels : kept' = Newest(Append(kept, [in |-> in, over |-> over]))
      BY <2>1 DEF Keep, TypeOK
    <3>2. [in |-> in, over |-> over] \in Taken
      BY DEF Taken
    <3>3. QED
      BY <3>1, <3>2, KeepFacts DEF TypeOK
  <2>5. left' \in Nat
    BY <1>5 DEF Delay, TypeOK
  <2>6. UNCHANGED <<sent, delay_count, read_count, data>>
    BY <1>5 DEF Delay, HostVars
  <2>7. QED
    BY <2>2, <2>3, <2>4, <2>5, <2>6 DEF TypeOK
<1>6. CASE ReadBack
  <2>1. INDEX' \in Index
    BY <1>6, BackFacts DEF ReadBack, TypeOK
  <2>2. data' \in SUBSET Channels
    BY <1>6, <2>1 DEF ReadBack, TypeOK
  <2>3. read_count' \in Nat /\ sent' \in Nat
    BY <1>6 DEF ReadBack, TypeOK
  <2>4. UNCHANGED <<buffer, left, kept, delay_count>>
    BY <1>6 DEF ReadBack
  <2>5. QED
    BY <2>1, <2>2, <2>3, <2>4 DEF TypeOK
<1>7. CASE Enter
  BY <1>7, SumpAssumption DEF Enter, TypeOK, HostVars
<1>8. QED
  BY <1>1, <1>2, <1>3, <1>4, <1>5, <1>6, <1>7 DEF Next, Loop, Command

(* A ring seen with fewer of its places is a part of it.                   *)
LEMMA RingLess ==
  ASSUME NEW b, NEW s, NEW i, NEW v \in Nat, NEW w \in Nat, v <= w, Ring(b, s, i, v), Len(s) \in Nat
  PROVE  Ring(b, s, i, w)
BY SumpAssumption DEF Ring

LEMMA CaptureStep == TypeOK /\ Capture /\ [Next]_vars => Capture'
<1> SUFFICES ASSUME TypeOK, Capture, [Next]_vars PROVE Capture'
  OBVIOUS
<1>1. /\ INDEX \in Index /\ buffer \in [Index -> SUBSET Channels]
      /\ kept \in Seq(Taken) /\ Len(kept) <= Samples
      /\ data \in SUBSET Channels /\ left \in Nat /\ delay_count \in Nat /\ sent \in Nat
  BY DEF TypeOK
<1>2. CASE TestButton \/ OtherCommand \/ SetTrigger \/ SetCounts \/ ReadDone \/ Enter
  <2>1. at' \in {"left", "wait", "top"}
    BY <1>2 DEF TestButton, OtherCommand, SetTrigger, SetCounts, ReadDone, Enter
  <2>2. QED
    BY <2>1 DEF Capture
<1>3. CASE Toggle \/ UNCHANGED vars
  <2>1. UNCHANGED <<at, buffer, INDEX, left, kept, sent, data, delay_count>>
    BY <1>3 DEF Toggle, vars, CaptureVars, HostVars
  <2>2. End' = End /\ Wiped' = Wiped
    BY <2>1 DEF End, Wiped
  <2>3. QED
    BY <2>1, <2>2 DEF Capture
<1>4. CASE Run
  <2>1. at' = "armed" /\ INDEX' = 0 /\ kept' = << >> /\ sent' = 0
    BY <1>4 DEF Run
  <2>2. Lane(0) = 0
    BY SumpAssumption DEF Lane
  <2>3. Stepping(buffer', << >>, 0)
    BY <2>2 DEF Stepping, Ring
  <2>4. QED
    BY <2>1, <2>3 DEF Capture
<1>5. CASE WaitTrigger
  <2>1. PICK in \in SUBSET Channels :
          /\ buffer' = Stored(buffer, INDEX, in)
          /\ IF Matches(in)
               THEN at' = "delay" /\ left' = delay_count /\ data' = in /\ UNCHANGED <<INDEX, kept>>
               ELSE INDEX' = Forward(INDEX) /\ Keep(in, {}) /\ UNCHANGED <<at, left, data>>
    BY <1>5 DEF WaitTrigger
  <2>2. at = "armed" /\ sent' = 0 /\ delay_count' = delay_count
    BY <1>5 DEF WaitTrigger, HostVars, Capture
  <2>3. Stepping(buffer, kept, INDEX)
    BY <2>2 DEF Capture
  <2>4. CASE Matches(in)
    <3>1. Triggered(buffer', kept, INDEX, in)
      BY <1>1, <2>1, <2>3, TriggerStep
    <3>2. QED
      BY <1>1, <2>1, <2>2, <2>4, <3>1 DEF Capture
  <2>5. CASE ~Matches(in)
    <3>1. Ring(buffer, kept, INDEX, Rest(INDEX))
      <4>1. Ring(buffer, kept, INDEX, Gap(INDEX))
        BY <2>3 DEF Stepping
      <4>2. Gap(INDEX) \in Nat /\ Rest(INDEX) \in Nat /\ Gap(INDEX) <= Rest(INDEX)
        BY <1>1, GapFacts
      <4>3. QED
        BY <1>1, <4>1, <4>2, RingLess
    <3>2. Lane(INDEX) # 0 => buffer[INDEX] = {} /\ FreeAbove(buffer, INDEX)
      BY <2>3 DEF Stepping
    <3>3. kept' = Newest(Append(kept, [in |-> in, over |-> {}]))
      BY <2>1, <2>5 DEF Keep
    <3>4. Stepping(buffer', kept', Forward(INDEX))
      BY <1>1, <2>1, <3>1, <3>2, <3>3, StoreStep
    <3>5. QED
      BY <2>1, <2>2, <2>5, <3>4 DEF Capture
  <2>6. QED
    BY <2>4, <2>5
<1>6. CASE Delay
  <2>1. PICK in \in SUBSET Channels :
          /\ buffer' = Stored(buffer, INDEX, in)
          /\ Keep(in, IF left = delay_count THEN data ELSE {})
    BY <1>6 DEF Delay
  <2>2. /\ at = "delay" /\ at' = "delay" /\ sent' = sent /\ delay_count' = delay_count
        /\ INDEX' = Forward(INDEX) /\ left' = left - 1 /\ left > 0
    BY <1>6 DEF Delay, HostVars
  <2>3. sent = 0 /\ left <= delay_count
    BY <2>2 DEF Capture
  <2>4. PICK over \in SUBSET Channels :
          /\ over = IF left = delay_count THEN data ELSE {}
          /\ kept' = Newest(Append(kept, [in |-> in, over |-> over]))
    BY <1>1, <2>1 DEF Keep
  <2>5. /\ Ring(buffer, kept, INDEX, Rest(INDEX))
        /\ Lane(INDEX) # 0 => buffer[INDEX] = over /\ FreeAbove(buffer, INDEX)
    <3>1. CASE left = delay_count
      <4>1. Triggered(buffer, kept, INDEX, data)
        BY <2>2, <3>1 DEF Capture
      <4>2. QED
        BY <2>4, <3>1, <4>1 DEF Triggered
    <3>2. CASE left # delay_count
      <4>1. Stepping(buffer, kept, INDEX)
        BY <2>2, <3>2 DEF Capture
      <4>2. Gap(INDEX) \in Nat /\ Rest(INDEX) \in Nat /\ Gap(INDEX) <= Rest(INDEX)
        BY <1>1, GapFacts
      <4>3. Ring(buffer, kept, INDEX, Gap(INDEX))
        BY <4>1 DEF Stepping
      <4>4. Ring(buffer, kept, INDEX, Rest(INDEX))
        BY <1>1, <4>2, <4>3, RingLess
      <4>5. QED
        BY <2>4, <3>2, <4>1, <4>4 DEF Stepping
    <3>3. QED
      BY <3>1, <3>2
  <2>6. Stepping(buffer', kept', Forward(INDEX))
    BY <1>1, <2>1, <2>4, <2>5, StoreStep
  <2>7. left' <= delay_count' /\ left' # delay_count'
    BY <1>1, <2>2, <2>3
  <2>8. QED
    BY <2>2, <2>3, <2>6, <2>7 DEF Capture
<1>7. CASE Captured
  <2>1. /\ at = "delay" /\ left = 0 /\ at' = "read"
        /\ UNCHANGED <<buffer, INDEX, kept, sent, data, delay_count>>
    BY <1>7 DEF Captured, CaptureVars, HostVars
  <2>2. sent = 0 /\ sent' = 0
    BY <2>1 DEF Capture
  <2>3. End' = INDEX
    BY <1>1, <2>1, <2>2, SumpAssumption DEF End, Index
  <2>4. Wiped' = IF delay_count = 0 THEN Rest(INDEX) ELSE Gap(INDEX)
    BY <2>1, <2>3 DEF Wiped, Rest, Gap
  <2>5. Ring(buffer, kept, INDEX, IF delay_count = 0 THEN Rest(INDEX) ELSE Gap(INDEX))
    <3>1. CASE delay_count = 0
      BY <2>1, <3>1 DEF Capture, Triggered
    <3>2. CASE delay_count # 0
      BY <2>1, <3>2 DEF Capture, Stepping
    <3>3. QED
      BY <3>1, <3>2
  <2>6. Ring(buffer', kept', End', Wiped')
    BY <2>1, <2>3, <2>4, <2>5
  <2>7. QED
    BY <2>1, <2>2, <2>6 DEF Capture
<1>8. CASE ReadBack
  <2>1. /\ at = "read" /\ at' = "read" /\ INDEX' = Back(INDEX) /\ data' = buffer[INDEX']
        /\ sent' = sent + 1 /\ UNCHANGED <<buffer, kept, delay_count>>
    BY <1>8 DEF ReadBack
  <2>2. End' = End
    BY <1>1, <2>1, BackFacts DEF End
  <2>3. Wiped' = Wiped
    BY <2>1, <2>2 DEF Wiped
  <2>4. Ring(buffer', kept', End', Wiped')
    BY <2>1, <2>2, <2>3 DEF Capture
  <2>5. QED
    BY <2>1, <2>4 DEF Capture
<1>9. QED
  BY <1>2, <1>3, <1>4, <1>5, <1>6, <1>7, <1>8 DEF Next, Loop, Command

-----------------------------------------------------------------------------
(* The invariant holds at first, and every step keeps it.                  *)
LEMMA InitIInv == Init => IInv
<1> SUFFICES ASSUME Init PROVE IInv
  OBVIOUS
<1>1. 0 \in Index /\ Samples \in Nat /\ Delays \subseteq Nat /\ Reads \subseteq Nat
  BY SumpAssumption DEF Index
<1>2. kept \in Seq(Taken) /\ Len(kept) = 0
  BY DEF Init
<1>3. TypeOK
  BY <1>1, <1>2 DEF Init, TypeOK
<1>4. Capture
  BY DEF Init, Capture
<1>5. QED
  BY <1>3, <1>4 DEF IInv

LEMMA StepIInv == IInv /\ [Next]_vars => IInv'
BY TypeStep, CaptureStep DEF IInv

(* At every step of every session the ring holds the newest samples where  *)
(* the readback will look for them, but for the rest of the newest cell.   *)
THEOREM RingCorrect == Spec => []IInv
BY InitIInv, StepIInv, PTL DEF Spec

(* Whatever the ring's size, the packing, the trigger and the counts, the  *)
(* readback of sump sends what the pins were, newest first, as far back as *)
(* the capture goes and the newest cell has not wiped.                     *)
THEOREM ReadbackIsTrue == Spec => []ReadsWhatWasSampled
<1>1. ASSUME IInv PROVE ReadsWhatWasSampled
  <2>1. SUFFICES ASSUME at = "read", sent \in 1 .. Len(kept), sent <= Samples - Wiped
                 PROVE  data = Value(INDEX, Ago(kept, sent))
    BY DEF ReadsWhatWasSampled, Value, Ago
  <2>2. INDEX \in Index /\ Len(kept) \in Nat /\ Len(kept) <= Samples /\ sent \in Nat
    BY <1>1 DEF IInv, TypeOK
  <2>3. data = buffer[INDEX] /\ Ring(buffer, kept, End, Wiped)
    BY <1>1, <2>1, <2>2 DEF IInv, Capture
  <2>4. sent \in 1 .. Samples
    BY <2>1, <2>2, SumpAssumption
  <2>5. Slot(End, sent) = INDEX
    BY <2>2, <2>4, EndSlot DEF End
  <2>6. QED
    BY <2>1, <2>3, <2>5 DEF Ring
<1>2. QED
  BY <1>1, RingCorrect, PTL
=============================================================================
