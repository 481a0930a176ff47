--------------------------- MODULE BufferGapProofs ---------------------------
(***************************************************************************)
(* What the operations of BufferText on a block of memory do to the text   *)
(* and to the markers, for any sizes of the block, the gaps and the text.  *)
(*                                                                         *)
(* Everything is stated position by position: the character at a position, *)
(* the position of a marker.  A gap motion, a merge or a new gap changes   *)
(* none of them (Shows), an insertion, a deletion and a replacement change *)
(* them as FlatText says (Inserted, Deleted, Replaced).                    *)
(***************************************************************************)
EXTENDS BufferText, SequenceTheorems, TLAPS

\* C shows the text, the markers and point of B.
Shows(C, B) ==
  /\ C.z = B.z /\ C.pt = B.pt
  /\ Text(C) = Text(B)
  /\ \A m \in Marker : Position(C, m) = Position(B, m)

(***************************************************************************)
(* The parts of a sound buffer, each by a name of its own.                 *)
(***************************************************************************)
\* The place in memory of the i-th character, and the position that a memory
\* position stands for.
Slot(i, gpt, gap) == IF i < gpt THEN i ELSE i + gap

Place(k, gpt, gap) == IF k > gpt THEN k - gap ELSE k

Block(mem, gpt, gap, endgap, z, pt, membpos) ==
  [mem : {mem}, gpt : {gpt}, gap_size : {gap}, end_gap_size : {endgap},
   z : {z}, pt : {pt}, membpos : {membpos}]

Layout(mem, gpt, gap, endgap, z, pt, membpos) ==
  /\ z \in Nat \ {0} /\ gap \in Nat /\ endgap \in Nat
  /\ gpt \in 1 .. z /\ pt \in 1 .. z
  /\ mem \in [1 .. z - 1 + gap + endgap -> Char \cup {Free}]
  /\ \A i \in 1 .. z - 1 : mem[Slot(i, gpt, gap)] \in Char
  /\ membpos \in [Marker -> Int]
  /\ \A m \in Marker : \/ 1 <= membpos[m] /\ membpos[m] <= gpt
                       \/ gpt + gap < membpos[m] /\ membpos[m] <= z + gap

\* The same characters, and the same positions, of two sets of parts.
SameText(z, mem, gpt, gap, mem2, gpt2, gap2) ==
  \A i \in 1 .. z - 1 : mem2[Slot(i, gpt2, gap2)] = mem[Slot(i, gpt, gap)]

SamePlaces(membpos, gpt, gap, membpos2, gpt2, gap2) ==
  \A m \in Marker : Place(membpos2[m], gpt2, gap2) = Place(membpos[m], gpt, gap)

\* A sound buffer has parts that are laid out so.
LEMMA Opened ==
  ASSUME NEW B, Sound(B)
  PROVE  \E mem, gpt, gap, endgap, z, pt, membpos :
           /\ B \in Block(mem, gpt, gap, endgap, z, pt, membpos)
           /\ Layout(mem, gpt, gap, endgap, z, pt, membpos)
<1>1. PICK mem, gpt, gap, endgap, z, pt, membpos :
         /\ B.mem = mem /\ B.gpt = gpt /\ B.gap_size = gap
         /\ B.end_gap_size = endgap /\ B.z = z /\ B.pt = pt
         /\ B.membpos = membpos
  OBVIOUS
<1>2. B \in Block(mem, gpt, gap, endgap, z, pt, membpos)
  BY <1>1 DEF Sound, Block
<1>3. /\ z \in Nat \ {0} /\ gap \in Nat /\ endgap \in Nat
      /\ gpt \in 1 .. z /\ pt \in 1 .. z
      /\ mem \in [1 .. z - 1 + gap + endgap -> Char \cup {Free}]
      /\ membpos \in [Marker -> 1 .. z + gap]
  BY <1>1 DEF Sound
<1>4. \A i \in 1 .. z - 1 : mem[Slot(i, gpt, gap)] \in Char
  BY <1>1 DEF Sound, Text, Slot
<1>5. \A m \in Marker : membpos[m] \notin gpt + 1 .. gpt + gap
  BY <1>1 DEF Sound
<1>6. ASSUME NEW m \in Marker
      PROVE  \/ 1 <= membpos[m] /\ membpos[m] <= gpt
             \/ gpt + gap < membpos[m] /\ membpos[m] <= z + gap
  <2>1. PICK k \in 1 .. z + gap : k = membpos[m]
    BY <1>3
  <2>2. k \notin gpt + 1 .. gpt + gap
    BY <2>1, <1>5
  <2>3. gap \in Nat /\ gpt \in 1 .. z /\ z \in Nat
    BY <1>3
  <2>4. \/ 1 <= k /\ k <= gpt
        \/ gpt + gap < k /\ k <= z + gap
    BY <2>2, <2>3
  <2> QED
    BY <2>1, <2>4
<1>7. Layout(mem, gpt, gap, endgap, z, pt, membpos)
  <2>1. membpos \in [Marker -> Int]
    BY <1>3
  <2> QED
    BY <2>1, <1>3, <1>4, <1>6 DEF Layout
<1> QED
  BY <1>2, <1>7

\* And parts that are laid out so make a sound buffer, whose text and marker
\* positions are those of the parts.
LEMMA Closed ==
  ASSUME NEW C, NEW mem, NEW gpt, NEW gap, NEW endgap, NEW z, NEW pt, NEW membpos,
         C \in Block(mem, gpt, gap, endgap, z, pt, membpos),
         Layout(mem, gpt, gap, endgap, z, pt, membpos)
  PROVE  /\ Sound(C)
         /\ C.gpt = gpt /\ C.gap_size = gap /\ C.end_gap_size = endgap
         /\ C.z = z /\ C.pt = pt /\ C.membpos = membpos
         /\ Text(C) = [i \in 1 .. z - 1 |-> mem[Slot(i, gpt, gap)]]
         /\ \A m \in Marker : Position(C, m) = Place(membpos[m], gpt, gap)
<1>1. /\ C.mem = mem /\ C.gpt = gpt /\ C.gap_size = gap
      /\ C.end_gap_size = endgap /\ C.z = z /\ C.pt = pt /\ C.membpos = membpos
  BY DEF Block
<1>2. Text(C) = [i \in 1 .. z - 1 |-> mem[Slot(i, gpt, gap)]]
  BY <1>1 DEF Text, Slot
<1>3. \A m \in Marker : Position(C, m) = Place(membpos[m], gpt, gap)
  BY <1>1 DEF Position, membpos_to_bytebpos, Place
<1>4. \A i \in 1 .. z - 1 : Text(C)[i] \in Char
  BY <1>2 DEF Layout
<1>5. ASSUME NEW m \in Marker
      PROVE  membpos[m] \notin gpt + 1 .. gpt + gap /\ membpos[m] \in 1 .. z + gap
  <2>1. PICK k \in Int : k = membpos[m]
    BY DEF Layout
  <2> QED
    BY <2>1 DEF Layout
<1>6. membpos \in [Marker -> 1 .. z + gap]
  BY <1>5 DEF Layout
<1>7. C \in [mem : [1 .. z - 1 + gap + endgap -> Char \cup {Free}],
             gpt : 1 .. z, gap_size : Nat, end_gap_size : Nat,
             z : Nat \ {0}, pt : 1 .. z, membpos : [Marker -> 1 .. z + gap]]
  BY <1>6 DEF Block, Layout
<1>8. Sound(C)
  BY <1>1, <1>4, <1>5, <1>7 DEF Sound
<1> QED
  BY <1>1, <1>2, <1>3, <1>8

-----------------------------------------------------------------------------
(***************************************************************************)
(* The gap.                                                                *)
(***************************************************************************)
\* Every change of the gap: other parts, but each character and each marker
\* is at the position that it had.
LEMMA Moved ==
  ASSUME NEW B, NEW C, NEW z, NEW pt,
         NEW mem, NEW gpt, NEW gap, NEW endgap, NEW membpos,
         NEW mem2, NEW gpt2, NEW gap2, NEW endgap2, NEW membpos2,
         B \in Block(mem, gpt, gap, endgap, z, pt, membpos),
         Layout(mem, gpt, gap, endgap, z, pt, membpos),
         C \in Block(mem2, gpt2, gap2, endgap2, z, pt, membpos2),
         Layout(mem2, gpt2, gap2, endgap2, z, pt, membpos2),
         SameText(z, mem, gpt, gap, mem2, gpt2, gap2),
         SamePlaces(membpos, gpt, gap, membpos2, gpt2, gap2)
  PROVE  /\ Sound(C) /\ Shows(C, B)
         /\ C.gpt = gpt2 /\ C.gap_size = gap2 /\ C.end_gap_size = endgap2
<1>1. /\ Sound(C) /\ C.gpt = gpt2 /\ C.gap_size = gap2
      /\ C.end_gap_size = endgap2 /\ C.z = z /\ C.pt = pt
      /\ Text(C) = [i \in 1 .. z - 1 |-> mem2[Slot(i, gpt2, gap2)]]
      /\ \A m \in Marker : Position(C, m) = Place(membpos2[m], gpt2, gap2)
  BY Closed
<1>2. /\ B.z = z /\ B.pt = pt
      /\ Text(B) = [i \in 1 .. z - 1 |-> mem[Slot(i, gpt, gap)]]
      /\ \A m \in Marker : Position(B, m) = Place(membpos[m], gpt, gap)
  BY Closed
<1>3. Text(C) = Text(B)
  BY <1>1, <1>2 DEF SameText
<1>4. \A m \in Marker : Position(C, m) = Position(B, m)
  BY <1>1, <1>2 DEF SamePlaces
<1> QED
  BY <1>1, <1>2, <1>3, <1>4 DEF Shows

LEMMA GapLeft ==
  ASSUME NEW B, Sound(B), NEW p \in 1 .. B.gpt
  PROVE  /\ Sound(gap_left(B, p)) /\ Shows(gap_left(B, p), B)
         /\ gap_left(B, p).gpt = p /\ gap_left(B, p).gap_size = B.gap_size
<1>1. PICK mem, gpt, gap, endgap, z, pt, membpos :
         /\ B \in Block(mem, gpt, gap, endgap, z, pt, membpos)
         /\ Layout(mem, gpt, gap, endgap, z, pt, membpos)
  BY Opened
<1> DEFINE mem2 == [i \in DOMAIN mem |->
                      IF i \in p + gap .. gpt + gap - 1 THEN mem[i - gap]
                      ELSE IF i \in p .. p + gap - 1 THEN Free ELSE mem[i]]
           membpos2 == [m \in Marker |->
                          do_marker_adjustment(membpos[m], p, gpt, gap)]
<1>2. /\ z \in Nat \ {0} /\ gap \in Nat /\ endgap \in Nat
      /\ gpt \in 1 .. z /\ p \in 1 .. gpt
      /\ mem \in [1 .. z - 1 + gap + endgap -> Char \cup {Free}]
  BY <1>1 DEF Block, Layout
<1>3. gap_left(B, p) \in Block(mem2, p, gap, endgap, z, pt, membpos2)
  BY <1>1 DEF Block, gap_left, adjust_markers
<1>4. mem2 \in [1 .. z - 1 + gap + endgap -> Char \cup {Free}]
  BY <1>2
<1>5. ASSUME NEW i \in 1 .. z - 1
      PROVE  mem2[Slot(i, p, gap)]
               = mem[Slot(i, gpt, gap)]
  BY <1>2 DEF Slot
<1>6. ASSUME NEW m \in Marker
      PROVE  /\ membpos2[m] \in Int
             /\ \/ 1 <= membpos2[m] /\ membpos2[m] <= p
                \/ p + gap < membpos2[m] /\ membpos2[m] <= z + gap
             /\ Place(membpos2[m], p, gap) = Place(membpos[m], gpt, gap)
  BY <1>1, <1>2 DEF Layout, do_marker_adjustment, Place
<1> HIDE DEF mem2, membpos2
<1>7. SameText(z, mem, gpt, gap, mem2, p, gap)
  BY <1>5 DEF SameText
<1>8. SamePlaces(membpos, gpt, gap, membpos2, p, gap)
  BY <1>6 DEF SamePlaces
<1>9. Layout(mem2, p, gap, endgap, z, pt, membpos2)
  <2>1. \A i \in 1 .. z - 1 : mem2[Slot(i, p, gap)] \in Char
    BY <1>1, <1>5 DEF Layout
  <2>2. membpos2 \in [Marker -> Int] /\ p \in 1 .. z /\ pt \in 1 .. z
    BY <1>1, <1>2, <1>6 DEF Layout, membpos2
  <2> QED
    BY <1>2, <1>4, <1>6, <2>1, <2>2 DEF Layout
<1>10. B.gap_size = gap
  BY <1>1 DEF Block
<1> QED
  BY <1>1, <1>3, <1>7, <1>8, <1>9, <1>10, Moved

LEMMA GapRight ==
  ASSUME NEW B, Sound(B), NEW p \in B.gpt .. B.z
  PROVE  /\ Sound(gap_right(B, p)) /\ Shows(gap_right(B, p), B)
         /\ gap_right(B, p).gpt = p
<1>1. PICK mem, gpt, gap, endgap, z, pt, membpos :
         /\ B \in Block(mem, gpt, gap, endgap, z, pt, membpos)
         /\ Layout(mem, gpt, gap, endgap, z, pt, membpos)
  BY Opened
<1> DEFINE mem2 == [i \in DOMAIN mem |->
                      IF i \in gpt .. p - 1 THEN mem[i + gap]
                      ELSE IF i \in p .. p + gap - 1 THEN Free ELSE mem[i]]
           membpos2 == [m \in Marker |->
                          do_marker_adjustment(membpos[m], gpt + gap, p + gap, -gap)]
           gap2 == IF p = z THEN gap + endgap ELSE gap
           endgap2 == IF p = z THEN 0 ELSE endgap
<1>2. /\ z \in Nat \ {0} /\ gap \in Nat /\ endgap \in Nat
      /\ gpt \in 1 .. z /\ p \in gpt .. z
      /\ mem \in [1 .. z - 1 + gap + endgap -> Char \cup {Free}]
  BY <1>1 DEF Block, Layout
<1>3. gap_right(B, p) \in Block(mem2, p, gap2, endgap2, z, pt, membpos2)
  BY <1>1 DEF Block, gap_right, adjust_markers
<1>4. mem2 \in [1 .. z - 1 + gap2 + endgap2 -> Char \cup {Free}]
  <2>1. z - 1 + gap2 + endgap2 = z - 1 + gap + endgap
    BY <1>2
  <2>2. mem2 \in [1 .. z - 1 + gap + endgap -> Char \cup {Free}]
    BY <1>2
  <2> QED
    BY <2>1, <2>2
<1>5. ASSUME NEW i \in 1 .. z - 1
      PROVE  mem2[Slot(i, p, gap2)]
               = mem[Slot(i, gpt, gap)]
  BY <1>2 DEF Slot
<1>6. ASSUME NEW m \in Marker
      PROVE  /\ membpos2[m] \in Int
             /\ \/ 1 <= membpos2[m] /\ membpos2[m] <= p
                \/ p + gap2 < membpos2[m] /\ membpos2[m] <= z + gap2
             /\ Place(membpos2[m], p, gap2) = Place(membpos[m], gpt, gap)
  <2>1. PICK k \in Int : /\ k = membpos[m]
                         /\ \/ 1 <= k /\ k <= gpt
                            \/ gpt + gap < k /\ k <= z + gap
    BY <1>1 DEF Layout
  <2>2. membpos2[m] = IF k > gpt + gap /\ k <= p + gap THEN k - gap ELSE k
    BY <1>2, <2>1 DEF do_marker_adjustment
  <2>3. p = z => k <= p + gap
    BY <1>2, <2>1
  <2> QED
    BY <1>2, <2>1, <2>2, <2>3 DEF Place
<1>7. gap2 \in Nat /\ endgap2 \in Nat
  BY <1>2
<1> HIDE DEF mem2, membpos2, gap2, endgap2
<1>8. SameText(z, mem, gpt, gap, mem2, p, gap2)
  BY <1>5 DEF SameText
<1>9. SamePlaces(membpos, gpt, gap, membpos2, p, gap2)
  BY <1>6 DEF SamePlaces
<1>10. Layout(mem2, p, gap2, endgap2, z, pt, membpos2)
  <2>1. \A i \in 1 .. z - 1 : mem2[Slot(i, p, gap2)] \in Char
    BY <1>1, <1>5 DEF Layout
  <2>2. membpos2 \in [Marker -> Int] /\ p \in 1 .. z /\ pt \in 1 .. z
    BY <1>1, <1>2, <1>6 DEF Layout, membpos2
  <2> QED
    BY <1>2, <1>4, <1>6, <1>7, <2>1, <2>2 DEF Layout
<1> QED
  BY <1>1, <1>3, <1>8, <1>9, <1>10, Moved

LEMMA PositionIn ==
  ASSUME NEW B, Sound(B), NEW m \in Marker
  PROVE  Position(B, m) \in 1 .. B.z
<1>1. PICK mem, gpt, gap, endgap, z, pt, membpos :
         /\ B \in Block(mem, gpt, gap, endgap, z, pt, membpos)
         /\ Layout(mem, gpt, gap, endgap, z, pt, membpos)
  BY Opened
<1>2. B.z = z /\ Position(B, m) = Place(membpos[m], gpt, gap)
  BY <1>1, Closed
<1>3. PICK k \in Int : /\ k = membpos[m]
                       /\ \/ 1 <= k /\ k <= gpt
                          \/ gpt + gap < k /\ k <= z + gap
  BY <1>1 DEF Layout
<1>4. z \in Nat /\ gap \in Nat /\ gpt \in 1 .. z
  BY <1>1 DEF Layout
<1> QED
  BY <1>2, <1>3, <1>4 DEF Place

LEMMA Unmoved == \A B : Shows(B, B)
BY DEF Shows

LEMMA MoveGap ==
  ASSUME NEW B, Sound(B), NEW p \in 1 .. B.z
  PROVE  /\ Sound(move_gap(B, p)) /\ Shows(move_gap(B, p), B)
         /\ move_gap(B, p).gpt = p
<1>1. B.z \in Nat /\ B.gpt \in 1 .. B.z
  BY DEF Sound
<1>2. CASE p < B.gpt
  <2>1. p \in 1 .. B.gpt /\ move_gap(B, p) = gap_left(B, p)
    BY <1>1, <1>2 DEF move_gap
  <2> QED
    BY <2>1, GapLeft
<1>3. CASE p > B.gpt
  <2>1. p \in B.gpt .. B.z /\ move_gap(B, p) = gap_right(B, p)
    BY <1>1, <1>3 DEF move_gap
  <2> QED
    BY <2>1, GapRight
<1>4. CASE p = B.gpt
  BY <1>4, Unmoved DEF move_gap
<1> QED
  BY <1>1, <1>2, <1>3, <1>4

\* The end gap joins the gap: the parts of the result.
LEMMA JoinedParts ==
  ASSUME NEW B, NEW mem, NEW gpt, NEW gap, NEW endgap, NEW z, NEW pt, NEW membpos,
         NEW size,
         B \in Block(mem, gpt, gap, endgap, z, pt, membpos),
         Layout(mem, gpt, gap, size, z, pt, membpos)
  PROVE  \E mem2, membpos2 :
           /\ JoinEndGap(B, size)
                \in Block(mem2, gpt, gap + size, 0, z, pt, membpos2)
           /\ Layout(mem2, gpt, gap + size, 0, z, pt, membpos2)
           /\ SameText(z, mem, gpt, gap, mem2, gpt, gap + size)
           /\ SamePlaces(membpos, gpt, gap, membpos2, gpt, gap + size)
<1> DEFINE mem2 == [i \in DOMAIN mem |->
                      IF i \in gpt + gap + size .. z + gap + size - 1
                      THEN mem[i - size]
                      ELSE IF i \in gpt + gap .. gpt + gap + size - 1
                      THEN Free ELSE mem[i]]
           membpos2 == [m \in Marker |->
                          do_marker_adjustment(membpos[m], gpt + gap, z + gap, size)]
           gap2 == gap + size
<1>1. /\ z \in Nat \ {0} /\ gap \in Nat /\ size \in Nat /\ gpt \in 1 .. z
      /\ mem \in [1 .. z - 1 + gap + size -> Char \cup {Free}]
  BY DEF Layout
<1>2. JoinEndGap(B, size) \in Block(mem2, gpt, gap2, 0, z, pt, membpos2)
  <2>1. size + gap = gap2
    BY <1>1
  <2> QED
    BY <2>1 DEF Block, JoinEndGap, gap_left, adjust_markers
<1>3. mem2 \in [1 .. z - 1 + gap2 + 0 -> Char \cup {Free}]
  <2>1. z - 1 + gap2 + 0 = z - 1 + gap + size
    BY <1>1
  <2>2. mem2 \in [1 .. z - 1 + gap + size -> Char \cup {Free}]
    BY <1>1
  <2> QED
    BY <2>1, <2>2
<1>4. ASSUME NEW i \in 1 .. z - 1
      PROVE  mem2[Slot(i, gpt, gap2)] = mem[Slot(i, gpt, gap)]
  BY <1>1 DEF Slot
<1>5. ASSUME NEW m \in Marker
      PROVE  /\ membpos2[m] \in Int
             /\ \/ 1 <= membpos2[m] /\ membpos2[m] <= gpt
                \/ gpt + gap2 < membpos2[m] /\ membpos2[m] <= z + gap2
             /\ Place(membpos2[m], gpt, gap2) = Place(membpos[m], gpt, gap)
  <2>1. PICK k \in Int : /\ k = membpos[m]
                         /\ \/ 1 <= k /\ k <= gpt
                            \/ gpt + gap < k /\ k <= z + gap
    BY DEF Layout
  <2>2. membpos2[m] = IF k > gpt + gap THEN k + size ELSE k
    BY <1>1, <2>1 DEF do_marker_adjustment
  <2> QED
    BY <1>1, <2>1, <2>2, SMTT(30) DEF Place
<1>6. gap2 \in Nat
  BY <1>1
<1> HIDE DEF mem2, membpos2, gap2
<1>7. SameText(z, mem, gpt, gap, mem2, gpt, gap2)
  BY <1>4 DEF SameText
<1>8. SamePlaces(membpos, gpt, gap, membpos2, gpt, gap2)
  BY <1>5 DEF SamePlaces
<1>9. Layout(mem2, gpt, gap2, 0, z, pt, membpos2)
  <2>1. \A i \in 1 .. z - 1 : mem2[Slot(i, gpt, gap2)] \in Char
    BY <1>4 DEF Layout
  <2>2. membpos2 \in [Marker -> Int] /\ pt \in 1 .. z
    BY <1>5 DEF Layout, membpos2
  <2> QED
    BY <1>1, <1>3, <1>5, <1>6, <2>1, <2>2 DEF Layout
<1> QED
  BY <1>2, <1>7, <1>8, <1>9 DEF gap2

LEMMA MergeGap ==
  ASSUME NEW B, Sound(B)
  PROVE  /\ Sound(JoinEndGap(B, B.end_gap_size))
         /\ Shows(JoinEndGap(B, B.end_gap_size), B)
         /\ JoinEndGap(B, B.end_gap_size).gpt = B.gpt
         /\ JoinEndGap(B, B.end_gap_size).gap_size = B.gap_size + B.end_gap_size
<1>1. PICK mem, gpt, gap, endgap, z, pt, membpos :
         /\ B \in Block(mem, gpt, gap, endgap, z, pt, membpos)
         /\ Layout(mem, gpt, gap, endgap, z, pt, membpos)
  BY Opened
<1>2. B.end_gap_size = endgap /\ B.gpt = gpt /\ B.gap_size = gap
  BY <1>1 DEF Block
<1>3. PICK mem2, membpos2 :
         /\ JoinEndGap(B, endgap)
              \in Block(mem2, gpt, gap + endgap, 0, z, pt, membpos2)
         /\ Layout(mem2, gpt, gap + endgap, 0, z, pt, membpos2)
         /\ SameText(z, mem, gpt, gap, mem2, gpt, gap + endgap)
         /\ SamePlaces(membpos, gpt, gap, membpos2, gpt, gap + endgap)
  BY <1>1, JoinedParts
<1> QED
  BY <1>1, <1>2, <1>3, Moved

LEMMA MakeGap ==
  ASSUME NEW B, Sound(B), NEW bytes \in Nat
  PROVE  /\ Sound(make_gap(B, bytes)) /\ Shows(make_gap(B, bytes), B)
         /\ make_gap(B, bytes).gpt = B.gpt
         /\ make_gap(B, bytes).gap_size \in Nat
         /\ make_gap(B, bytes).gap_size >= B.gap_size + bytes
<1> DEFINE increment == bytes + Slack
<1>1. PICK mem, gpt, gap, endgap, z, pt, membpos :
         /\ B \in Block(mem, gpt, gap, endgap, z, pt, membpos)
         /\ Layout(mem, gpt, gap, endgap, z, pt, membpos)
  BY Opened
<1>2. /\ B.end_gap_size = endgap /\ B.gpt = gpt /\ B.gap_size = gap
      /\ B.z = z /\ B.mem = mem
      /\ z \in Nat \ {0} /\ gap \in Nat /\ endgap \in Nat /\ gpt \in 1 .. z
      /\ mem \in [1 .. z - 1 + gap + endgap -> Char \cup {Free}]
      /\ Slack \in Nat
  BY <1>1, SlackAssumption DEF Block, Layout
<1>3. CASE increment <= endgap
  <2>1. make_gap(B, bytes) = JoinEndGap(B, B.end_gap_size)
    BY <1>2, <1>3 DEF make_gap
  <2> QED
    BY <1>2, <1>3, <2>1, MergeGap
<1>4. CASE increment > endgap
  <2> DEFINE grown == [i \in 1 .. z - 1 + gap + increment |->
                         IF i < z + gap THEN mem[i] ELSE Free]
             G == [B EXCEPT !.mem = grown]
  <2>1. make_gap(B, bytes) = JoinEndGap(G, increment)
    BY <1>2, <1>4 DEF make_gap
  <2>2. G \in Block(grown, gpt, gap, endgap, z, pt, membpos)
    BY <1>1 DEF Block
  <2>3. grown \in [1 .. z - 1 + gap + increment -> Char \cup {Free}]
    BY <1>2
  <2>4. ASSUME NEW i \in 1 .. z - 1
        PROVE  grown[Slot(i, gpt, gap)] = mem[Slot(i, gpt, gap)]
    BY <1>2 DEF Slot
  <2>5. increment \in Nat
    BY <1>2
  <2> HIDE DEF grown, G, increment
  <2>6. Layout(grown, gpt, gap, increment, z, pt, membpos)
    <3>1. \A i \in 1 .. z - 1 : grown[Slot(i, gpt, gap)] \in Char
      BY <1>1, <2>4 DEF Layout
    <3> QED
      BY <1>1, <2>3, <2>5, <3>1 DEF Layout
  <2>7. PICK mem2, membpos2 :
          /\ JoinEndGap(G, increment)
               \in Block(mem2, gpt, gap + increment, 0, z, pt, membpos2)
          /\ Layout(mem2, gpt, gap + increment, 0, z, pt, membpos2)
          /\ SameText(z, grown, gpt, gap, mem2, gpt, gap + increment)
          /\ SamePlaces(membpos, gpt, gap, membpos2, gpt, gap + increment)
    BY <2>2, <2>6, JoinedParts
  <2>8. SameText(z, mem, gpt, gap, mem2, gpt, gap + increment)
    BY <2>4, <2>7 DEF SameText
  <2>9. /\ Sound(make_gap(B, bytes)) /\ Shows(make_gap(B, bytes), B)
        /\ make_gap(B, bytes).gpt = gpt
        /\ make_gap(B, bytes).gap_size = gap + increment
    BY <1>1, <2>1, <2>7, <2>8, Moved
  <2> QED
    BY <1>2, <2>5, <2>9 DEF increment
<1> QED
  BY <1>2, <1>3, <1>4

\* Room is made for n characters without a change of the text.
LEMMA Room ==
  ASSUME NEW B, Sound(B), NEW n \in Nat
  PROVE  /\ Sound(RoomFor(B, n)) /\ Shows(RoomFor(B, n), B)
         /\ RoomFor(B, n).gpt = B.gpt
         /\ RoomFor(B, n).gap_size >= n
<1>1. B.gap_size \in Nat /\ B.end_gap_size \in Nat
  BY DEF Sound
<1>2. CASE B.gap_size >= n
  BY <1>2, Unmoved DEF RoomFor
<1>3. CASE B.gap_size < n /\ B.end_gap_size >= n
  <2>1. RoomFor(B, n) = JoinEndGap(B, B.end_gap_size)
    BY <1>1, <1>3 DEF RoomFor, merge_gap_with_end_gap
  <2> QED
    BY <1>1, <1>3, <2>1, MergeGap
<1>4. CASE B.gap_size < n /\ B.end_gap_size < n
  <2>1. RoomFor(B, n) = make_gap(B, n - B.gap_size) /\ n - B.gap_size \in Nat
    BY <1>1, <1>4 DEF RoomFor
  <2>2. B.gap_size + (n - B.gap_size) = n
    BY <1>1
  <2> QED
    BY <1>1, <2>1, <2>2, MakeGap
<1> QED
  BY <1>1, <1>2, <1>3, <1>4

-----------------------------------------------------------------------------
(***************************************************************************)
(* Point and the markers.                                                  *)
(***************************************************************************)

\* The marker of point is where point is.
Pointed(B) == Position(B, point_marker) = B.pt

\* Marker m set to p, with point at q.
MarkerSet(B, m, p, q) ==
  [B EXCEPT !.pt = q, !.membpos[m] = bytebpos_to_membpos(B, p)]

\* A marker is set: the others, and the text, stay.
LEMMA SetMarker ==
  ASSUME NEW B, Sound(B), NEW m \in Marker, NEW p \in 1 .. B.z,
         NEW q \in 1 .. B.z
  PROVE  LET C == MarkerSet(B, m, p, q)
         IN /\ Sound(C) /\ C.z = B.z /\ C.gpt = B.gpt /\ C.gap_size = B.gap_size
            /\ C.pt = q
            /\ Text(C) = Text(B)
            /\ \A k \in Marker : Position(C, k) = IF k = m THEN p
                                                  ELSE Position(B, k)
<1>1. PICK mem, gpt, gap, endgap, z, pt, membpos :
         /\ B \in Block(mem, gpt, gap, endgap, z, pt, membpos)
         /\ Layout(mem, gpt, gap, endgap, z, pt, membpos)
  BY Opened
<1> DEFINE C == MarkerSet(B, m, p, q)
           place == IF p > gpt THEN p + gap ELSE p
           membpos2 == [membpos EXCEPT ![m] = place]
<1>2. /\ z \in Nat \ {0} /\ gap \in Nat /\ gpt \in 1 .. z
      /\ p \in 1 .. z /\ q \in 1 .. z /\ membpos \in [Marker -> Int]
  BY <1>1 DEF Block, Layout
<1>3. C \in Block(mem, gpt, gap, endgap, z, q, membpos2)
  BY <1>1 DEF Block, bytebpos_to_membpos, MarkerSet
<1>4. /\ place \in Int /\ Place(place, gpt, gap) = p
      /\ \/ 1 <= place /\ place <= gpt
         \/ gpt + gap < place /\ place <= z + gap
  BY <1>2 DEF Place
<1> HIDE DEF C, place
<1>5. Layout(mem, gpt, gap, endgap, z, q, membpos2)
  BY <1>1, <1>2, <1>4 DEF Layout
<1> HIDE DEF membpos2
<1>6. /\ Sound(C) /\ C.z = z /\ C.gpt = gpt /\ C.gap_size = gap /\ C.pt = q
      /\ Text(C) = [i \in 1 .. z - 1 |-> mem[Slot(i, gpt, gap)]]
      /\ \A k \in Marker : Position(C, k) = Place(membpos2[k], gpt, gap)
  BY <1>3, <1>5, Closed
<1>7. /\ B.z = z /\ B.gpt = gpt /\ B.gap_size = gap
      /\ Text(B) = [i \in 1 .. z - 1 |-> mem[Slot(i, gpt, gap)]]
      /\ \A k \in Marker : Position(B, k) = Place(membpos[k], gpt, gap)
  BY <1>1, Closed
<1>8. ASSUME NEW k \in Marker
      PROVE  Position(C, k) = IF k = m THEN p ELSE Position(B, k)
  BY <1>2, <1>4, <1>6, <1>7 DEF membpos2
<1>9. Text(C) = Text(B)
  BY <1>6, <1>7
<1> QED
  BY <1>6, <1>7, <1>8, <1>9 DEF C

\* set_buffer_point leaves all but point alone, and its marker follows.
LEMMA SetPoint ==
  ASSUME NEW B, Sound(B), NEW p \in 1 .. B.z, p /= B.pt \/ Pointed(B)
  PROVE  LET C == set_buffer_point(B, p)
         IN /\ Sound(C) /\ C.z = B.z /\ C.gpt = B.gpt /\ C.gap_size = B.gap_size
            /\ C.pt = p /\ Pointed(C)
            /\ Text(C) = Text(B)
            /\ \A m \in Marker \ {point_marker} : Position(C, m) = Position(B, m)
<1>1. CASE p = B.pt
  BY <1>1 DEF set_buffer_point
<1>2. CASE p /= B.pt
  <2> DEFINE C == MarkerSet(B, point_marker, p, p)
  <2>1. set_buffer_point(B, p) = C
    BY <1>2 DEF set_buffer_point, MarkerSet
  <2>2. /\ Sound(C) /\ C.z = B.z /\ C.gpt = B.gpt /\ C.gap_size = B.gap_size
        /\ C.pt = p
        /\ Text(C) = Text(B)
        /\ \A k \in Marker : Position(C, k) = IF k = point_marker THEN p
                                              ELSE Position(B, k)
    BY SetMarker, MarkerAssumption
  <2> HIDE DEF C
  <2> QED
    BY <2>1, <2>2, MarkerAssumption DEF Pointed
<1> QED
  BY <1>1, <1>2

-----------------------------------------------------------------------------
(***************************************************************************)
(* Insertion, deletion and replacement.                                    *)
(***************************************************************************)

\* s inserted into t before position p; t without the characters from p to q.
Ins(t, p, s) ==
  [i \in 1 .. Len(t) + Len(s) |->
     IF i < p THEN t[i] ELSE IF i < p + Len(s) THEN s[i - p + 1]
     ELSE t[i - Len(s)]]

Cut(t, p, q) ==
  [i \in 1 .. Len(t) - (q - p) |-> IF i < p THEN t[i] ELSE t[i + (q - p)]]

\* A function on 1 .. n is a sequence of length n.
LEMMA SeqOf ==
  ASSUME NEW S, NEW n \in Nat, NEW f \in [1 .. n -> S]
  PROVE  f \in Seq(S) /\ Len(f) = n
<1>1. f \in Seq(S)
  BY SeqDef
<1>2. Len(f) \in Nat /\ DOMAIN f = 1 .. Len(f)
  BY <1>1, LenProperties
<1>3. 1 .. n = 1 .. Len(f)
  BY <1>2
<1> QED
  BY <1>1, <1>2, <1>3

LEMMA TextSeq ==
  ASSUME NEW B, Sound(B)
  PROVE  /\ B.z \in Nat \ {0}
         /\ Text(B) \in Seq(Char) /\ Len(Text(B)) = B.z - 1
<1>1. B.z \in Nat \ {0} /\ Text(B) \in [1 .. B.z - 1 -> Char]
  BY DEF Sound, Text
<1> QED
  BY <1>1, SeqOf

\* The part of InsertString after room was made, before point is set.
Fill(room, p, s) ==
  LET n == Len(s)
      filled == [room EXCEPT
                   !.mem = [i \in DOMAIN room.mem |->
                              IF i \in p .. p + n - 1 THEN s[i - p + 1]
                              ELSE room.mem[i]],
                   !.gap_size = @ - n, !.gpt = @ + n, !.z = @ + n,
                   !.pt = IF @ > p THEN @ + n ELSE @]
  IN adjust_markers_for_insert(filled, p, n)

LEMMA Filled ==
  ASSUME NEW R, Sound(R), NEW p \in 1 .. R.z, R.gpt = p,
         NEW s \in Seq(Char), R.gap_size >= Len(s)
  PROVE  LET C == Fill(R, p, s)
             n == Len(s)
         IN /\ Sound(C) /\ C.z = R.z + n /\ C.gpt = p + n
            /\ C.pt = (IF R.pt > p THEN R.pt + n ELSE R.pt)
            /\ Text(C) = Ins(Text(R), p, s)
            /\ \A m \in Marker :
                 Position(C, m) =
                   IF \/ Position(R, m) > p
                      \/ Position(R, m) = p /\ m \in Advance
                   THEN Position(R, m) + n ELSE Position(R, m)
<1>1. PICK mem, gpt, gap, endgap, z, pt, membpos :
         /\ R \in Block(mem, gpt, gap, endgap, z, pt, membpos)
         /\ Layout(mem, gpt, gap, endgap, z, pt, membpos)
  BY Opened
<1>2. PICK n : n = Len(s)
  OBVIOUS
<1> DEFINE C == Fill(R, p, s)
           mem2 == [i \in DOMAIN mem |-> IF i \in p .. p + n - 1 THEN s[i - p + 1]
                                         ELSE mem[i]]
           membpos2 == [m \in Marker |-> IF m \in Advance /\ membpos[m] = p
                                         THEN p + n ELSE membpos[m]]
           z2 == z + n
           gap2 == gap - n
           p2 == p + n
           pt2 == IF pt > p THEN pt + n ELSE pt
<1>3. n \in Nat /\ s \in [1 .. n -> Char]
  BY <1>2, LenProperties
<1>4. /\ z \in Nat \ {0} /\ gap \in Nat /\ endgap \in Nat /\ gap >= n
      /\ gpt = p /\ p \in 1 .. z /\ pt \in 1 .. z
      /\ mem \in [1 .. z - 1 + gap + endgap -> Char \cup {Free}]
  BY <1>1, <1>2 DEF Block, Layout
<1>5. C \in Block(mem2, p2, gap2, endgap, z2, pt2, membpos2)
  BY <1>1, <1>2, <1>4 DEF Block, Fill, adjust_markers_for_insert
<1>6. /\ z2 \in Nat \ {0} /\ gap2 \in Nat /\ p2 \in 1 .. z2 /\ pt2 \in 1 .. z2
      /\ z2 - 1 + gap2 + endgap = z - 1 + gap + endgap
  BY <1>3, <1>4
<1>7. mem2 \in [1 .. z - 1 + gap + endgap -> Char \cup {Free}]
  BY <1>3, <1>4
<1>8. ASSUME NEW i \in 1 .. z2 - 1
      PROVE  mem2[Slot(i, p2, gap2)] =
               IF i < p THEN mem[Slot(i, gpt, gap)]
               ELSE IF i < p + n THEN s[i - p + 1]
               ELSE mem[Slot(i - n, gpt, gap)]
  <2>1. CASE i < p
    BY <1>3, <1>4, <2>1 DEF Slot
  <2>2. CASE p <= i /\ i < p + n
    BY <1>3, <1>4, <2>2 DEF Slot
  <2>3. CASE i >= p + n
    BY <1>3, <1>4, <2>3 DEF Slot
  <2> QED
    BY <1>3, <1>4, <2>1, <2>2, <2>3
<1>9. ASSUME NEW i \in 1 .. z2 - 1
      PROVE  mem2[Slot(i, p2, gap2)] \in Char
  <2>1. \A j \in 1 .. z - 1 : mem[Slot(j, gpt, gap)] \in Char
    BY <1>1 DEF Layout
  <2>2. i < p => i \in 1 .. z - 1
    BY <1>3, <1>4
  <2>3. p <= i /\ i < p + n => i - p + 1 \in 1 .. n
    BY <1>3, <1>4
  <2>4. i >= p + n => i - n \in 1 .. z - 1
    BY <1>3, <1>4
  <2> HIDE DEF mem2
  <2> QED
    BY <1>3, <1>4, <1>8, <2>1, <2>2, <2>3, <2>4
<1>10. ASSUME NEW m \in Marker
       PROVE  /\ membpos2[m] \in Int
              /\ \/ 1 <= membpos2[m] /\ membpos2[m] <= p2
                 \/ p2 + gap2 < membpos2[m] /\ membpos2[m] <= z2 + gap2
              /\ Place(membpos2[m], p2, gap2) =
                   IF \/ Place(membpos[m], gpt, gap) > p
                      \/ Place(membpos[m], gpt, gap) = p /\ m \in Advance
                   THEN Place(membpos[m], gpt, gap) + n
                   ELSE Place(membpos[m], gpt, gap)
  <2>1. PICK k \in Int : /\ k = membpos[m]
                         /\ \/ 1 <= k /\ k <= gpt
                            \/ gpt + gap < k /\ k <= z + gap
    BY <1>1 DEF Layout
  <2>2. CASE m \in Advance /\ k = p
    <3>1. membpos2[m] = p + n
      BY <2>1, <2>2
    <3> QED
      BY <1>3, <1>4, <2>1, <2>2, <3>1 DEF Place
  <2>3. CASE ~(m \in Advance /\ k = p)
    <3>1. membpos2[m] = k
      BY <2>1, <2>3
    <3> QED
      BY <1>3, <1>4, <2>1, <2>3, <3>1 DEF Place
  <2> QED
    BY <2>2, <2>3
<1>11. membpos2 \in [Marker -> Int]
  BY <1>10
<1> HIDE DEF mem2, membpos2, z2, gap2, p2, pt2, C
<1>12. Layout(mem2, p2, gap2, endgap, z2, pt2, membpos2)
  BY <1>4, <1>6, <1>7, <1>9, <1>10, <1>11 DEF Layout
<1>13. /\ Sound(C) /\ C.gpt = p2 /\ C.z = z2 /\ C.pt = pt2
       /\ Text(C) = [i \in 1 .. z2 - 1 |-> mem2[Slot(i, p2, gap2)]]
       /\ \A m \in Marker : Position(C, m) = Place(membpos2[m], p2, gap2)
  BY <1>5, <1>12, Closed
<1>14. /\ R.z = z /\ R.pt = pt
       /\ Text(R) = [i \in 1 .. z - 1 |-> mem[Slot(i, gpt, gap)]]
       /\ \A m \in Marker : Position(R, m) = Place(membpos[m], gpt, gap)
  BY <1>1, Closed
<1>15. Text(C) = Ins(Text(R), p, s)
  <2>1. Len(Text(R)) = z - 1
    BY <1>14, TextSeq
  <2>2. 1 .. z - 1 + n = 1 .. z2 - 1
    BY <1>3, <1>4 DEF z2
  <2>3. Ins(Text(R), p, s) =
          [i \in 1 .. z2 - 1 |->
             IF i < p THEN Text(R)[i] ELSE IF i < p + n THEN s[i - p + 1]
             ELSE Text(R)[i - n]]
    BY <1>2, <2>1, <2>2 DEF Ins
  <2>4. ASSUME NEW i \in 1 .. z2 - 1
        PROVE  mem2[Slot(i, p2, gap2)] =
                 IF i < p THEN Text(R)[i] ELSE IF i < p + n THEN s[i - p + 1]
                 ELSE Text(R)[i - n]
    <3>1. i < p => i \in 1 .. z - 1
      BY <1>3, <1>4
    <3>2. i >= p + n => i - n \in 1 .. z - 1
      BY <1>3, <1>4 DEF z2
    <3>3. p \in Int /\ n \in Int /\ i \in Int
      BY <1>3, <1>4
    <3> QED
      BY <1>8, <1>14, <3>1, <3>2, <3>3
  <2> QED
    BY <1>13, <2>3, <2>4
<1>16. ASSUME NEW m \in Marker
       PROVE  Position(C, m) = IF \/ Position(R, m) > p
                                  \/ Position(R, m) = p /\ m \in Advance
                               THEN Position(R, m) + n ELSE Position(R, m)
  BY <1>10, <1>13, <1>14
<1> QED
  BY <1>2, <1>13, <1>14, <1>15, <1>16 DEF C, z2, p2, pt2

\* Behind an insertion of n characters at p before all markers, those left at
\* p go on to its end.
LEMMA Passed ==
  ASSUME NEW P, Sound(P), NEW p \in Nat \ {0}, NEW n \in Nat \ {0},
         P.gpt = p + n,
         \A m \in Marker : Position(P, m) <= p \/ Position(P, m) >= p + n
  PROVE  LET C == adjust_markers(P, p - 1, p, n)
         IN /\ Sound(C) /\ C.z = P.z /\ C.pt = P.pt
            /\ Text(C) = Text(P)
            /\ \A m \in Marker : Position(C, m) = IF Position(P, m) = p THEN p + n
                                                  ELSE Position(P, m)
<1>1. PICK mem, gpt, gap, endgap, z, pt, membpos :
         /\ P \in Block(mem, gpt, gap, endgap, z, pt, membpos)
         /\ Layout(mem, gpt, gap, endgap, z, pt, membpos)
  BY Opened
<1> DEFINE C == adjust_markers(P, p - 1, p, n)
           membpos2 == [m \in Marker |-> do_marker_adjustment(membpos[m], p - 1, p, n)]
<1>2. /\ z \in Nat \ {0} /\ gap \in Nat /\ endgap \in Nat
      /\ gpt = p + n /\ p + n \in 1 .. z
  BY <1>1 DEF Block, Layout
<1>3. C \in Block(mem, gpt, gap, endgap, z, pt, membpos2)
  BY <1>1 DEF Block, adjust_markers
<1>4. /\ P.z = z /\ P.pt = pt
      /\ Text(P) = [i \in 1 .. z - 1 |-> mem[Slot(i, gpt, gap)]]
      /\ \A m \in Marker : Position(P, m) = Place(membpos[m], gpt, gap)
  BY <1>1, Closed
<1>5. ASSUME NEW m \in Marker
      PROVE  /\ membpos2[m] \in Int
             /\ \/ 1 <= membpos2[m] /\ membpos2[m] <= gpt
                \/ gpt + gap < membpos2[m] /\ membpos2[m] <= z + gap
             /\ Place(membpos2[m], gpt, gap) =
                  IF Place(membpos[m], gpt, gap) = p THEN p + n
                  ELSE Place(membpos[m], gpt, gap)
  <2>1. PICK k \in Int : /\ k = membpos[m]
                         /\ \/ 1 <= k /\ k <= gpt
                            \/ gpt + gap < k /\ k <= z + gap
    BY <1>1 DEF Layout
  <2>2. Place(k, gpt, gap) <= p \/ Place(k, gpt, gap) >= p + n
    BY <1>4, <2>1
  <2>3. k <= p \/ k >= p + n
    BY <1>2, <2>1, <2>2 DEF Place
  <2>4. membpos2[m] = IF k = p THEN p + n ELSE k
    BY <1>2, <2>1, <2>3 DEF do_marker_adjustment
  <2> QED
    BY <1>2, <2>1, <2>4 DEF Place
<1>6. membpos2 \in [Marker -> Int]
  BY <1>5
<1> HIDE DEF membpos2, C
<1>7. Layout(mem, gpt, gap, endgap, z, pt, membpos2)
  BY <1>1, <1>5, <1>6 DEF Layout
<1>8. /\ Sound(C) /\ C.z = z /\ C.pt = pt
      /\ Text(C) = [i \in 1 .. z - 1 |-> mem[Slot(i, gpt, gap)]]
      /\ \A m \in Marker : Position(C, m) = Place(membpos2[m], gpt, gap)
  BY <1>3, <1>7, Closed
<1>9. \A m \in Marker : Position(C, m) = IF Position(P, m) = p THEN p + n
                                         ELSE Position(P, m)
  BY <1>4, <1>5, <1>8
<1>10. Text(C) = Text(P)
  BY <1>4, <1>8
<1> QED
  BY <1>4, <1>8, <1>9, <1>10 DEF C

\* What an insertion does, in all three places.
LEMMA Inserted ==
  ASSUME NEW B, Sound(B), Pointed(B), NEW p \in 1 .. B.z,
         NEW s \in Seq(Char), s /= << >>,
         NEW place \in {"here", "point", "before"}, place /= "here" => p = B.pt
  PROVE  LET C == InsertString(B, p, s, place)
             n == Len(s)
         IN /\ Sound(C) /\ Pointed(C) /\ C.z = B.z + n
            /\ C.pt = (IF B.pt > p \/ place /= "here" THEN B.pt + n ELSE B.pt)
            /\ Text(C) = Ins(Text(B), p, s)
            /\ \A m \in Marker \ {point_marker} :
                 Position(C, m) =
                   IF \/ Position(B, m) > p
                      \/ Position(B, m) = p /\ (place = "before" \/ m \in Advance)
                   THEN Position(B, m) + n ELSE Position(B, m)
<1>1. PICK n : n = Len(s)
  OBVIOUS
<1>2. n \in Nat \ {0}
  BY <1>1, EmptySeq
<1> DEFINE room == RoomFor(move_gap(B, p), n)
           marked == Fill(room, p, s)
           pointed == IF place = "here" THEN marked ELSE set_buffer_point(marked, p + n)
           C == IF place = "before" THEN adjust_markers(pointed, p - 1, p, n)
                ELSE pointed
<1>3. InsertString(B, p, s, place) = C
  BY <1>1 DEF InsertString, Fill
<1>4. /\ Sound(room) /\ Shows(room, B) /\ room.gpt = p /\ room.gap_size >= n
  <2>1. /\ Sound(move_gap(B, p)) /\ Shows(move_gap(B, p), B)
        /\ move_gap(B, p).gpt = p
    BY MoveGap
  <2>2. /\ Sound(room) /\ Shows(room, move_gap(B, p))
        /\ room.gpt = p /\ room.gap_size >= n
    BY <1>2, <2>1, Room
  <2> QED
    BY <2>1, <2>2 DEF Shows
<1>5. B.z \in Nat \ {0} /\ B.pt \in 1 .. B.z
  BY DEF Sound
<1>6. \A m \in Marker : Position(B, m) \in 1 .. B.z
  BY PositionIn
<1> HIDE DEF room
<1>7. /\ Sound(marked) /\ marked.z = B.z + n /\ marked.gpt = p + n
      /\ marked.pt = (IF B.pt > p THEN B.pt + n ELSE B.pt)
      /\ Text(marked) = Ins(Text(B), p, s)
      /\ \A m \in Marker :
           Position(marked, m) =
             IF \/ Position(B, m) > p
                \/ Position(B, m) = p /\ m \in Advance
             THEN Position(B, m) + n ELSE Position(B, m)
  <2>1. /\ room.z = B.z /\ room.pt = B.pt /\ Text(room) = Text(B)
        /\ \A m \in Marker : Position(room, m) = Position(B, m)
    BY <1>4 DEF Shows
  <2>2. p \in 1 .. room.z
    BY <2>1
  <2>3. /\ Sound(marked) /\ marked.z = room.z + n /\ marked.gpt = p + n
        /\ marked.pt = (IF room.pt > p THEN room.pt + n ELSE room.pt)
        /\ Text(marked) = Ins(Text(room), p, s)
        /\ \A m \in Marker :
             Position(marked, m) =
               IF \/ Position(room, m) > p
                  \/ Position(room, m) = p /\ m \in Advance
               THEN Position(room, m) + n ELSE Position(room, m)
    BY <1>1, <1>4, <2>2, Filled
  <2> HIDE DEF marked
  <2> QED
    BY <2>1, <2>3
<1> HIDE DEF marked
<1>8. /\ Sound(pointed) /\ Pointed(pointed) /\ pointed.z = B.z + n
      /\ pointed.gpt = p + n
      /\ pointed.pt = (IF B.pt > p \/ place /= "here" THEN B.pt + n ELSE B.pt)
      /\ Text(pointed) = Ins(Text(B), p, s)
      /\ \A m \in Marker \ {point_marker} :
           Position(pointed, m) =
             IF \/ Position(B, m) > p
                \/ Position(B, m) = p /\ m \in Advance
             THEN Position(B, m) + n ELSE Position(B, m)
  <2>1. CASE place = "here"
    <3>1. point_marker \notin Advance /\ point_marker \in Marker
      BY MarkerAssumption
    <3>2. Position(marked, point_marker) =
             IF B.pt > p THEN B.pt + n ELSE B.pt
      BY <1>7, <3>1 DEF Pointed
    <3> QED
      BY <1>7, <2>1, <3>2 DEF Pointed
  <2>2. CASE place /= "here"
    <3>1. p = B.pt /\ marked.pt = p
      BY <1>5, <1>7, <2>2
    <3>2. p + n \in 1 .. marked.z /\ p + n /= marked.pt
      BY <1>2, <1>5, <1>7, <3>1
    <3>3. pointed = set_buffer_point(marked, p + n)
      BY <2>2
    <3>4. /\ Sound(pointed) /\ Pointed(pointed) /\ pointed.z = marked.z
          /\ pointed.gpt = marked.gpt /\ pointed.pt = p + n
          /\ Text(pointed) = Text(marked)
          /\ \A m \in Marker \ {point_marker} :
               Position(pointed, m) = Position(marked, m)
      BY <1>7, <3>2, <3>3, SetPoint
    <3> HIDE DEF pointed
    <3> QED
      BY <1>7, <2>2, <3>1, <3>4
  <2> QED
    BY <2>1, <2>2
<1> HIDE DEF pointed
<1>9. CASE place /= "before"
  <2>1. C = pointed
    BY <1>9
  <2> QED
    BY <1>1, <1>3, <1>8, <1>9, <2>1
<1>10. CASE place = "before"
  <2>1. p = B.pt /\ pointed.pt = p + n
    BY <1>8, <1>10
  <2>2. ASSUME NEW m \in Marker
        PROVE  Position(pointed, m) <= p \/ Position(pointed, m) >= p + n
    <3>1. CASE m = point_marker
      BY <1>2, <2>1, <1>8, <3>1 DEF Pointed
    <3>2. CASE m /= point_marker
      BY <1>2, <1>6, <1>8, <3>2
    <3> QED
      BY <3>1, <3>2
  <2>3. C = adjust_markers(pointed, p - 1, p, n)
    BY <1>10
  <2>4. /\ Sound(C) /\ C.z = pointed.z /\ C.pt = pointed.pt
        /\ Text(C) = Text(pointed)
        /\ \A m \in Marker : Position(C, m) = IF Position(pointed, m) = p THEN p + n
                                              ELSE Position(pointed, m)
    BY <1>2, <1>8, <2>2, <2>3, Passed
  <2> HIDE DEF C
  <2>5. Pointed(C)
    BY <1>2, <1>8, <2>1, <2>4, MarkerAssumption DEF Pointed
  <2>6. ASSUME NEW m \in Marker \ {point_marker}
        PROVE  Position(C, m) = IF Position(B, m) >= p THEN Position(B, m) + n
                                ELSE Position(B, m)
    <3>1. Position(B, m) \in 1 .. B.z
      BY <1>6
    <3>2. Position(pointed, m) = IF \/ Position(B, m) > p
                                    \/ Position(B, m) = p /\ m \in Advance
                                 THEN Position(B, m) + n ELSE Position(B, m)
      BY <1>8
    <3>3. Position(C, m) = IF Position(pointed, m) = p THEN p + n
                           ELSE Position(pointed, m)
      BY <2>4
    <3> QED
      BY <1>2, <1>5, <3>1, <3>2, <3>3
  <2> QED
    BY <1>1, <1>3, <1>5, <1>6, <1>8, <1>10, <2>1, <2>4, <2>5, <2>6
<1> QED
  BY <1>9, <1>10

\* The part of DeleteRange after the gap was moved near.
Remove(near, from, to, at_end) ==
  LET n == to - from
      marked == adjust_markers(near, to + near.gap_size, to + near.gap_size,
                               -n - (IF at_end THEN 0 ELSE near.gap_size))
      cut == [marked EXCEPT !.z = @ - n,
                            !.pt = IF from < @ THEN IF @ < to THEN from ELSE @ - n
                                   ELSE @]
      freed == IF at_end
               THEN [cut EXCEPT !.end_gap_size = @ + n]
               ELSE [cut EXCEPT !.gap_size = @ + n, !.gpt = from]
      gaps == {i \in DOMAIN freed.mem :
                 \/ i \in freed.gpt .. freed.gpt + freed.gap_size - 1
                 \/ i >= freed.z + freed.gap_size}
  IN [freed EXCEPT !.mem = [i \in DOMAIN freed.mem |->
                              IF i \in gaps THEN Free ELSE freed.mem[i]]]

\* Where position k comes to be when the characters from p to q go.
CutPlace(k, p, q) == IF k <= p THEN k ELSE IF k <= q THEN p ELSE k - (q - p)

LEMMA Removed ==
  ASSUME NEW N, Sound(N), NEW from \in 1 .. N.z, NEW to \in 1 .. N.z, from < to,
         NEW at_end \in BOOLEAN,
         at_end => to = N.z /\ from > N.gpt,
         ~at_end => from <= N.gpt /\ N.gpt <= to
  PROVE  LET C == Remove(N, from, to, at_end)
         IN /\ Sound(C) /\ C.z = N.z - (to - from)
            /\ C.pt = CutPlace(N.pt, from, to)
            /\ Text(C) = Cut(Text(N), from, to)
            /\ \A m \in Marker : Position(C, m) = CutPlace(Position(N, m), from, to)
<1>1. PICK mem, gpt, gap, endgap, z, pt, membpos :
         /\ N \in Block(mem, gpt, gap, endgap, z, pt, membpos)
         /\ Layout(mem, gpt, gap, endgap, z, pt, membpos)
  BY Opened
<1> DEFINE n == to - from
           C == Remove(N, from, to, at_end)
           z2 == z - n
           gpt2 == IF at_end THEN gpt ELSE from
           gap2 == IF at_end THEN gap ELSE gap + n
           endgap2 == IF at_end THEN endgap + n ELSE endgap
           pt2 == IF from < pt THEN IF pt < to THEN from ELSE pt - n ELSE pt
           free == {i \in DOMAIN mem : \/ i \in gpt2 .. gpt2 + gap2 - 1
                                       \/ i >= z2 + gap2}
           mem2 == [i \in DOMAIN mem |-> IF i \in free THEN Free ELSE mem[i]]
           membpos2 == [m \in Marker |->
                          do_marker_adjustment(membpos[m], to + gap, to + gap,
                            -n - (IF at_end THEN 0 ELSE gap))]
<1>2. /\ z \in Nat \ {0} /\ gap \in Nat /\ endgap \in Nat
      /\ gpt \in 1 .. z /\ pt \in 1 .. z
      /\ from \in 1 .. z /\ to \in 1 .. z /\ from < to
      /\ at_end => to = z /\ from > gpt
      /\ ~at_end => from <= gpt /\ gpt <= to
      /\ mem \in [1 .. z - 1 + gap + endgap -> Char \cup {Free}]
  BY <1>1 DEF Block, Layout
<1>3. C \in Block(mem2, gpt2, gap2, endgap2, z2, pt2, membpos2)
  <2> DEFINE marked == adjust_markers(N, to + N.gap_size, to + N.gap_size,
                                      -n - (IF at_end THEN 0 ELSE N.gap_size))
             cut == [marked EXCEPT !.z = @ - n,
                                   !.pt = IF from < @ THEN IF @ < to THEN from
                                                           ELSE @ - n
                                          ELSE @]
             freed == IF at_end
                      THEN [cut EXCEPT !.end_gap_size = @ + n]
                      ELSE [cut EXCEPT !.gap_size = @ + n, !.gpt = from]
  <2>1. marked \in Block(mem, gpt, gap, endgap, z, pt, membpos2)
    BY <1>1 DEF Block, adjust_markers
  <2> HIDE DEF membpos2, marked
  <2>2. cut \in Block(mem, gpt, gap, endgap, z2, pt2, membpos2)
    BY <2>1 DEF Block
  <2> HIDE DEF cut, z2, pt2
  <2>3. freed \in Block(mem, gpt2, gap2, endgap2, z2, pt2, membpos2)
    <3>1. CASE at_end
      BY <2>2, <3>1 DEF Block
    <3>2. CASE ~at_end
      BY <2>2, <3>2 DEF Block
    <3> QED
      BY <3>1, <3>2
  <2> DEFINE gaps == {i \in DOMAIN freed.mem :
                        \/ i \in freed.gpt .. freed.gpt + freed.gap_size - 1
                        \/ i >= freed.z + freed.gap_size}
  <2>4. C = [freed EXCEPT !.mem = [i \in DOMAIN freed.mem |->
                              IF i \in gaps THEN Free ELSE freed.mem[i]]]
    BY DEF Remove, freed, cut, marked
  <2> HIDE DEF freed, C, gpt2, gap2, endgap2
  <2> QED
    BY <2>3, <2>4 DEF Block
<1>4. /\ z2 \in Nat \ {0} /\ gap2 \in Nat /\ endgap2 \in Nat
      /\ gpt2 \in 1 .. z2 /\ pt2 \in 1 .. z2
      /\ z2 - 1 + gap2 + endgap2 = z - 1 + gap + endgap
      /\ pt2 = CutPlace(pt, from, to)
  BY <1>2 DEF CutPlace
<1>5. mem2 \in [1 .. z - 1 + gap + endgap -> Char \cup {Free}]
  BY <1>2
<1>6. ASSUME NEW i \in 1 .. z2 - 1
      PROVE  /\ i >= from => i + n \in 1 .. z - 1
             /\ i < from => i \in 1 .. z - 1
             /\ mem2[Slot(i, gpt2, gap2)] =
                  mem[Slot(IF i < from THEN i ELSE i + n, gpt, gap)]
  <2>1. (i >= from => i + n \in 1 .. z - 1) /\ (i < from => i \in 1 .. z - 1)
    BY <1>2
  <2>2. Slot(i, gpt2, gap2) = Slot(IF i < from THEN i ELSE i + n, gpt, gap)
    BY <1>2 DEF Slot
  <2>3. Slot(i, gpt2, gap2) \in 1 .. z - 1 + gap + endgap
    BY <1>2 DEF Slot
  <2>4. /\ Slot(i, gpt2, gap2) \notin gpt2 .. gpt2 + gap2 - 1
        /\ ~(Slot(i, gpt2, gap2) >= z2 + gap2)
    BY <1>2 DEF Slot
  <2>5. PICK k \in Int : k = Slot(i, gpt2, gap2)
    BY <2>3
  <2> HIDE DEF gpt2, gap2, z2
  <2>6. mem2[k] = mem[k]
    BY <1>2, <2>3, <2>4, <2>5
  <2> QED
    BY <2>1, <2>2, <2>5, <2>6
<1>7. ASSUME NEW m \in Marker
      PROVE  /\ membpos2[m] \in Int
             /\ \/ 1 <= membpos2[m] /\ membpos2[m] <= gpt2
                \/ gpt2 + gap2 < membpos2[m] /\ membpos2[m] <= z2 + gap2
             /\ Place(membpos2[m], gpt2, gap2) =
                  CutPlace(Place(membpos[m], gpt, gap), from, to)
  <2>1. PICK k \in Int : /\ k = membpos[m]
                         /\ \/ 1 <= k /\ k <= gpt
                            \/ gpt + gap < k /\ k <= z + gap
    BY <1>1 DEF Layout
  <2>2. CASE at_end
    <3>1. membpos2[m] = IF k > from + gap /\ k <= to + gap THEN from + gap ELSE k
      BY <1>2, <2>1, <2>2 DEF do_marker_adjustment
    <3> QED
      BY <1>2, <2>1, <2>2, <3>1, SMTT(30) DEF Place, CutPlace
  <2>3. CASE ~at_end
    <3>1. membpos2[m] = IF k > from /\ k <= to + gap THEN from ELSE k
      BY <1>2, <2>1, <2>3 DEF do_marker_adjustment
    <3> QED
      BY <1>2, <2>1, <2>3, <3>1, SMTT(30) DEF Place, CutPlace
  <2> QED
    BY <2>2, <2>3
<1>8. membpos2 \in [Marker -> Int]
  BY <1>7
<1> HIDE DEF mem2, membpos2, gpt2, gap2, endgap2, z2, pt2, C
<1>9. \A i \in 1 .. z2 - 1 : mem2[Slot(i, gpt2, gap2)] \in Char
  <2>1. \A j \in 1 .. z - 1 : mem[Slot(j, gpt, gap)] \in Char
    BY <1>1 DEF Layout
  <2> QED
    BY <1>2, <1>6, <2>1
<1>10. Layout(mem2, gpt2, gap2, endgap2, z2, pt2, membpos2)
  BY <1>4, <1>5, <1>7, <1>8, <1>9 DEF Layout
<1>11. /\ Sound(C) /\ C.z = z2 /\ C.pt = pt2
       /\ Text(C) = [i \in 1 .. z2 - 1 |-> mem2[Slot(i, gpt2, gap2)]]
       /\ \A m \in Marker : Position(C, m) = Place(membpos2[m], gpt2, gap2)
  BY <1>3, <1>10, Closed
<1>12. /\ N.z = z /\ N.pt = pt
       /\ Text(N) = [i \in 1 .. z - 1 |-> mem[Slot(i, gpt, gap)]]
       /\ \A m \in Marker : Position(N, m) = Place(membpos[m], gpt, gap)
  BY <1>1, Closed
<1>13. Text(C) = Cut(Text(N), from, to)
  <2>1. Len(Text(N)) = z - 1
    BY <1>12, TextSeq
  <2>2. 1 .. z - 1 - n = 1 .. z2 - 1
    BY <1>2 DEF z2
  <2>3. Cut(Text(N), from, to) =
          [i \in 1 .. z2 - 1 |-> IF i < from THEN Text(N)[i] ELSE Text(N)[i + n]]
    BY <2>1, <2>2 DEF Cut
  <2>4. ASSUME NEW i \in 1 .. z2 - 1
        PROVE  mem2[Slot(i, gpt2, gap2)] =
                 IF i < from THEN Text(N)[i] ELSE Text(N)[i + n]
    <3>1. i \in Int /\ from \in Int
      BY <1>2
    <3> HIDE DEF n
    <3> QED
      BY <1>6, <1>12, <3>1
  <2> QED
    BY <1>11, <2>3, <2>4
<1>14. \A m \in Marker : Position(C, m) = CutPlace(Position(N, m), from, to)
  BY <1>7, <1>11, <1>12
<1> QED
  BY <1>4, <1>11, <1>12, <1>13, <1>14 DEF C, z2

\* What a deletion does, wherever the gap is.
LEMMA Deleted ==
  ASSUME NEW B, Sound(B), Pointed(B),
         NEW from \in 1 .. B.z, NEW to \in 1 .. B.z, from < to
  PROVE  LET C == DeleteRange(B, from, to)
         IN /\ Sound(C) /\ Pointed(C) /\ C.z = B.z - (to - from)
            /\ C.pt = CutPlace(B.pt, from, to)
            /\ Text(C) = Cut(Text(B), from, to)
            /\ \A m \in Marker : Position(C, m) = CutPlace(Position(B, m), from, to)
<1> DEFINE at_end == to = B.z /\ from > B.gpt
           near == IF at_end THEN B
                   ELSE IF to < B.gpt THEN gap_left(B, to)
                   ELSE IF from > B.gpt THEN gap_right(B, from) ELSE B
           C == Remove(near, from, to, at_end)
<1>1. DeleteRange(B, from, to) = C
  BY DEF DeleteRange, Remove
<1>2. B.z \in Nat \ {0} /\ B.gpt \in 1 .. B.z
  BY DEF Sound
<1>3. /\ Sound(near) /\ Shows(near, B)
      /\ at_end => to = near.z /\ from > near.gpt
      /\ ~at_end => from <= near.gpt /\ near.gpt <= to
  <2>1. CASE at_end
    BY <2>1, Unmoved
  <2>2. CASE ~at_end /\ to < B.gpt
    <3>1. near = gap_left(B, to) /\ to \in 1 .. B.gpt
      BY <1>2, <2>2
    <3> HIDE DEF near
    <3> QED
      BY <1>2, <2>2, <3>1, GapLeft
  <2>3. CASE ~at_end /\ ~(to < B.gpt) /\ from > B.gpt
    <3>1. near = gap_right(B, from) /\ from \in B.gpt .. B.z
      BY <1>2, <2>3
    <3> HIDE DEF near
    <3> QED
      BY <1>2, <2>3, <3>1, GapRight
  <2>4. CASE ~at_end /\ ~(to < B.gpt) /\ ~(from > B.gpt)
    <3>1. near = B
      BY <2>4
    <3> HIDE DEF near
    <3> QED
      BY <1>2, <2>4, <3>1, Unmoved
  <2> QED
    BY <2>1, <2>2, <2>3, <2>4
<1>4. at_end \in BOOLEAN
  OBVIOUS
<1> HIDE DEF near, at_end
<1>5. /\ near.z = B.z /\ near.pt = B.pt /\ Text(near) = Text(B)
      /\ \A m \in Marker : Position(near, m) = Position(B, m)
  BY <1>3 DEF Shows
<1>6. /\ Sound(C) /\ C.z = near.z - (to - from)
      /\ C.pt = CutPlace(near.pt, from, to)
      /\ Text(C) = Cut(Text(near), from, to)
      /\ \A m \in Marker : Position(C, m) = CutPlace(Position(near, m), from, to)
  <2>1. from \in 1 .. near.z /\ to \in 1 .. near.z
    BY <1>5
  <2> QED
    BY <1>3, <1>4, <2>1, Removed
<1> HIDE DEF C
<1>7. Pointed(C)
  BY <1>5, <1>6, MarkerAssumption DEF Pointed
<1> QED
  BY <1>1, <1>5, <1>6, <1>7

\* What a replacement by a character of the same length does.
LEMMA Replaced ==
  ASSUME NEW B, Sound(B), NEW p \in 1 .. B.z - 1, NEW c \in Char
  PROVE  LET C == ReplaceChar(B, p, c)
         IN /\ Sound(C) /\ C.z = B.z /\ C.pt = B.pt
            /\ Text(C) = [Text(B) EXCEPT ![p] = c]
            /\ \A m \in Marker : Position(C, m) = Position(B, m)
<1>1. PICK mem, gpt, gap, endgap, z, pt, membpos :
         /\ B \in Block(mem, gpt, gap, endgap, z, pt, membpos)
         /\ Layout(mem, gpt, gap, endgap, z, pt, membpos)
  BY Opened
<1> DEFINE C == ReplaceChar(B, p, c)
           at == Slot(p, gpt, gap)
           mem2 == [mem EXCEPT ![at] = c]
<1>2. /\ z \in Nat \ {0} /\ gap \in Nat /\ endgap \in Nat /\ gpt \in 1 .. z
      /\ p \in 1 .. z - 1
      /\ mem \in [1 .. z - 1 + gap + endgap -> Char \cup {Free}]
  BY <1>1 DEF Block, Layout
<1>3. C \in Block(mem2, gpt, gap, endgap, z, pt, membpos)
  <2>1. bytebpos_to_membpos(B, p) + (IF p = B.gpt THEN B.gap_size ELSE 0) = at
    <3>1. B.gpt = gpt /\ B.gap_size = gap
      BY <1>1 DEF Block
    <3> QED
      BY <1>2, <3>1 DEF bytebpos_to_membpos, Slot
  <2> HIDE DEF at
  <2> QED
    BY <1>1, <2>1 DEF Block, ReplaceChar
<1>4. ASSUME NEW i \in 1 .. z - 1
      PROVE  mem2[Slot(i, gpt, gap)] = IF i = p THEN c ELSE mem[Slot(i, gpt, gap)]
  BY <1>2 DEF Slot
<1>5. mem2 \in [1 .. z - 1 + gap + endgap -> Char \cup {Free}]
  BY <1>2
<1> HIDE DEF mem2, C
<1>6. Layout(mem2, gpt, gap, endgap, z, pt, membpos)
  BY <1>1, <1>4, <1>5 DEF Layout
<1>7. /\ Sound(C) /\ C.z = z /\ C.pt = pt
      /\ Text(C) = [i \in 1 .. z - 1 |-> mem2[Slot(i, gpt, gap)]]
      /\ \A m \in Marker : Position(C, m) = Place(membpos[m], gpt, gap)
  BY <1>3, <1>6, Closed
<1>8. /\ B.z = z /\ B.pt = pt
      /\ Text(B) = [i \in 1 .. z - 1 |-> mem[Slot(i, gpt, gap)]]
      /\ \A m \in Marker : Position(B, m) = Place(membpos[m], gpt, gap)
  BY <1>1, Closed
<1>9. Text(C) = [Text(B) EXCEPT ![p] = c]
  BY <1>2, <1>4, <1>7, <1>8, ZenonT(60)
<1> QED
  BY <1>7, <1>8, <1>9 DEF C
==============================================================================
