------------------------------ MODULE FlatText ------------------------------
(***************************************************************************)
(* What a buffer promises: a sequence of characters, and markers that stay *)
(* with their text.  Position p lies before the p-th character.            *)
(***************************************************************************)
EXTENDS Naturals, Sequences

CONSTANTS
  Char,
  Marker,
  Advance   \* the markers whose insertion type is t

VARIABLES
  text,
  pos       \* pos[m]: the position of marker m

vars == <<text, pos>>

Positions == 1 .. Len(text) + 1

Init ==
  /\ text \in Seq(Char)
  /\ pos \in [Marker -> Positions]

\* A marker at the place of an insertion stays before the new text, unless it
\* advances or the insertion goes before all markers.
Insert(p, s, before) ==
  /\ s \in Seq(Char)
  /\ p \in Positions
  /\ text' = SubSeq(text, 1, p - 1) \o s \o SubSeq(text, p, Len(text))
  /\ pos' = [m \in Marker |->
               IF pos[m] > p \/ (pos[m] = p /\ (before \/ m \in Advance))
               THEN pos[m] + Len(s) ELSE pos[m]]

\* A marker inside a deleted range comes to lie at its beginning.
Delete(p, q) ==
  /\ p \in Positions /\ q \in Positions /\ p < q
  /\ text' = SubSeq(text, 1, p - 1) \o SubSeq(text, q, Len(text))
  /\ pos' = [m \in Marker |->
               IF pos[m] <= p THEN pos[m]
               ELSE IF pos[m] <= q THEN p ELSE pos[m] - (q - p)]

Replace(p, c) ==
  /\ p \in DOMAIN text
  /\ text' = [text EXCEPT ![p] = c]
  /\ UNCHANGED pos

SetMarker(m, p) ==
  /\ p \in Positions
  /\ pos' = [pos EXCEPT ![m] = p]
  /\ UNCHANGED text

\* An insertion of any characters: those that the new text has at p.
Next ==
  \/ \E p \in Positions, before \in BOOLEAN :
        LET n == Len(text') - Len(text)
        IN n > 0 /\ Insert(p, SubSeq(text', p, p + n - 1), before)
  \/ \E p \in Positions, q \in Positions : Delete(p, q)
  \/ \E p \in Positions, c \in Char : Replace(p, c)
  \/ \E m \in Marker, p \in Positions : SetMarker(m, p)

Spec == Init /\ [][Next]_vars
=============================================================================
