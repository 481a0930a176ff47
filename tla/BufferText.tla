----------------------------- MODULE BufferText -----------------------------
(***************************************************************************)
(* The text of a buffer (insdel.c), its markers (marker.c) and its undo    *)
(* list (undo.c), for one buffer that is not narrowed, with one byte per   *)
(* character.                                                              *)
(*                                                                         *)
(* The text is kept in one block of memory: the characters before the gap, *)
(* the gap, the characters after it, and the end gap, which deleting at    *)
(* the end of the buffer makes.  A marker holds a memory position, so      *)
(* moving the gap must move the markers and nothing else.                  *)
(*                                                                         *)
(* The insertions, deletions and gap motions are functions from one buffer *)
(* to the next: nothing else runs while they do, but a quit (C-g) may stop *)
(* a gap motion half-way and the command with it.  Undoing goes entry by   *)
(* entry, since each entry is such a change and each may be quit.          *)
(***************************************************************************)
EXTENDS Naturals, Integers, Sequences, FiniteSetsExt

CONSTANTS
  Char,
  Free,        \* what a gap holds
  Marker,      \* the markers, the one that follows point among them
  Advance,     \* those whose insertion-type is t
  point_marker,
  FileSize,    \* the characters of the visited file
  Slack,       \* the extra bytes make_gap asks for, beyond those needed
  undo_threshold, undo_high_threshold,   \* counted in entries
  MaxText,     \* bound on the characters of a buffer without undo
  MaxUndoText, \* bound on the characters of a buffer with undo
  MaxInsert,   \* bound on the characters of one insertion
  MaxEdit,     \* bound on the undo list when a command starts
  MaxUndo,     \* bound on the undo list when an undo command starts
  None

ASSUME MarkerAssumption ==
  Advance \subseteq Marker \ {point_marker} /\ point_marker \in Marker
ASSUME SlackAssumption == Slack \in Nat
ASSUME ThresholdAssumption ==
  undo_threshold \in Nat /\ undo_high_threshold \in Nat
ASSUME BoundAssumption == FileSize \in Nat /\ MaxInsert \in Nat

VARIABLES
  b,          \* the buffer: mem, gpt, gap_size, end_gap_size, z, pt, membpos
  undo_list,  \* buffer-undo-list, the newest entry first, and an "end" entry;
              \* None for t, when the buffer keeps no undo information
  pending,    \* pending-undo-list, or None when the last command was no undo
  undoing,    \* how many groups the running undo command has still to undo
  modified,   \* MODIFF is past SAVE_MODIFF
  saved,      \* history: the text last saved; None when an undo was quit that
              \* had marked the buffer unmodified already
  want        \* history: the text at the boundary that an undo came to, None
              \* from the next change on

vars == <<b, undo_list, pending, undoing, modified, saved, want>>

-----------------------------------------------------------------------------
(***************************************************************************)
(* Positions and memory positions.                                         *)
(***************************************************************************)

bytebpos_to_membpos(B, p) == IF p > B.gpt THEN p + B.gap_size ELSE p

membpos_to_bytebpos(B, p) == IF p > B.gpt THEN p - B.gap_size ELSE p

\* BYTE_BUF_FETCH_CHAR for every position.
Text(B) ==
  [p \in 1 .. B.z - 1 |-> B.mem[IF p < B.gpt THEN p ELSE p + B.gap_size]]

Position(B, m) == membpos_to_bytebpos(B, B.membpos[m])

\* Mutant of do_marker_adjustment: FROM is taken to be inclusive.
marker_adjustment_inclusive(mpos, from, to, amount) ==
  IF from <= mpos /\ mpos <= to THEN mpos + amount ELSE mpos

\* Mutant of do_marker_adjustment: a marker in text that goes away is not
\* brought to its edge first.
marker_adjustment_unclamped(mpos, from, to, amount) ==
  IF mpos > from /\ mpos <= to THEN mpos + amount ELSE mpos

do_marker_adjustment(mpos, from, to, amount) ==
  LET near == IF amount > 0
              THEN IF mpos > to /\ mpos < to + amount THEN to + amount ELSE mpos
              ELSE IF mpos > from + amount /\ mpos <= from
                   THEN from + amount ELSE mpos
  IN IF near > from /\ near <= to THEN near + amount ELSE near

adjust_markers(B, from, to, amount) ==
  [B EXCEPT !.membpos = [m \in Marker |->
     do_marker_adjustment(B.membpos[m], from, to, amount)]]

adjust_markers_for_insert(B, ind, amount) ==
  [B EXCEPT !.membpos = [m \in Marker |->
     IF m \in Advance /\ B.membpos[m] = ind THEN ind + amount ELSE B.membpos[m]]]

-----------------------------------------------------------------------------
(***************************************************************************)
(* The gap.                                                                *)
(***************************************************************************)

\* The gap goes down to p: the characters in between go up.
gap_left(B, p) ==
  LET mem == [i \in DOMAIN B.mem |->
                IF i \in p + B.gap_size .. B.gpt + B.gap_size - 1
                THEN B.mem[i - B.gap_size]
                ELSE IF i \in p .. p + B.gap_size - 1 THEN Free ELSE B.mem[i]]
  IN [adjust_markers(B, p, B.gpt, B.gap_size) EXCEPT !.mem = mem, !.gpt = p]

\* The gap goes up to p; at the end of the text it swallows the end gap.
gap_right(B, p) ==
  LET mem == [i \in DOMAIN B.mem |->
                IF i \in B.gpt .. p - 1 THEN B.mem[i + B.gap_size]
                ELSE IF i \in p .. p + B.gap_size - 1 THEN Free ELSE B.mem[i]]
      moved == [adjust_markers(B, B.gpt + B.gap_size, p + B.gap_size, -B.gap_size)
                  EXCEPT !.mem = mem, !.gpt = p]
  IN IF p = B.z
     THEN [moved EXCEPT !.gap_size = @ + B.end_gap_size, !.end_gap_size = 0]
     ELSE moved

move_gap(B, p) ==
  IF p < B.gpt THEN gap_left(B, p)
  ELSE IF p > B.gpt THEN gap_right(B, p) ELSE B

\* The end gap, now of that size, is taken for the gap and moved down to the
\* old gap, of which it becomes a part.
JoinEndGap(B, size) ==
  LET pretend == [B EXCEPT !.gpt = B.z + B.gap_size, !.gap_size = size,
                           !.end_gap_size = 0]
      joined == gap_left(pretend, B.gpt + B.gap_size)
  IN [joined EXCEPT !.gap_size = @ + B.gap_size, !.gpt = B.gpt]

merge_gap_with_end_gap(B) ==
  IF B.end_gap_size > 0 THEN JoinEndGap(B, B.end_gap_size) ELSE B

\* A gap larger by at least that many bytes: the block is reallocated, unless
\* the end gap will do.
make_gap(B, bytes) ==
  LET increment == bytes + Slack
      size == B.z - 1 + B.gap_size + increment
  IN IF increment > B.end_gap_size
     THEN JoinEndGap([B EXCEPT !.mem = [i \in 1 .. size |->
                        IF i < B.z + B.gap_size THEN B.mem[i] ELSE Free]],
                     increment)
     ELSE JoinEndGap(B, B.end_gap_size)

-----------------------------------------------------------------------------
(***************************************************************************)
(* Insertion, deletion and replacement, without the undo list.             *)
(***************************************************************************)

set_buffer_point(B, p) ==
  IF p = B.pt THEN B
  ELSE [B EXCEPT !.pt = p, !.membpos[point_marker] = bytebpos_to_membpos(B, p)]

RoomFor(B, n) ==
  IF B.gap_size >= n THEN B
  ELSE IF B.end_gap_size >= n THEN merge_gap_with_end_gap(B)
  ELSE make_gap(B, n - B.gap_size)

\* buffer_insert_string_1 at p: place is "here", "point" (p is point, which
\* moves past the text) or "before" (the same, and so do the markers there).
InsertString(B, p, s, place) ==
  LET n == Len(s)
      room == RoomFor(move_gap(B, p), n)
      filled == [room EXCEPT
                   !.mem = [i \in DOMAIN room.mem |->
                              IF i \in p .. p + n - 1 THEN s[i - p + 1]
                              ELSE room.mem[i]],
                   !.gap_size = @ - n, !.gpt = @ + n, !.z = @ + n,
                   !.pt = IF @ > p THEN @ + n ELSE @]
      marked == adjust_markers_for_insert(filled, p, n)
      pointed == IF place = "here" THEN marked ELSE set_buffer_point(marked, p + n)
  IN IF place = "before" THEN adjust_markers(pointed, p - 1, p, n) ELSE pointed

\* Mutant of DeleteRange: markers are relocated as if the gap had moved.
DeleteRangeAtEnd(B, from, to) ==
  LET n == to - from
      at_end == to = B.z /\ from > B.gpt
      near == IF at_end THEN B
              ELSE IF to < B.gpt THEN gap_left(B, to)
              ELSE IF from > B.gpt THEN gap_right(B, from) ELSE B
      marked == adjust_markers(near, to + near.gap_size, to + near.gap_size,
                               -n - near.gap_size)
      cut == [marked EXCEPT !.z = @ - n,
                            !.pt = IF from < @ THEN IF @ < to THEN from ELSE @ - n
                                   ELSE @]
      freed == IF at_end
               THEN [cut EXCEPT !.end_gap_size = @ + n]
               ELSE [cut EXCEPT !.gap_size = @ + n, !.gpt = from]
  IN freed

\* buffer_delete_range: the deleted bytes join the gap, or the end gap when
\* they are the last ones and the gap is elsewhere.
DeleteRange(B, from, to) ==
  LET n == to - from
      at_end == to = B.z /\ from > B.gpt
      near == IF at_end THEN B
              ELSE IF to < B.gpt THEN gap_left(B, to)
              ELSE IF from > B.gpt THEN gap_right(B, from) ELSE B
      marked == adjust_markers(near, to + near.gap_size, to + near.gap_size,
                               -n - (IF at_end THEN 0 ELSE near.gap_size))
      cut == [marked EXCEPT !.z = @ - n,
                            !.pt = IF from < @ THEN IF @ < to THEN from ELSE @ - n
                                   ELSE @]
      freed == IF at_end
               THEN [cut EXCEPT !.end_gap_size = @ + n]
               ELSE [cut EXCEPT !.gap_size = @ + n, !.gpt = from]
      gaps == {i \in DOMAIN freed.mem :
                 \/ i \in freed.gpt .. freed.gpt + freed.gap_size - 1
                 \/ i >= freed.z + freed.gap_size}
  IN [freed EXCEPT !.mem = [i \in DOMAIN freed.mem |->
                              IF i \in gaps THEN Free ELSE freed.mem[i]]]

\* buffer_replace_char by a character of the same length.
ReplaceChar(B, p, c) ==
  [B EXCEPT !.mem[bytebpos_to_membpos(B, p) +
                  (IF p = B.gpt THEN B.gap_size ELSE 0)] = c]

-----------------------------------------------------------------------------
(***************************************************************************)
(* The undo list.  A boundary, which is nil in the code, and the end of    *)
(* the list carry the text that the buffer had there.                      *)
(***************************************************************************)

Marks == {"boundary", "end"}

Entry ==
  [kind : Marks, text : Seq(Char)]
    \cup [kind : {"unmodified"}, obsolete : BOOLEAN]
    \cup [kind : {"insert"}, beg : Nat, end : Nat]
    \cup [kind : {"delete"}, beg : Nat, after : BOOLEAN, str : Seq(Char)]

\* None is no undo list.
ASSUME NoneAssumption == None \notin Seq(Entry)

undo_boundary(list) ==
  IF list = None \/ list[1].kind \in Marks THEN list
  ELSE <<[kind |-> "boundary", text |-> Text(b)]>> \o list

\* An unmodified buffer is about to change: (t . MODTIME), which is obsolete
\* once the buffer has been saved again.
undo_prelude(list) ==
  IF modified THEN list
  ELSE <<[kind |-> "unmodified", obsolete |-> FALSE]>> \o list

\* Mutant of record_insert: an insertion in front of the last one is merged too.
record_insert_merging(list, beg, n) ==
  LET l == undo_prelude(list)
  IN IF list = None THEN None
     ELSE IF l[1].kind = "insert" /\ beg \in {l[1].beg, l[1].end}
     THEN [l EXCEPT ![1].end = beg + n]
     ELSE <<[kind |-> "insert", beg |-> beg, end |-> beg + n]>> \o l

record_insert(list, beg, n) ==
  LET l == undo_prelude(list)
  IN IF list = None THEN None
     ELSE IF l[1].kind = "insert" /\ l[1].end = beg
     THEN [l EXCEPT ![1].end = beg + n]
     ELSE <<[kind |-> "insert", beg |-> beg, end |-> beg + n]>> \o l

\* (STRING . BEG), or (STRING . -BEG) when point was after the text.
record_delete(list, beg, n, pt) ==
  IF list = None THEN None
  ELSE <<[kind |-> "delete", beg |-> beg, after |-> pt = beg + n,
          str |-> SubSeq(Text(b), beg, beg + n - 1)]>> \o undo_prelude(list)

record_change(list, beg, n) == 
  record_insert(record_delete(list, beg, n, b.pt), beg, n)

\* Cut the list before entry k, a boundary.
CutAt(list, k) ==
  SubSeq(list, 1, k - 1) \o <<[kind |-> "end", text |-> list[k].text]>>

Obsolete(list) ==
  [i \in DOMAIN list |-> IF list[i].kind = "unmodified"
                         THEN [list[i] EXCEPT !.obsolete = TRUE] ELSE list[i]]

-----------------------------------------------------------------------------
\* A buffer that visits a file of that text.
Visiting(text) ==
  LET n == Len(text)
  IN [mem |-> [i \in 1 .. Slack + n |-> IF i <= Slack THEN Free ELSE text[i - Slack]],
      gpt |-> 1, gap_size |-> Slack, end_gap_size |-> 0, z |-> n + 1, pt |-> 1,
      membpos |-> [m \in Marker |-> 1]]

Init ==
  \E text \in [1 .. FileSize -> Char] :
    /\ b = Visiting(text)
    /\ undo_list \in {<<[kind |-> "end", text |-> text]>>, None}
    /\ pending = None
    /\ undoing = 0
    /\ modified = FALSE
    /\ saved = text
    /\ want = None

Strings == UNION {[1 .. n -> Char] : n \in 1 .. MaxInsert}

\* A command other than undo: last-command is no longer undo.
Command ==
  /\ undoing = 0
  /\ undo_list # None => Len(undo_list) <= MaxEdit
  /\ pending' = None
  /\ want' = None
  /\ UNCHANGED <<undoing, saved>>

buffer_insert_string_1(p, s, place) ==
  /\ Command
  /\ b.z - 1 + Len(s) <= IF undo_list = None THEN MaxText ELSE MaxUndoText
  /\ place # "here" => p = b.pt
  /\ b' = InsertString(b, p, s, place)
  /\ undo_list' = record_insert(undo_list, p, Len(s))
  /\ modified' = TRUE

buffer_delete_range(from, to) ==
  /\ Command
  /\ from < to
  /\ b' = DeleteRange(b, from, to)
  /\ undo_list' = record_delete(undo_list, from, to - from, b.pt)
  /\ modified' = TRUE

\* With a character of the same length; MODIFF grows after both records.
buffer_replace_char(p, c) ==
  /\ Command
  /\ p < b.z
  /\ b' = ReplaceChar(b, p, c)
  /\ undo_list' = record_change(undo_list, p, 1)
  /\ modified' = TRUE

Fgoto_char(p) ==
  /\ Command
  /\ p # b.pt
  /\ b' = set_buffer_point(b, p)
  /\ UNCHANGED <<undo_list, modified>>

set_marker_internal(m, p) ==
  /\ Command
  /\ m # point_marker
  /\ undo_list = None   \* bound: with undo on, only the text moves markers
  /\ b' = [b EXCEPT !.membpos[m] = bytebpos_to_membpos(b, p)]
  /\ UNCHANGED <<undo_list, modified>>

\* A quit on the way to an insertion or a deletion: the gap stops at p, and
\* the command with it.
Quit(p) ==
  /\ Command
  /\ b' = move_gap(b, p)
  /\ UNCHANGED <<undo_list, modified>>

\* save-buffer, and Fwrite_region: the file gets a new modification time.
Save ==
  /\ undoing = 0
  /\ modified
  /\ pending' = None
  /\ want' = None
  /\ modified' = FALSE
  /\ saved' = Text(b)
  /\ undo_list' = IF undo_list = None THEN None ELSE Obsolete(undo_list)
  /\ UNCHANGED <<b, undoing>>

\* The command loop ends a group before most commands.
Fundo_boundary ==
  /\ undoing = 0
  /\ undo_list' = undo_boundary(undo_list)
  /\ UNCHANGED <<b, pending, undoing, modified, saved, want>>

\* Garbage is collected between two commands.  The list is cut at the first
\* boundary, after the newest group, that the lower threshold does not cover,
\* or at the one before it when that is beyond the higher threshold too.  A
\* pending list that begins behind the cut keeps its entries.
truncate_undo_list ==
  LET list == undo_list
      bounds == {k \in DOMAIN list \ {1} : list[k].kind = "boundary"}
      stop == Min({k \in bounds : k - 1 > undo_threshold})
      before == {k \in bounds : k < stop}
      cut == IF stop - 1 > undo_high_threshold /\ before # {}
             THEN Max(before) ELSE stop
      skipped == Len(list) - Len(pending)
      shared == /\ pending # None
                /\ skipped \in 0 .. cut - 2
                /\ pending = SubSeq(list, skipped + 1, Len(list))
  IN /\ undoing = 0 /\ list # None
     /\ \E k \in bounds : k - 1 > undo_threshold
     /\ undo_list' = CutAt(list, cut)
     /\ pending' = IF shared THEN CutAt(pending, cut - skipped) ELSE pending
     /\ UNCHANGED <<b, undoing, modified, saved, want>>

-----------------------------------------------------------------------------
(***************************************************************************)
(* The undo command: undo and undo-more (simple.el), primitive-undo        *)
(* (undo.c), entry by entry.                                               *)
(***************************************************************************)

\* The first of a run of undo commands starts at the front of the list, with
\* one group more, which is the boundary just made; with nothing left to undo
\* it signals an error.
undo ==
  LET list == IF pending = None THEN undo_list ELSE pending
  IN /\ undoing = 0
     /\ undo_list # None => Len(undo_list) <= MaxUndo
     /\ IF list = None \/ list[1].kind = "end"
        THEN pending' = None /\ undoing' = 0
        ELSE pending' = list /\ undoing' = IF pending = None THEN 2 ELSE 1
     /\ want' = None
     /\ UNCHANGED <<b, undo_list, modified, saved>>

\* A group ends at entry Head(pending), where the text should be t.
EndGroup(rest, t) ==
  /\ want' = t
  /\ IF undoing = 2 /\ rest[1].kind = "end"
     THEN undoing' = 0 /\ pending' = None
     ELSE undoing' = undoing - 1 /\ pending' = rest
  /\ UNCHANGED <<b, undo_list, modified, saved>>

UndoMark ==
  /\ undoing > 0 /\ pending[1].kind \in Marks
  /\ EndGroup(IF pending[1].kind = "end" THEN pending ELSE Tail(pending),
              pending[1].text)

\* Mutant of UndoUnmodified: the file's modification time is not compared.
UndoUnmodifiedAlways ==
  /\ undoing > 0 /\ pending[1].kind = "unmodified"
  /\ modified' = FALSE /\ pending' = Tail(pending)
  /\ UNCHANGED <<b, undo_list, undoing, saved, want>>

\* (t . MODTIME): an obsolete one leaves the loop, as a boundary does.
UndoUnmodified ==
  /\ undoing > 0 /\ pending[1].kind = "unmodified"
  /\ IF pending[1].obsolete
     THEN EndGroup(Tail(pending), None)
     ELSE /\ modified' = FALSE /\ pending' = Tail(pending)
          /\ UNCHANGED <<b, undo_list, undoing, saved, want>>

\* The text of (BEG . END) is deleted, from point on.
UndoInsert ==
  LET e == pending[1]
  IN /\ undoing > 0 /\ e.kind = "insert"
     /\ b' = DeleteRange(set_buffer_point(b, e.beg), e.beg, e.end)
     /\ undo_list' = record_delete(undo_list, e.beg, e.end - e.beg, e.beg)
     /\ pending' = Tail(pending)
     /\ modified' = TRUE
     /\ want' = None
     /\ UNCHANGED <<undoing, saved>>

\* STRING is inserted again; point goes where it was.
UndoDelete ==
  LET e == pending[1]
      B == InsertString(set_buffer_point(b, e.beg), e.beg, e.str, "point")
  IN /\ undoing > 0 /\ e.kind = "delete"
     /\ b' = IF e.after THEN B ELSE set_buffer_point(B, e.beg)
     /\ undo_list' = record_insert(undo_list, e.beg, Len(e.str))
     /\ pending' = Tail(pending)
     /\ modified' = TRUE
     /\ want' = None
     /\ UNCHANGED <<undoing, saved>>

\* A quit while the gap moves for an entry: point is set, the rest is not done.
UndoQuit(p) ==
  LET e == pending[1]
      goal == IF e.kind = "insert" /\ e.end < b.gpt THEN e.end ELSE e.beg
  IN /\ undoing > 0 /\ e.kind \in {"insert", "delete"}
     /\ p \in b.gpt .. goal \/ p \in goal .. b.gpt
     /\ b' = move_gap(set_buffer_point(b, e.beg), p)
     /\ undoing' = 0
     /\ pending' = None
     /\ saved' = IF modified THEN saved ELSE None
     /\ want' = None
     /\ UNCHANGED <<undo_list, modified>>

-----------------------------------------------------------------------------
Positions == 1 .. b.z

Next ==
  \/ \E p \in Positions, s \in Strings, place \in {"here", "point", "before"} :
        buffer_insert_string_1(p, s, place)
  \/ \E from \in Positions, to \in Positions : buffer_delete_range(from, to)
  \/ \E p \in Positions, c \in Char : buffer_replace_char(p, c)
  \/ \E p \in Positions : Fgoto_char(p) \/ Quit(p) \/ UndoQuit(p)
  \/ \E m \in Marker, p \in Positions : set_marker_internal(m, p)
  \/ Save \/ Fundo_boundary \/ truncate_undo_list
  \/ undo \/ UndoMark \/ UndoUnmodified \/ UndoInsert \/ UndoDelete

Spec == Init /\ [][Next]_vars

-----------------------------------------------------------------------------
(***************************************************************************)
(* Properties.                                                             *)
(***************************************************************************)

\* The block of memory holds the characters, the gap and the end gap, and
\* nothing else; no marker lies in the gap, where a later move would not find
\* it.  (Each insertion and deletion adjusts the sizes and the markers apart.)
Sound(B) ==
  /\ B \in [mem : [1 .. B.z - 1 + B.gap_size + B.end_gap_size -> Char \cup {Free}],
            gpt : 1 .. B.z, gap_size : Nat, end_gap_size : Nat,
            z : Nat \ {0}, pt : 1 .. B.z,
            membpos : [Marker -> 1 .. B.z + B.gap_size]]
  /\ \A i \in 1 .. B.z - 1 : Text(B)[i] \in Char
  /\ \A m \in Marker : B.membpos[m] \notin B.gpt + 1 .. B.gpt + B.gap_size

TypeOK ==
  /\ Sound(b)
  /\ undo_list \in Seq(Entry) \cup {None}
  /\ pending \in Seq(Entry) \cup {None}
  /\ undoing \in 0 .. 2
  /\ modified \in BOOLEAN
  /\ saved \in Seq(Char) \cup {None}
  /\ want \in Seq(Char) \cup {None}

\* The two gaps, the moved blocks and the memory positions of the markers
\* implement a flat text whose markers stay with their characters: every
\* insertion, deletion and replacement, also one that undo makes, changes the
\* text and the markers as FlatText says, and moving, merging and making gaps,
\* complete or quit half-way, changes nothing.
flat == INSTANCE FlatText WITH
          text <- Text(b),
          pos <- [m \in Marker \ {point_marker} |-> Position(b, m)],
          Marker <- Marker \ {point_marker}

ImplementsFlatText == flat!Spec

\* Point is kept twice, as a position and as a marker: each operation adjusts
\* the two in its own way, and they always agree (set_buffer_point returns at
\* once when the position is the old one).
PointMarkerAtPoint == b.pt \in Positions /\ Position(b, point_marker) = b.pt

\* Undoing up to a boundary (or to the end of the list) brings back the text
\* that the buffer had there, whatever was undone, redone, quit, merged into
\* one entry or truncated in between.
UndoRestores == want # None => Text(b) = want

\* A buffer that is taken to be unmodified has the text of its file: an undo
\* that goes back over a save never marks the buffer unmodified.
SavedText == undoing = 0 /\ ~modified /\ saved # None => Text(b) = saved

\* undo-more undoes "back N undo-boundaries beyond what was already undone
\* recently" (simple.el): an undo command that comes to its end leaves the
\* buffer at a text that it had between two groups of changes.
UndoWholeGroups ==
  [][undoing = 1 /\ undoing' = 0 /\ pending' # None
       => \E i \in DOMAIN undo_list : /\ undo_list[i].kind \in Marks
                                      /\ undo_list[i].text = Text(b)']_vars

=============================================================================
