-------------------------- MODULE BufferTextProofs --------------------------
(***************************************************************************)
(* Proofs about BufferText, for any characters, markers, thresholds and    *)
(* bounds: the block of memory stays sound and point stays with its        *)
(* marker; undoing back to a boundary restores the text that was there; a  *)
(* buffer taken to be unmodified has its saved text; and each step is one  *)
(* of a flat text (FlatText) or changes nothing there.                     *)
(***************************************************************************)
EXTENDS BufferUndoProofs

-----------------------------------------------------------------------------
(***************************************************************************)
(* The inductive invariant.                                                *)
(***************************************************************************)
\* The list leads from the text t back through its boundaries.
Leads(list, t, first, sv) ==
  \E T : History(list, T) /\ T[1] = t /\ Honest(list, T, first, sv)

\* The undo command has just undone an insertion, perhaps the half of a
\* replacement.
Halfway == undoing > 0 /\ undo_list[1].kind = "delete"

\* Both lists lead back from the text of the buffer, whatever has been undone
\* between them.
ListsLead ==
  /\ undo_list /= None => Leads(undo_list, Text(b), FALSE, saved)
  /\ pending /= None => undo_list /= None
  /\ pending /= None => Leads(pending, Text(b), TRUE, saved)
  /\ pending /= None => Halfway \/ Leads(pending, Text(b), FALSE, saved)
  /\ undoing > 0 => pending /= None

\* A buffer that is taken to be unmodified has the saved text, but in the
\* middle of a replacement that is being undone.
Unmodified ==
  ~modified /\ saved /= None
    => Text(b) = saved \/ (Halfway /\ pending[1].kind = "delete")

IInv == TypeOK /\ Pointed(b) /\ ListsLead /\ Unmodified /\ UndoRestores

-----------------------------------------------------------------------------
LEMMA LeadsList ==
  ASSUME NEW list, NEW t, NEW first, NEW sv, Leads(list, t, first, sv)
  PROVE  /\ list \in Seq(Entry) /\ list /= None /\ list /= << >>
         /\ list[1] \in Entry /\ t \in Seq(Char)
         /\ list[1].kind \in Marks => list[1].text = t
BY FirstText DEF Leads

LEMMA LeadsMono ==
  ASSUME NEW list, NEW t, NEW first, NEW sv, Leads(list, t, FALSE, sv)
  PROVE  Leads(list, t, first, sv)
BY HonestMono DEF Leads

LEMMA LeadsHead ==
  ASSUME NEW list, NEW t, NEW first, NEW second, NEW sv, Leads(list, t, first, sv),
         list[1].kind /= "unmodified"
  PROVE  Leads(list, t, second, sv)
BY HonestHead DEF Leads

LEMMA LeadsNone ==
  ASSUME NEW list, NEW t, NEW first, NEW second, NEW sv, Leads(list, t, first, sv)
  PROVE  Leads(list, t, second, None)
BY NoneSaved DEF Leads

LEMMA LeadsFresh ==
  ASSUME NEW list, NEW t, NEW sv, Leads(list, t, FALSE, sv), sv /= None,
         Fresh(list[1])
  PROVE  t = sv
<1>1. PICK T : History(list, T) /\ T[1] = t /\ Honest(list, T, FALSE, sv)
  BY DEF Leads
<1>2. 1 \in 1 .. Len(list)
  BY <1>1, LenProperties, EmptySeq DEF History
<1> QED
  BY <1>1, <1>2 DEF Honest

\* The newest entry of the pending list has been undone.
LEMMA LeadsOn ==
  ASSUME NEW list, NEW t, NEW sv, Leads(list, t, TRUE, sv), list[1].kind /= "end"
  PROVE  \E u : /\ Undoes(list[1], t, u)
                /\ Leads(Tail(list), u, TRUE, sv)
                /\ list[1].kind /= "insert" => Leads(Tail(list), u, FALSE, sv)
                /\ sv /= None /\ Fresh(list[1]) =>
                     t = sv \/ Tail(list)[1].kind = "delete"
<1>1. PICK T : History(list, T) /\ T[1] = t /\ Honest(list, T, TRUE, sv)
  BY DEF Leads
<1>2. /\ History(Tail(list), Tail(T))
      /\ Honest(Tail(list), Tail(T), TRUE, sv)
      /\ list[1].kind /= "insert" => Honest(Tail(list), Tail(T), FALSE, sv)
      /\ Tail(list)[1] = list[2] /\ Tail(T)[1] = T[2]
      /\ Undoes(list[1], T[1], T[2])
      /\ sv /= None /\ Fresh(list[1]) => T[1] = sv \/ list[2].kind = "delete"
  BY <1>1, Pop
<1>3. /\ Leads(Tail(list), T[2], TRUE, sv)
      /\ list[1].kind /= "insert" => Leads(Tail(list), T[2], FALSE, sv)
  BY <1>2 DEF Leads
<1> QED
  BY <1>1, <1>2, <1>3

\* The next state is sound when its parts are.
LEMMA NextInv ==
  ASSUME NEW B, NEW list, NEW more, NEW n \in 0 .. 2, NEW mod \in BOOLEAN, NEW sv,
         NEW w, b' = B, undo_list' = list, pending' = more, undoing' = n,
         modified' = mod, saved' = sv, want' = w,
         Sound(B), Pointed(B), sv \in Seq(Char) \cup {None},
         list /= None => Leads(list, Text(B), FALSE, sv),
         more /= None => list /= None,
         more /= None => Leads(more, Text(B), TRUE, sv),
         more /= None => \/ n > 0 /\ list[1].kind = "delete"
                         \/ Leads(more, Text(B), FALSE, sv),
         n > 0 => more /= None,
         ~mod /\ sv /= None => \/ Text(B) = sv
                               \/ /\ n > 0 /\ list[1].kind = "delete"
                                  /\ more[1].kind = "delete",
         w = None \/ w = Text(B)
  PROVE  IInv'
<1>1. list \in Seq(Entry) \cup {None} /\ more \in Seq(Entry) \cup {None}
  BY LeadsList
<1>2. w \in Seq(Char) \cup {None}
  BY TextSeq
<1>3. TypeOK'
  BY <1>1, <1>2 DEF TypeOK
<1>4. ListsLead'
  BY DEF ListsLead, Halfway
<1>5. Unmodified' /\ UndoRestores'
  BY DEF Unmodified, UndoRestores, Halfway
<1> QED
  BY <1>3, <1>4, <1>5 DEF IInv

-----------------------------------------------------------------------------
(***************************************************************************)
(* The initial state.                                                      *)
(***************************************************************************)
LEMMA Visited ==
  ASSUME NEW text \in [1 .. FileSize -> Char]
  PROVE  /\ Sound(Visiting(text)) /\ Pointed(Visiting(text))
         /\ Text(Visiting(text)) = text /\ text \in Seq(Char)
         /\ Visiting(text).z = Len(text) + 1
         /\ \A m \in Marker : Position(Visiting(text), m) = 1
<1>1. FileSize \in Nat /\ Slack \in Nat
  BY BoundAssumption, SlackAssumption
<1>2. text \in Seq(Char) /\ Len(text) = FileSize
  BY <1>1, SeqOf
<1>3. PICK n, g, z, B, mem, membpos :
        /\ n = FileSize /\ g = Slack /\ z = n + 1 /\ B = Visiting(text)
        /\ mem = [i \in 1 .. g + n |-> IF i <= g THEN Free ELSE text[i - g]]
        /\ membpos = [m \in Marker |-> 1]
  OBVIOUS
<1>4. /\ n \in Nat /\ g \in Nat /\ text \in [1 .. n -> Char]
      /\ z \in Nat \ {0} /\ z - 1 = n
  BY <1>1, <1>3
<1>5. B \in Block(mem, 1, g, 0, z, 1, membpos)
  BY <1>2, <1>3 DEF Visiting, Block
<1>6. Layout(mem, 1, g, 0, z, 1, membpos)
  <2>1. z - 1 + g + 0 = g + n /\ 1 \in 1 .. z
    BY <1>4
  <2>2. mem \in [1 .. g + n -> Char \cup {Free}]
    BY <1>3, <1>4
  <2>3. ASSUME NEW i \in 1 .. z - 1 PROVE mem[Slot(i, 1, g)] \in Char
    <3>1. Slot(i, 1, g) = i + g /\ i + g \in 1 .. g + n /\ ~(i + g <= g)
          /\ i + g - g = i /\ i \in 1 .. n
      BY <1>4 DEF Slot
    <3> QED
      BY <1>3, <1>4, <3>1
  <2>4. membpos \in [Marker -> Int] /\ \A m \in Marker : membpos[m] = 1
    BY <1>3
  <2>5. 0 \in Nat
    OBVIOUS
  <2> QED
    BY <1>4, <2>1, <2>2, <2>3, <2>4, <2>5 DEF Layout
<1>7. /\ Sound(B) /\ B.z = z /\ B.pt = 1
      /\ \A i \in 1 .. z - 1 : Text(B)[i] = mem[Slot(i, 1, g)]
      /\ \A m \in Marker : Position(B, m) = Place(membpos[m], 1, g)
  <2>1. /\ Sound(B) /\ B.z = z /\ B.pt = 1
        /\ Text(B) = [i \in 1 .. z - 1 |-> mem[Slot(i, 1, g)]]
        /\ \A m \in Marker : Position(B, m) = Place(membpos[m], 1, g)
    BY <1>5, <1>6, Closed
  <2>2. ASSUME NEW i \in 1 .. z - 1 PROVE Text(B)[i] = mem[Slot(i, 1, g)]
    BY <2>1
  <2> QED
    BY <2>1, <2>2
<1>8. \A m \in Marker : Position(B, m) = 1
  BY <1>3, <1>7 DEF Place
<1>9. Text(B) = text
  <2>1. Text(B) \in Seq(Char) /\ Len(Text(B)) = n
    BY <1>4, <1>7, TextSeq
  <2>2. ASSUME NEW i \in 1 .. n PROVE Text(B)[i] = text[i]
    <3>1. Slot(i, 1, g) = i + g /\ i + g \in 1 .. g + n /\ ~(i + g <= g)
          /\ i + g - g = i /\ i \in 1 .. z - 1
      BY <1>4 DEF Slot
    <3>2. Text(B)[i] = mem[i + g]
      BY <1>7, <3>1
    <3>3. PICK j : j = i + g
      OBVIOUS
    <3>4. mem[j] = text[i]
      <4>1. j \in 1 .. g + n /\ ~(j <= g) /\ j - g = i
        BY <1>4, <3>1, <3>3
      <4> QED
        BY <1>3, <4>1
    <3> QED
      BY <3>2, <3>3, <3>4
  <2> QED
    BY <1>2, <1>3, <1>4, <2>1, <2>2, SameSeq
<1> QED
  BY <1>2, <1>3, <1>7, <1>8, <1>9, MarkerAssumption DEF Pointed

LEMMA LeadsEnd ==
  ASSUME NEW t \in Seq(Char), NEW sv
  PROVE  Leads(<<[kind |-> "end", text |-> t]>>, t, FALSE, sv)
<1>1. PICK e, list, T : /\ e = [kind |-> "end", text |-> t]
                        /\ list = <<e>> /\ T = <<t>>
  OBVIOUS
<1>2. e \in Entry /\ e.kind = "end" /\ e.text = t
  BY <1>1 DEF Entry, Marks
<1>3. list \in Seq(Entry) /\ Len(list) = 1 /\ list[1] = e /\ list /= << >>
  BY <1>1, <1>2
<1>4. T \in Seq(Seq(Char)) /\ Len(T) = 1 /\ T[1] = t
  BY <1>1
<1>5. History(list, T)
  BY <1>2, <1>3, <1>4 DEF History
<1>6. Honest(list, T, FALSE, sv)
  BY <1>2, <1>3 DEF Honest, Fresh
<1> QED
  BY <1>1, <1>4, <1>5, <1>6 DEF Leads

LEMMA InitInv == Init => IInv
<1> SUFFICES ASSUME Init PROVE IInv
  OBVIOUS
<1>1. PICK text \in [1 .. FileSize -> Char] :
        /\ b = Visiting(text)
        /\ undo_list \in {<<[kind |-> "end", text |-> text]>>, None}
        /\ pending = None /\ undoing = 0 /\ modified = FALSE /\ saved = text
        /\ want = None
  BY DEF Init
<1>2. Sound(b) /\ Pointed(b) /\ Text(b) = text /\ text \in Seq(Char)
  BY <1>1, Visited
<1>3. undo_list /= None => Leads(undo_list, Text(b), FALSE, saved)
  BY <1>1, <1>2, LeadsEnd
<1>4. undo_list \in Seq(Entry) \cup {None}
  BY <1>3, LeadsList
<1>5. pending = None /\ undoing = 0 /\ modified = FALSE /\ saved = text /\ want = None
  BY <1>1
<1>6. TypeOK /\ ListsLead
  <2>1. undoing \in 0 .. 2 /\ modified \in BOOLEAN /\ ~(undoing > 0)
    <3>1. undoing \in 0 .. 2 /\ ~(undoing > 0)
      BY <1>5
    <3>2. modified \in BOOLEAN
      BY <1>5, Zenon
    <3> QED
      BY <3>1, <3>2
  <2>2. TypeOK
    <3>1. /\ pending \in Seq(Entry) \cup {None}
          /\ saved \in Seq(Char) \cup {None} /\ want \in Seq(Char) \cup {None}
      BY <1>2, <1>5
    <3> QED
      BY <1>2, <1>4, <2>1, <3>1 DEF TypeOK
  <2>3. ListsLead
    BY <1>3, <1>5, <2>1 DEF ListsLead
  <2> QED
    BY <2>2, <2>3
<1>7. Unmodified /\ UndoRestores
  BY <1>2, <1>5 DEF Unmodified, UndoRestores
<1> QED
  BY <1>2, <1>6, <1>7 DEF IInv

-----------------------------------------------------------------------------
(***************************************************************************)
(* The commands that change the buffer.                                    *)
(***************************************************************************)
LEMMA LeadsInsert ==
  ASSUME NEW list, NEW t, NEW sv, Leads(list, t, FALSE, sv), modified \in BOOLEAN,
         ~modified /\ sv /= None => t = sv \/ list[1].kind = "delete",
         NEW p \in 1 .. Len(t) + 1, NEW s \in Seq(Char), s /= << >>
  PROVE  Leads(record_insert(list, p, Len(s)), Ins(t, p, s), FALSE, sv)
<1>1. PICK T : History(list, T) /\ T[1] = t /\ Honest(list, T, FALSE, sv)
  BY DEF Leads
<1>2. PICK U : /\ History(record_insert(list, p, Len(s)), U)
               /\ U[1] = Ins(T[1], p, s)
               /\ Honest(record_insert(list, p, Len(s)), U, FALSE, sv)
  BY <1>1, RecordInsert
<1> QED
  BY <1>1, <1>2 DEF Leads

LEMMA LeadsDelete ==
  ASSUME NEW list, NEW sv, Leads(list, Text(b), FALSE, sv), modified \in BOOLEAN,
         ~modified /\ sv /= None => Text(b) = sv,
         NEW p \in 1 .. Len(Text(b)), NEW q \in p + 1 .. Len(Text(b)) + 1, NEW pt
  PROVE  /\ Leads(record_delete(list, p, q - p, pt), Cut(Text(b), p, q), FALSE, sv)
         /\ record_delete(list, p, q - p, pt)[1].kind = "delete"
<1>1. PICK T : History(list, T) /\ T[1] = Text(b) /\ Honest(list, T, FALSE, sv)
  BY DEF Leads
<1>2. PICK U : /\ History(record_delete(list, p, q - p, pt), U)
               /\ U[1] = Cut(Text(b), p, q)
               /\ Honest(record_delete(list, p, q - p, pt), U, FALSE, sv)
               /\ record_delete(list, p, q - p, pt)[1].kind = "delete"
  BY <1>1, RecordDelete, ZenonT(60)
<1> QED
  BY <1>1, <1>2 DEF Leads

LEMMA LeadsChange ==
  ASSUME NEW list, NEW sv, Leads(list, Text(b), FALSE, sv), modified \in BOOLEAN,
         ~modified /\ sv /= None => Text(b) = sv,
         NEW p \in 1 .. Len(Text(b)), NEW c \in Char
  PROVE  Leads(record_change(list, p, 1), Put(Text(b), p, c), FALSE, sv)
<1>1. PICK T : History(list, T) /\ T[1] = Text(b) /\ Honest(list, T, FALSE, sv)
  BY DEF Leads
<1>2. PICK U : /\ History(record_change(list, p, 1), U)
               /\ U[1] = Put(Text(b), p, c)
               /\ Honest(record_change(list, p, 1), U, FALSE, sv)
  BY <1>1, RecordChange
<1> QED
  BY <1>2 DEF Leads

LEMMA StringIs ==
  ASSUME NEW s \in Strings
  PROVE  s \in Seq(Char) /\ s /= << >> /\ Len(s) \in Nat \ {0}
<1>1. PICK n \in 1 .. MaxInsert : s \in [1 .. n -> Char]
  BY DEF Strings
<1>2. n \in Nat \ {0}
  BY <1>1, BoundAssumption
<1> QED
  BY <1>1, <1>2, SeqOf, EmptySeq

\* What the invariant says of the buffer and its lists.
LEMMA Now ==
  ASSUME IInv
  PROVE  /\ Sound(b) /\ Pointed(b) /\ b.z \in Nat \ {0} /\ b.pt \in 1 .. b.z
         /\ Text(b) \in Seq(Char) /\ Len(Text(b)) = b.z - 1
         /\ modified \in BOOLEAN /\ undoing \in 0 .. 2
         /\ saved \in Seq(Char) \cup {None}
         /\ undo_list /= None => Leads(undo_list, Text(b), FALSE, saved)
         /\ undoing = 0 => (~modified /\ saved /= None => Text(b) = saved)
<1>1. Sound(b) /\ Pointed(b)
  BY DEF IInv, TypeOK
<1>2. b.pt \in 1 .. b.z
  BY <1>1 DEF Sound
<1>3. modified \in BOOLEAN /\ undoing \in 0 .. 2 /\ saved \in Seq(Char) \cup {None}
  BY DEF IInv, TypeOK
<1>4. undo_list /= None => Leads(undo_list, Text(b), FALSE, saved)
  BY DEF IInv, ListsLead
<1>5. undoing = 0 => (~modified /\ saved /= None => Text(b) = saved)
  BY DEF IInv, Unmodified, Halfway
<1> QED
  BY <1>1, <1>2, <1>3, <1>4, <1>5, TextSeq

LEMMA CommandInv ==
  ASSUME IInv, Command, NEW B, NEW list, NEW mod \in BOOLEAN,
         b' = B, undo_list' = list, modified' = mod, Sound(B), Pointed(B),
         list /= None => Leads(list, Text(B), FALSE, saved),
         ~mod /\ saved /= None => Text(B) = saved
  PROVE  IInv'
<1>1. undoing' = 0 /\ pending' = None /\ want' = None /\ saved' = saved
  BY DEF Command
<1>2. saved \in Seq(Char) \cup {None}
  BY Now
<1>3. ~(0 > 0) /\ 0 \in 0 .. 2
  OBVIOUS
<1> QED
  BY <1>1, <1>2, <1>3, NextInv

LEMMA InsertInv ==
  ASSUME IInv, NEW p \in Positions, NEW s \in Strings,
         NEW place \in {"here", "point", "before"}, buffer_insert_string_1(p, s, place)
  PROVE  IInv'
<1>1. /\ Command /\ (place /= "here" => p = b.pt)
      /\ b' = InsertString(b, p, s, place)
      /\ undo_list' = record_insert(undo_list, p, Len(s)) /\ modified' = TRUE
  BY DEF buffer_insert_string_1
<1>2. p \in 1 .. b.z /\ undoing = 0
  BY <1>1 DEF Positions, Command
<1>3. s \in Seq(Char) /\ s /= << >>
  BY StringIs
<1>4. PICK C : C = InsertString(b, p, s, place)
  OBVIOUS
<1>5. Sound(C) /\ Pointed(C) /\ Text(C) = Ins(Text(b), p, s)
  BY <1>1, <1>2, <1>3, <1>4, Now, Inserted
<1>6. ASSUME undo_list /= None
      PROVE  Leads(record_insert(undo_list, p, Len(s)), Text(C), FALSE, saved)
  <2>1. p \in 1 .. Len(Text(b)) + 1
    BY <1>2, Now
  <2> QED
    BY <1>2, <1>3, <1>5, <1>6, <2>1, Now, LeadsInsert
<1>7. undo_list = None => record_insert(undo_list, p, Len(s)) = None
  BY DEF record_insert
<1> QED
  BY <1>1, <1>4, <1>5, <1>6, <1>7, CommandInv

LEMMA DeleteInv ==
  ASSUME IInv, NEW from \in Positions, NEW to \in Positions,
         buffer_delete_range(from, to)
  PROVE  IInv'
<1>1. /\ Command /\ from < to /\ b' = DeleteRange(b, from, to)
      /\ undo_list' = record_delete(undo_list, from, to - from, b.pt)
      /\ modified' = TRUE
  BY DEF buffer_delete_range
<1>2. from \in 1 .. b.z /\ to \in 1 .. b.z /\ undoing = 0
  BY <1>1 DEF Positions, Command
<1>3. PICK C : C = DeleteRange(b, from, to)
  OBVIOUS
<1>4. Sound(C) /\ Pointed(C) /\ Text(C) = Cut(Text(b), from, to)
  BY <1>1, <1>2, <1>3, Now, Deleted
<1>5. ASSUME undo_list /= None
      PROVE  Leads(record_delete(undo_list, from, to - from, b.pt), Text(C), FALSE, saved)
  <2>1. from \in 1 .. Len(Text(b)) /\ to \in from + 1 .. Len(Text(b)) + 1
    BY <1>1, <1>2, Now
  <2> QED
    BY <1>2, <1>4, <1>5, <2>1, Now, LeadsDelete
<1>6. undo_list = None => record_delete(undo_list, from, to - from, b.pt) = None
  BY DEF record_delete
<1> QED
  BY <1>1, <1>3, <1>4, <1>5, <1>6, CommandInv

LEMMA ReplaceInv ==
  ASSUME IInv, NEW p \in Positions, NEW c \in Char, buffer_replace_char(p, c)
  PROVE  IInv'
<1>1. /\ Command /\ p < b.z /\ b' = ReplaceChar(b, p, c)
      /\ undo_list' = record_change(undo_list, p, 1) /\ modified' = TRUE
  BY DEF buffer_replace_char
<1>2. p \in 1 .. b.z - 1 /\ undoing = 0
  BY <1>1, Now DEF Positions, Command
<1>3. PICK C : C = ReplaceChar(b, p, c)
  OBVIOUS
<1>4. Sound(C) /\ Pointed(C) /\ Text(C) = Put(Text(b), p, c)
  BY <1>2, <1>3, Now, Replaced, MarkerAssumption DEF Pointed, Put
<1>5. ASSUME undo_list /= None
      PROVE  Leads(record_change(undo_list, p, 1), Text(C), FALSE, saved)
  <2>1. p \in 1 .. Len(Text(b))
    BY <1>2, Now
  <2> QED
    BY <1>2, <1>4, <1>5, <2>1, Now, LeadsChange
<1>6. undo_list = None => record_change(undo_list, p, 1) = None
  BY DEF record_change, record_delete, record_insert
<1> QED
  BY <1>1, <1>3, <1>4, <1>5, <1>6, CommandInv

\* Moving point, another marker or the gap changes no text.
LEMMA MotionInv ==
  ASSUME IInv, Command, NEW B, b' = B, UNCHANGED <<undo_list, modified>>,
         Sound(B), Pointed(B), Text(B) = Text(b)
  PROVE  IInv'
<1>1. undoing = 0 /\ undo_list' = undo_list /\ modified' = modified
  BY DEF Command
<1> QED
  BY <1>1, Now, CommandInv

LEMMA GotoInv ==
  ASSUME IInv, NEW p \in Positions, Fgoto_char(p)
  PROVE  IInv'
<1>1. PICK C : C = set_buffer_point(b, p)
  OBVIOUS
<1>2. Sound(C) /\ Pointed(C) /\ Text(C) = Text(b)
  BY <1>1, Now, SetPoint DEF Positions
<1> QED
  BY <1>1, <1>2, MotionInv DEF Fgoto_char

LEMMA SetMarkerInv ==
  ASSUME IInv, NEW m \in Marker, NEW p \in Positions, set_marker_internal(m, p)
  PROVE  IInv'
<1>1. PICK C : C = [b EXCEPT !.membpos[m] = bytebpos_to_membpos(b, p)]
  OBVIOUS
<1>2. /\ Command /\ m /= point_marker /\ b' = C
      /\ UNCHANGED <<undo_list, modified>>
  BY <1>1 DEF set_marker_internal
<1>3. C = MarkerSet(b, m, p, b.pt)
  <2>1. b = [b EXCEPT !.pt = b.pt]
    BY Now DEF Sound
  <2> QED
    BY <1>1, <2>1, Now DEF MarkerSet, Sound
<1>4. /\ Sound(C) /\ C.pt = b.pt /\ Text(C) = Text(b)
      /\ Position(C, point_marker) = Position(b, point_marker)
  BY <1>2, <1>3, Now, SetMarker, MarkerAssumption DEF Positions
<1>5. Pointed(C)
  BY <1>4, Now DEF Pointed
<1> QED
  BY <1>2, <1>4, <1>5, MotionInv

LEMMA QuitInv ==
  ASSUME IInv, NEW p \in Positions, Quit(p)
  PROVE  IInv'
<1>1. PICK C : C = move_gap(b, p)
  OBVIOUS
<1>2. Sound(C) /\ Shows(C, b)
  BY <1>1, Now, MoveGap DEF Positions
<1>3. Pointed(C) /\ Text(C) = Text(b)
  BY <1>2, Now, MarkerAssumption DEF Shows, Pointed
<1> QED
  BY <1>1, <1>2, <1>3, MotionInv DEF Quit

-----------------------------------------------------------------------------
(***************************************************************************)
(* Saving, boundaries and truncation.                                      *)
(***************************************************************************)
LEMMA SaveInv ==
  ASSUME IInv, Save
  PROVE  IInv'
<1>1. /\ undoing = 0 /\ b' = b /\ undoing' = 0 /\ pending' = None /\ want' = None
      /\ modified' = FALSE /\ saved' = Text(b)
      /\ undo_list' = IF undo_list = None THEN None ELSE Obsolete(undo_list)
  BY DEF Save
<1>2. PICK list : list = IF undo_list = None THEN None ELSE Obsolete(undo_list)
  OBVIOUS
<1>3. ASSUME list /= None PROVE Leads(list, Text(b), FALSE, Text(b))
  <2>1. undo_list /= None /\ list = Obsolete(undo_list)
    BY <1>2, <1>3
  <2>2. PICK T : History(undo_list, T) /\ T[1] = Text(b)
    BY <2>1, Now DEF Leads
  <2> QED
    BY <2>1, <2>2, ObsoleteHistory DEF Leads
<1>4. ~(0 > 0) /\ 0 \in 0 .. 2
  OBVIOUS
<1> QED
  BY <1>1, <1>2, <1>3, <1>4, Now, NextInv

LEMMA NowPending ==
  ASSUME IInv
  PROVE  /\ pending /= None => undo_list /= None
         /\ pending /= None => Leads(pending, Text(b), TRUE, saved)
         /\ pending /= None => Halfway \/ Leads(pending, Text(b), FALSE, saved)
         /\ pending /= None /\ undoing = 0 => Leads(pending, Text(b), FALSE, saved)
         /\ undoing > 0 => pending /= None
         /\ want = None \/ want = Text(b)
         /\ ~modified /\ saved /= None
              => Text(b) = saved \/ (Halfway /\ pending[1].kind = "delete")
<1>1. /\ pending /= None => undo_list /= None
      /\ pending /= None => Leads(pending, Text(b), TRUE, saved)
      /\ pending /= None => Halfway \/ Leads(pending, Text(b), FALSE, saved)
      /\ undoing > 0 => pending /= None
  BY DEF IInv, ListsLead
<1>2. undoing = 0 => ~Halfway
  BY DEF Halfway
<1>3. pending /= None /\ undoing = 0 => Leads(pending, Text(b), FALSE, saved)
  BY <1>1, <1>2
<1>4. want = None \/ want = Text(b)
  BY DEF IInv, UndoRestores
<1>5. ~modified /\ saved /= None
        => Text(b) = saved \/ (Halfway /\ pending[1].kind = "delete")
  BY DEF IInv, Unmodified
<1> QED
  BY <1>1, <1>3, <1>4, <1>5

\* Between two commands, a list may be replaced by one that leads as far back.
LEMMA IdleInv ==
  ASSUME IInv, undoing = 0, NEW list, NEW more, undo_list' = list, pending' = more,
         UNCHANGED <<b, undoing, modified, saved, want>>,
         list /= None => Leads(list, Text(b), FALSE, saved),
         more /= None => list /= None,
         more /= None => Leads(more, Text(b), FALSE, saved)
  PROVE  IInv'
<1>1. /\ b' = b /\ undoing' = 0 /\ modified' = modified /\ saved' = saved
      /\ want' = want
  OBVIOUS
<1>2. more /= None => Leads(more, Text(b), TRUE, saved)
  BY LeadsMono
<1>3. ~(0 > 0) /\ 0 \in 0 .. 2
  OBVIOUS
<1>4. /\ Sound(b) /\ Pointed(b) /\ saved \in Seq(Char) \cup {None}
      /\ modified \in BOOLEAN /\ (~modified /\ saved /= None => Text(b) = saved)
  BY Now
<1>5. want = None \/ want = Text(b)
  BY NowPending
<1> QED
  BY <1>1, <1>2, <1>3, <1>4, <1>5, NextInv, ZenonT(60)

LEMMA BoundaryInv ==
  ASSUME IInv, Fundo_boundary
  PROVE  IInv'
<1>1. /\ undoing = 0 /\ undo_list' = undo_boundary(undo_list) /\ pending' = pending
      /\ UNCHANGED <<b, undoing, modified, saved, want>>
  BY DEF Fundo_boundary
<1>2. CASE undo_list = None \/ undo_list[1].kind \in Marks
  <2>1. undo_boundary(undo_list) = undo_list
    BY <1>2 DEF undo_boundary
  <2> QED
    BY <1>1, <2>1, Now, NowPending, IdleInv
<1>3. CASE ~(undo_list = None \/ undo_list[1].kind \in Marks)
  <2>1. PICK t, e : t = Text(b) /\ e = [kind |-> "boundary", text |-> t]
    OBVIOUS
  <2>2. undo_boundary(undo_list) = <<e>> \o undo_list
    BY <1>3, <2>1 DEF undo_boundary
  <2>3. e \in Entry /\ e.kind = "boundary" /\ e.kind \in Marks /\ e.text = t
        /\ t \in Seq(Char)
    <3>1. t \in Seq(Char)
      BY <2>1, Now
    <3>2. e \in [kind : Marks, text : Seq(Char)]
      BY <2>1, <3>1 DEF Marks
    <3> QED
      BY <2>1, <3>1, <3>2 DEF Entry, Marks
  <2>4. PICK T : History(undo_list, T) /\ T[1] = t /\ Honest(undo_list, T, FALSE, saved)
    BY <1>3, <2>1, Now DEF Leads
  <2>5. Undoes(e, t, T[1])
    BY <2>3, <2>4 DEF Undoes
  <2>6. History(<<e>> \o undo_list, <<t>> \o T) /\ (<<t>> \o T)[1] = t
    BY <2>3, <2>4, <2>5, Push
  <2>7. Honest(<<e>> \o undo_list, <<t>> \o T, FALSE, saved)
    <3>1. ~Fresh(e)
      BY <2>3 DEF Fresh
    <3> QED
      BY <2>3, <2>4, <3>1, PushHonest
  <2>8. Leads(<<e>> \o undo_list, Text(b), FALSE, saved)
    BY <2>1, <2>6, <2>7 DEF Leads
  <2>9. <<e>> \o undo_list /= None
    BY <2>8, LeadsList
  <2> QED
    BY <1>1, <2>2, <2>8, <2>9, Now, NowPending, IdleInv
<1> QED
  BY <1>2, <1>3

LEMMA LeadsCut ==
  ASSUME NEW list, NEW t, NEW sv, Leads(list, t, FALSE, sv),
         NEW k \in 2 .. Len(list), list[k].kind \in Marks
  PROVE  Leads(CutAt(list, k), t, FALSE, sv)
<1>1. PICK T : History(list, T) /\ T[1] = t /\ Honest(list, T, FALSE, sv)
  BY DEF Leads
<1>2. /\ History(CutAt(list, k), SubSeq(T, 1, k))
      /\ Honest(CutAt(list, k), SubSeq(T, 1, k), FALSE, sv)
      /\ SubSeq(T, 1, k)[1] = T[1]
  <2>1. History(CutAt(list, k), SubSeq(T, 1, k))
    BY <1>1, CutHistory
  <2>2. Honest(CutAt(list, k), SubSeq(T, 1, k), FALSE, sv)
    BY <1>1, CutHistory
  <2>3. SubSeq(T, 1, k)[1] = T[1]
    BY <1>1, CutHistory
  <2> QED
    BY <2>1, <2>2, <2>3
<1> QED
  BY <1>1, <1>2 DEF Leads

LEMMA TruncateInv ==
  ASSUME IInv, truncate_undo_list
  PROVE  IInv'
<1> DEFINE list == undo_list
           bounds == {k \in DOMAIN list \ {1} : list[k].kind = "boundary"}
           stop == Min({k \in bounds : k - 1 > undo_threshold})
           before == {k \in bounds : k < stop}
           cut == IF stop - 1 > undo_high_threshold /\ before /= {}
                  THEN Max(before) ELSE stop
           skipped == Len(list) - Len(pending)
           shared == /\ pending /= None
                     /\ skipped \in 0 .. cut - 2
                     /\ pending = SubSeq(list, skipped + 1, Len(list))
<1>1. /\ undoing = 0 /\ list /= None
      /\ \E k \in bounds : k - 1 > undo_threshold
      /\ undo_list' = CutAt(list, cut)
      /\ pending' = IF shared THEN CutAt(pending, cut - skipped) ELSE pending
      /\ UNCHANGED <<b, undoing, modified, saved, want>>
  BY DEF truncate_undo_list
<1>2. Leads(list, Text(b), FALSE, saved) /\ list \in Seq(Entry)
  BY <1>1, Now, LeadsList
<1>3. PICK n : n = Len(list)
  OBVIOUS
<1>4. n \in Nat /\ DOMAIN list = 1 .. n
  BY <1>2, <1>3, LenProperties
<1>5. bounds \subseteq 2 .. n /\ \A k \in bounds : list[k].kind = "boundary"
  <2>1. ASSUME NEW k \in 1 .. n, k /= 1 PROVE k \in 2 .. n
    BY <1>4, <2>1
  <2> QED
    BY <1>4, <2>1
<1>6. cut \in bounds
  <2> HIDE DEF bounds
  <2> QED
    BY <1>1, <1>4, <1>5, CutWhere
<1>7. cut \in 2 .. Len(list) /\ list[cut].kind = "boundary" /\ list[cut].kind \in Marks
  <2> HIDE DEF bounds, cut
  <2> QED
    BY <1>3, <1>5, <1>6 DEF Marks
<1> HIDE DEF cut, bounds, skipped
<1>8. Leads(CutAt(list, cut), Text(b), FALSE, saved) /\ CutAt(list, cut) /= None
  BY <1>2, <1>7, LeadsCut, LeadsList
<1>9. ASSUME shared PROVE Leads(CutAt(pending, cut - skipped), Text(b), FALSE, saved)
  <2>1. /\ cut - skipped \in 2 .. Len(pending)
        /\ pending[cut - skipped] = list[cut]
    BY <1>2, <1>7, <1>9, SharedEntries
  <2>2. Leads(pending, Text(b), FALSE, saved)
    BY <1>1, <1>9, NowPending
  <2> QED
    BY <1>7, <2>1, <2>2, LeadsCut
<1>10. PICK more : more = IF shared THEN CutAt(pending, cut - skipped) ELSE pending
  OBVIOUS
<1>11. more /= None => Leads(more, Text(b), FALSE, saved)
  BY <1>1, <1>9, <1>10, NowPending
<1> HIDE DEF shared
<1> QED
  BY <1>1, <1>8, <1>10, <1>11, IdleInv

-----------------------------------------------------------------------------
(***************************************************************************)
(* The undo command.                                                       *)
(***************************************************************************)
LEMMA UndoInv ==
  ASSUME IInv, undo
  PROVE  IInv'
<1>1. PICK list : list = IF pending = None THEN undo_list ELSE pending
  OBVIOUS
<1>2. /\ undoing = 0
      /\ IF list = None \/ list[1].kind = "end"
         THEN pending' = None /\ undoing' = 0
         ELSE pending' = list /\ undoing' = IF pending = None THEN 2 ELSE 1
      /\ want' = None /\ undo_list' = undo_list
      /\ b' = b /\ modified' = modified /\ saved' = saved
  BY <1>1 DEF undo
<1>3. list /= None => undo_list /= None /\ Leads(list, Text(b), FALSE, saved)
  BY <1>1, <1>2, Now, NowPending
<1>4. list /= None => Leads(list, Text(b), TRUE, saved)
  BY <1>3, LeadsMono
<1>5. /\ Sound(b) /\ Pointed(b) /\ saved \in Seq(Char) \cup {None}
      /\ modified \in BOOLEAN /\ (~modified /\ saved /= None => Text(b) = saved)
      /\ undo_list /= None => Leads(undo_list, Text(b), FALSE, saved)
  BY <1>2, Now
<1>6. 0 \in 0 .. 2 /\ 1 \in 0 .. 2 /\ 2 \in 0 .. 2 /\ ~(0 > 0)
  OBVIOUS
<1>7. CASE list = None \/ list[1].kind = "end"
  BY <1>2, <1>5, <1>6, <1>7, NextInv
<1>8. CASE ~(list = None \/ list[1].kind = "end")
  <2>1. PICK n : n = IF pending = None THEN 2 ELSE 1
    OBVIOUS
  <2>2. n \in 0 .. 2
    BY <2>1
  <2> QED
    BY <1>2, <1>3, <1>4, <1>5, <1>8, <2>1, <2>2, NextInv
<1> QED
  BY <1>7, <1>8

LEMMA EndGroupInv ==
  ASSUME IInv, undoing > 0, NEW rest, NEW t, EndGroup(rest, t), b' = b,
         Leads(rest, Text(b), FALSE, saved), t = None \/ t = Text(b),
         pending[1].kind /= "delete"
  PROVE  IInv'
<1>1. undoing \in 0 .. 2 /\ undoing - 1 \in 0 .. 2
  BY Now
<1>2. /\ want' = t /\ undo_list' = undo_list /\ modified' = modified /\ saved' = saved
      /\ \/ undoing' = 0 /\ pending' = None
         \/ undoing' = undoing - 1 /\ pending' = rest
  BY DEF EndGroup
<1>3. undo_list /= None /\ Leads(undo_list, Text(b), FALSE, saved)
  BY Now, NowPending
<1>4. rest /= None /\ Leads(rest, Text(b), TRUE, saved)
  BY LeadsMono, LeadsList
<1>5. ~modified /\ saved /= None => Text(b) = saved
  BY NowPending
<1>6. /\ Sound(b) /\ Pointed(b) /\ saved \in Seq(Char) \cup {None}
      /\ modified \in BOOLEAN
  BY Now
<1>7. 0 \in 0 .. 2 /\ ~(0 > 0)
  OBVIOUS
<1>8. CASE undoing' = 0 /\ pending' = None
  BY <1>2, <1>3, <1>5, <1>6, <1>7, <1>8, NextInv
<1>9. CASE undoing' = undoing - 1 /\ pending' = rest
  BY <1>1, <1>2, <1>3, <1>4, <1>5, <1>6, <1>9, NextInv
<1> QED
  BY <1>2, <1>8, <1>9

LEMMA MarkInv ==
  ASSUME IInv, UndoMark
  PROVE  IInv'
<1>1. PICK rest : rest = IF pending[1].kind = "end" THEN pending ELSE Tail(pending)
  OBVIOUS
<1>2. /\ undoing > 0 /\ pending[1].kind \in Marks /\ b' = b
      /\ EndGroup(rest, pending[1].text)
  BY <1>1 DEF UndoMark, EndGroup
<1>3. pending /= None /\ Leads(pending, Text(b), TRUE, saved)
  BY <1>2, NowPending
<1>4. pending[1].text = Text(b)
  BY <1>2, <1>3, LeadsList
<1>5. pending[1].kind \notin {"delete", "insert", "unmodified"}
  BY <1>2 DEF Marks
<1>6. Leads(rest, Text(b), FALSE, saved)
  <2>1. CASE pending[1].kind = "end"
    BY <1>1, <1>3, <1>5, <2>1, LeadsHead
  <2>2. CASE pending[1].kind /= "end"
    <3>1. PICK u : /\ Undoes(pending[1], Text(b), u)
                   /\ pending[1].kind /= "insert" => Leads(Tail(pending), u, FALSE, saved)
      BY <1>3, <2>2, LeadsOn
    <3>2. u = Text(b)
      BY <1>5, <3>1 DEF Undoes
    <3> QED
      BY <1>1, <1>5, <2>2, <3>1, <3>2
  <2> QED
    BY <2>1, <2>2
<1> QED
  BY <1>2, <1>4, <1>5, <1>6, EndGroupInv

LEMMA UnmodifiedInv ==
  ASSUME IInv, UndoUnmodified
  PROVE  IInv'
<1>1. undoing > 0 /\ pending[1].kind = "unmodified"
  BY DEF UndoUnmodified
<1>2. /\ pending /= None /\ Leads(pending, Text(b), TRUE, saved)
      /\ Halfway \/ Leads(pending, Text(b), FALSE, saved)
  BY <1>1, NowPending
<1>3. PICK u : /\ Undoes(pending[1], Text(b), u)
               /\ Leads(Tail(pending), u, TRUE, saved)
               /\ pending[1].kind /= "insert" => Leads(Tail(pending), u, FALSE, saved)
               /\ saved /= None /\ Fresh(pending[1]) =>
                    Text(b) = saved \/ Tail(pending)[1].kind = "delete"
  BY <1>1, <1>2, LeadsOn
<1>4. u = Text(b)
  BY <1>1, <1>3 DEF Undoes, Marks
<1>5. /\ Leads(Tail(pending), Text(b), TRUE, saved)
      /\ Leads(Tail(pending), Text(b), FALSE, saved)
  BY <1>1, <1>3, <1>4
<1>6. CASE pending[1].obsolete
  <2>1. EndGroup(Tail(pending), None) /\ b' = b
    BY <1>6 DEF UndoUnmodified, EndGroup
  <2> QED
    BY <1>1, <1>5, <2>1, EndGroupInv
<1>7. CASE ~pending[1].obsolete
  <2>1. /\ modified' = FALSE /\ pending' = Tail(pending)
        /\ b' = b /\ undo_list' = undo_list /\ undoing' = undoing /\ saved' = saved
        /\ want' = want
    BY <1>7 DEF UndoUnmodified
  <2>2. Fresh(pending[1])
    BY <1>1, <1>7 DEF Fresh
  <2>3. saved /= None => \/ Text(b) = saved
                         \/ Halfway /\ Tail(pending)[1].kind = "delete"
    BY <1>2, <1>3, <2>2, LeadsFresh
  <2>4. /\ Sound(b) /\ Pointed(b) /\ saved \in Seq(Char) \cup {None}
        /\ undoing \in 0 .. 2
        /\ undo_list /= None => Leads(undo_list, Text(b), FALSE, saved)
    BY Now
  <2>5. undo_list /= None /\ Tail(pending) /= None /\ (want = None \/ want = Text(b))
    BY <1>2, <1>5, NowPending, LeadsList
  <2>6. FALSE \in BOOLEAN
    OBVIOUS
  <2> QED
    BY <1>5, <2>1, <2>3, <2>4, <2>5, <2>6, NextInv DEF Halfway
<1> QED
  BY <1>6, <1>7

\* Point is set to the beginning of an entry, which lies in the buffer.
LEMMA EntryPlace ==
  ASSUME IInv, NEW e, NEW u, Undoes(e, Text(b), u), e.kind \in {"insert", "delete"}
  PROVE  LET B == set_buffer_point(b, e.beg)
         IN /\ Sound(B) /\ Pointed(B) /\ Text(B) = Text(b) /\ B.pt = e.beg
            /\ B.z = b.z /\ B.gpt = b.gpt /\ e.beg \in 1 .. b.z
            /\ \A m \in Marker \ {point_marker} : Position(B, m) = Position(b, m)
<1>1. PICK p, t : p = e.beg /\ t = Text(b)
  OBVIOUS
<1>2. b.z \in Nat \ {0} /\ Len(t) = b.z - 1
  BY <1>1, Now
<1>3. p \in 1 .. Len(t) + 1
  <2>1. CASE e.kind = "insert"
    <3>1. p \in 1 .. Len(t)
      BY <1>1, <2>1 DEF Undoes, Marks
    <3> QED
      BY <1>2, <3>1
  <2>2. CASE e.kind = "delete"
    BY <1>1, <2>2 DEF Undoes, Marks
  <2> QED
    BY <2>1, <2>2
<1>4. p \in 1 .. b.z
  BY <1>2, <1>3
<1>5. Sound(b) /\ Pointed(b)
  BY Now
<1> QED
  BY <1>1, <1>4, <1>5, SetPoint

\* The buffer after an insertion has been undone.
LEMMA InsertUndone ==
  ASSUME IInv, NEW e, NEW u, Undoes(e, Text(b), u), e.kind = "insert"
  PROVE  LET B == set_buffer_point(b, e.beg)
             C == DeleteRange(B, e.beg, e.end)
         IN /\ Sound(C) /\ Pointed(C) /\ Text(C) = u
            /\ u = Cut(Text(b), e.beg, e.end)
            /\ e.beg \in 1 .. Len(Text(b)) /\ e.end \in e.beg + 1 .. Len(Text(b)) + 1
            /\ e.beg \in Positions /\ e.end \in Positions /\ e.beg < e.end
            /\ \A m \in Marker \ {point_marker} :
                 Position(C, m) = CutPlace(Position(b, m), e.beg, e.end)
<1>1. PICK p, q, t, B, C : /\ p = e.beg /\ q = e.end /\ t = Text(b)
                           /\ B = set_buffer_point(b, p) /\ C = DeleteRange(B, p, q)
  OBVIOUS
<1>2. p \in 1 .. Len(t) /\ q \in p + 1 .. Len(t) + 1 /\ u = Cut(t, p, q)
  BY <1>1 DEF Undoes, Marks
<1>3. PICK z : z = b.z /\ z \in Nat \ {0} /\ Len(t) = z - 1
  BY <1>1, Now
<1>4. p \in 1 .. z /\ q \in 1 .. z /\ p < q
  BY <1>2, <1>3
<1>5. /\ Sound(B) /\ Pointed(B) /\ Text(B) = t /\ B.z = z
      /\ \A m \in Marker \ {point_marker} : Position(B, m) = Position(b, m)
  BY <1>1, <1>3, EntryPlace
<1>6. /\ Sound(C) /\ Pointed(C) /\ Text(C) = Cut(t, p, q)
      /\ \A m \in Marker : Position(C, m) = CutPlace(Position(B, m), p, q)
  <2>1. p \in 1 .. B.z /\ q \in 1 .. B.z /\ p < q
    BY <1>4, <1>5
  <2> QED
    BY <1>1, <1>5, <2>1, Deleted
<1>7. p \in Positions /\ q \in Positions
  BY <1>3, <1>4 DEF Positions
<1> QED
  BY <1>1, <1>2, <1>4, <1>5, <1>6, <1>7

\* The buffer after a deletion has been undone.
LEMMA DeleteUndone ==
  ASSUME IInv, NEW e, NEW u, Undoes(e, Text(b), u), e.kind = "delete", e \in Entry
  PROVE  LET B == InsertString(set_buffer_point(b, e.beg), e.beg, e.str, "point")
             C == IF e.after THEN B ELSE set_buffer_point(B, e.beg)
         IN /\ Sound(C) /\ Pointed(C) /\ Text(C) = u
            /\ u = Ins(Text(b), e.beg, e.str)
            /\ e.beg \in 1 .. Len(Text(b)) + 1 /\ e.beg \in Positions
            /\ e.str \in Seq(Char) /\ e.str /= << >>
            /\ \A m \in Marker \ {point_marker} :
                 Position(C, m) = IF \/ Position(b, m) > e.beg
                                     \/ Position(b, m) = e.beg /\ m \in Advance
                                  THEN Position(b, m) + Len(e.str) ELSE Position(b, m)
<1>1. PICK p, s, t, A, B, C : /\ p = e.beg /\ s = e.str /\ t = Text(b)
                              /\ A = set_buffer_point(b, p)
                              /\ B = InsertString(A, p, s, "point")
                              /\ C = IF e.after THEN B ELSE set_buffer_point(B, p)
  OBVIOUS
<1>2. p \in 1 .. Len(t) + 1 /\ s /= << >> /\ u = Ins(t, p, s) /\ s \in Seq(Char)
  BY <1>1, EntryFields DEF Undoes, Marks
<1>3. PICK z, n : z = b.z /\ z \in Nat \ {0} /\ Len(t) = z - 1 /\ n = Len(s) /\ n \in Nat
  BY <1>1, <1>2, Now, LenProperties
<1>4. p \in 1 .. z
  BY <1>2, <1>3
<1>5. /\ Sound(A) /\ Pointed(A) /\ Text(A) = t /\ A.z = z /\ A.pt = p
      /\ \A m \in Marker \ {point_marker} : Position(A, m) = Position(b, m)
  BY <1>1, <1>3, EntryPlace
<1>6. /\ Sound(B) /\ Pointed(B) /\ Text(B) = Ins(t, p, s) /\ B.z = z + n
      /\ \A m \in Marker \ {point_marker} :
           Position(B, m) = IF \/ Position(A, m) > p
                               \/ Position(A, m) = p /\ m \in Advance
                            THEN Position(A, m) + n ELSE Position(A, m)
  <2>1. p \in 1 .. A.z /\ "point" \in {"here", "point", "before"} /\ "point" /= "before"
    BY <1>4, <1>5
  <2>2. /\ Sound(B) /\ Pointed(B) /\ Text(B) = Ins(Text(A), p, s) /\ B.z = A.z + Len(s)
        /\ \A m \in Marker \ {point_marker} :
             Position(B, m) =
               IF \/ Position(A, m) > p
                  \/ Position(A, m) = p /\ ("point" = "before" \/ m \in Advance)
               THEN Position(A, m) + Len(s) ELSE Position(A, m)
    BY <1>1, <1>2, <1>5, <2>1, Inserted
  <2> QED
    BY <1>3, <1>5, <2>1, <2>2
<1>7. /\ Sound(C) /\ Pointed(C) /\ Text(C) = Text(B)
      /\ \A m \in Marker \ {point_marker} : Position(C, m) = Position(B, m)
  <2>1. CASE e.after
    BY <1>1, <1>6, <2>1
  <2>2. CASE ~e.after
    <3>1. p \in 1 .. B.z
      BY <1>3, <1>4, <1>6
    <3> QED
      BY <1>1, <1>6, <2>2, <3>1, SetPoint
  <2> QED
    BY <2>1, <2>2
<1>8. p \in Positions
  BY <1>3, <1>4 DEF Positions
<1>9. \A m \in Marker \ {point_marker} :
        Position(C, m) = IF \/ Position(b, m) > p
                            \/ Position(b, m) = p /\ m \in Advance
                         THEN Position(b, m) + n ELSE Position(b, m)
  BY <1>5, <1>6, <1>7
<1> QED
  BY <1>1, <1>2, <1>3, <1>6, <1>7, <1>8, <1>9

\* The entry that the undo command is at.
LEMMA NowUndoing ==
  ASSUME IInv, undoing > 0, pending[1].kind /= "end"
  PROVE  /\ pending /= None /\ undo_list /= None /\ pending[1] \in Entry
         /\ \E u : /\ Undoes(pending[1], Text(b), u)
                   /\ Leads(Tail(pending), u, TRUE, saved)
                   /\ pending[1].kind /= "insert" => Leads(Tail(pending), u, FALSE, saved)
<1>1. /\ pending /= None /\ undo_list /= None
      /\ Leads(pending, Text(b), TRUE, saved)
  BY NowPending
<1>2. \E u : /\ Undoes(pending[1], Text(b), u)
             /\ Leads(Tail(pending), u, TRUE, saved)
             /\ pending[1].kind /= "insert" => Leads(Tail(pending), u, FALSE, saved)
  BY <1>1, LeadsOn
<1> QED
  BY <1>1, <1>2, LeadsList

LEMMA UndoInsertInv ==
  ASSUME IInv, UndoInsert
  PROVE  IInv'
<1>1. PICK e, p, q : e = pending[1] /\ p = e.beg /\ q = e.end
  OBVIOUS
<1>2. PICK C : C = DeleteRange(set_buffer_point(b, p), p, q)
  OBVIOUS
<1>3. /\ undoing > 0 /\ e.kind = "insert" /\ b' = C
      /\ undo_list' = record_delete(undo_list, p, q - p, p)
      /\ pending' = Tail(pending) /\ modified' = TRUE /\ want' = None
      /\ undoing' = undoing /\ saved' = saved
  BY <1>1, <1>2 DEF UndoInsert
<1>4. pending /= None /\ undo_list /= None
  BY <1>1, <1>3, NowUndoing
<1>5. PICK u : Undoes(e, Text(b), u) /\ Leads(Tail(pending), u, TRUE, saved)
  BY <1>1, <1>3, NowUndoing
<1>6. /\ Sound(C) /\ Pointed(C) /\ Text(C) = u /\ u = Cut(Text(b), p, q)
      /\ p \in 1 .. Len(Text(b)) /\ q \in p + 1 .. Len(Text(b)) + 1
  BY <1>1, <1>2, <1>3, <1>5, InsertUndone
<1>7. ~modified /\ saved /= None => Text(b) = saved
  BY <1>1, <1>3, NowPending
<1>8. /\ undoing \in 0 .. 2 /\ modified \in BOOLEAN /\ saved \in Seq(Char) \cup {None}
      /\ Leads(undo_list, Text(b), FALSE, saved)
  BY <1>4, Now
<1>9. PICK list : list = record_delete(undo_list, p, q - p, p)
  OBVIOUS
<1>10. Leads(list, Text(C), FALSE, saved) /\ list[1].kind = "delete"
  BY <1>6, <1>7, <1>8, <1>9, LeadsDelete
<1>11. list /= None /\ Leads(Tail(pending), Text(C), TRUE, saved)
  BY <1>5, <1>6, <1>10, LeadsList
<1>12. Tail(pending) /= None
  BY <1>11, LeadsList
<1> QED
  BY <1>3, <1>6, <1>8, <1>9, <1>10, <1>11, <1>12, NextInv

LEMMA UndoDeleteInv ==
  ASSUME IInv, UndoDelete
  PROVE  IInv'
<1>1. PICK e, p, s, B, C : /\ e = pending[1] /\ p = e.beg /\ s = e.str
                           /\ B = InsertString(set_buffer_point(b, p), p, s, "point")
                           /\ C = IF e.after THEN B ELSE set_buffer_point(B, p)
  OBVIOUS
<1>2. /\ undoing > 0 /\ e.kind = "delete" /\ b' = C
      /\ undo_list' = record_insert(undo_list, p, Len(s))
      /\ pending' = Tail(pending) /\ modified' = TRUE /\ want' = None
      /\ undoing' = undoing /\ saved' = saved
  BY <1>1 DEF UndoDelete
<1>3. pending /= None /\ undo_list /= None /\ e \in Entry
  BY <1>1, <1>2, NowUndoing
<1>4. PICK u : /\ Undoes(e, Text(b), u) /\ Leads(Tail(pending), u, TRUE, saved)
               /\ Leads(Tail(pending), u, FALSE, saved)
  BY <1>1, <1>2, NowUndoing
<1>5. /\ Sound(C) /\ Pointed(C) /\ Text(C) = u /\ u = Ins(Text(b), p, s)
      /\ p \in 1 .. Len(Text(b)) + 1 /\ s \in Seq(Char) /\ s /= << >>
  BY <1>1, <1>2, <1>3, <1>4, DeleteUndone
<1>6. ~modified /\ saved /= None => Text(b) = saved \/ undo_list[1].kind = "delete"
  BY NowPending DEF Halfway
<1>7. /\ undoing \in 0 .. 2 /\ modified \in BOOLEAN /\ saved \in Seq(Char) \cup {None}
      /\ Leads(undo_list, Text(b), FALSE, saved)
  BY <1>3, Now
<1>8. PICK list : list = record_insert(undo_list, p, Len(s))
  OBVIOUS
<1>9. Leads(list, Text(C), FALSE, saved)
  BY <1>5, <1>6, <1>7, <1>8, LeadsInsert
<1>10. /\ list /= None
       /\ Leads(Tail(pending), Text(C), TRUE, saved)
       /\ Leads(Tail(pending), Text(C), FALSE, saved)
  BY <1>4, <1>5, <1>9, LeadsList
<1>11. Tail(pending) /= None
  BY <1>10, LeadsList
<1> QED
  BY <1>2, <1>5, <1>7, <1>8, <1>9, <1>10, <1>11, NextInv

\* A quit entry has set point and moved the gap.
LEMMA QuitPlace ==
  ASSUME IInv, NEW p \in Positions, UndoQuit(p)
  PROVE  LET C == move_gap(set_buffer_point(b, pending[1].beg), p)
         IN /\ b' = C /\ Sound(C) /\ Pointed(C) /\ Text(C) = Text(b)
            /\ \A m \in Marker \ {point_marker} : Position(C, m) = Position(b, m)
<1>1. PICK e, B, C : e = pending[1] /\ B = set_buffer_point(b, e.beg) /\ C = move_gap(B, p)
  OBVIOUS
<1>2. undoing > 0 /\ e.kind \in {"insert", "delete"} /\ b' = C
  BY <1>1 DEF UndoQuit
<1>3. PICK u : Undoes(e, Text(b), u)
  BY <1>1, <1>2, NowUndoing
<1>4. /\ Sound(B) /\ Pointed(B) /\ Text(B) = Text(b) /\ B.z = b.z
      /\ \A m \in Marker \ {point_marker} : Position(B, m) = Position(b, m)
  BY <1>1, <1>2, <1>3, EntryPlace
<1>5. Sound(C) /\ Shows(C, B)
  BY <1>1, <1>4, MoveGap DEF Positions
<1>6. Pointed(C)
  BY <1>4, <1>5, MarkerAssumption DEF Shows, Pointed
<1>7. Text(C) = Text(b) /\ \A m \in Marker \ {point_marker} : Position(C, m) = Position(b, m)
  BY <1>4, <1>5 DEF Shows
<1> QED
  BY <1>1, <1>2, <1>5, <1>6, <1>7

LEMMA UndoQuitInv ==
  ASSUME IInv, NEW p \in Positions, UndoQuit(p)
  PROVE  IInv'
<1>1. PICK C : C = move_gap(set_buffer_point(b, pending[1].beg), p)
  OBVIOUS
<1>2. b' = C /\ Sound(C) /\ Pointed(C) /\ Text(C) = Text(b)
  BY <1>1, QuitPlace
<1>3. PICK sv : sv = IF modified THEN saved ELSE None
  OBVIOUS
<1>4. /\ undoing' = 0 /\ pending' = None /\ saved' = sv /\ want' = None
      /\ undo_list' = undo_list /\ modified' = modified
  BY <1>3 DEF UndoQuit
<1>5. /\ modified \in BOOLEAN /\ sv \in Seq(Char) \cup {None}
      /\ ~modified => sv = None
      /\ undo_list /= None => Leads(undo_list, Text(b), FALSE, sv)
  <2>1. /\ modified \in BOOLEAN /\ saved \in Seq(Char) \cup {None}
        /\ undo_list /= None => Leads(undo_list, Text(b), FALSE, saved)
    BY Now
  <2>2. CASE modified
    BY <1>3, <2>1, <2>2
  <2>3. CASE ~modified
    BY <1>3, <2>1, <2>3, LeadsNone
  <2> QED
    BY <2>2, <2>3
<1>6. 0 \in 0 .. 2 /\ ~(0 > 0)
  OBVIOUS
<1> QED
  BY <1>2, <1>4, <1>5, <1>6, NextInv

-----------------------------------------------------------------------------
(***************************************************************************)
(* The invariant, and what it says.                                        *)
(***************************************************************************)
LEMMA NextKeeps ==
  ASSUME IInv, [Next]_vars
  PROVE  IInv'
<1>1. ASSUME NEW p \in Positions, NEW s \in Strings,
             NEW place \in {"here", "point", "before"},
             buffer_insert_string_1(p, s, place)
      PROVE  IInv'
  BY <1>1, InsertInv
<1>2. ASSUME NEW from \in Positions, NEW to \in Positions, buffer_delete_range(from, to)
      PROVE  IInv'
  BY <1>2, DeleteInv
<1>3. ASSUME NEW p \in Positions, NEW c \in Char, buffer_replace_char(p, c)
      PROVE  IInv'
  BY <1>3, ReplaceInv
<1>4. ASSUME NEW p \in Positions, Fgoto_char(p) \/ Quit(p) \/ UndoQuit(p)
      PROVE  IInv'
  BY <1>4, GotoInv, QuitInv, UndoQuitInv
<1>5. ASSUME NEW m \in Marker, NEW p \in Positions, set_marker_internal(m, p)
      PROVE  IInv'
  BY <1>5, SetMarkerInv
<1>6. CASE Save \/ Fundo_boundary \/ truncate_undo_list
  BY <1>6, SaveInv, BoundaryInv, TruncateInv
<1>7. CASE undo \/ UndoMark \/ UndoUnmodified \/ UndoInsert \/ UndoDelete
  BY <1>7, UndoInv, MarkInv, UnmodifiedInv, UndoInsertInv, UndoDeleteInv
<1>8. CASE UNCHANGED vars
  BY <1>8 DEF vars, IInv, TypeOK, ListsLead, Unmodified, UndoRestores, Halfway
<1> QED
  BY <1>1, <1>2, <1>3, <1>4, <1>5, <1>6, <1>7, <1>8 DEF Next

\* Both undo lists always lead back from the text of a sound buffer, whose
\* changes (insdel.c) and whose undo (undo.c) keep them so.
THEOREM InvariantHolds == Spec => []IInv
<1>1. Init => IInv
  BY InitInv
<1>2. IInv /\ [Next]_vars => IInv'
  BY NextKeeps
<1> QED
  BY <1>1, <1>2, PTL DEF Spec

\* The block of memory always holds the characters, the gap and the end gap,
\* and no marker is in the gap: gap_left, gap_right, make_gap, InsertString and
\* DeleteRange adjust the sizes and the markers as they should.
THEOREM TypeCorrect == Spec => []TypeOK
<1>1. IInv => TypeOK
  BY DEF IInv
<1> QED
  BY <1>1, InvariantHolds, PTL

\* set_buffer_point, InsertString and DeleteRange, each in its way, keep the
\* position of point and its marker the same.
THEOREM PointFollowed == Spec => []PointMarkerAtPoint
<1>1. IInv => PointMarkerAtPoint
  <2> SUFFICES ASSUME IInv PROVE PointMarkerAtPoint
    OBVIOUS
  <2> QED
    BY Now DEF Pointed, PointMarkerAtPoint, Positions
<1> QED
  BY <1>1, InvariantHolds, PTL

\* primitive-undo, back to a boundary, restores the text that was there.
THEOREM UndoIsExact == Spec => []UndoRestores
<1>1. IInv => UndoRestores
  BY DEF IInv
<1> QED
  BY <1>1, InvariantHolds, PTL

\* An entry (t . MODTIME) that primitive-undo takes marks the buffer unmodified
\* only where it has the text last saved.
THEOREM SavedIsSaved == Spec => []SavedText
<1>1. IInv => SavedText
  <2> SUFFICES ASSUME IInv PROVE SavedText
    OBVIOUS
  <2> QED
    BY Now DEF SavedText
<1> QED
  BY <1>1, InvariantHolds, PTL

-----------------------------------------------------------------------------
(***************************************************************************)
(* Each step is one of FlatText.                                           *)
(***************************************************************************)
LEMMA FlatInit == Init => flat!Init
<1> SUFFICES ASSUME Init PROVE flat!Init
  OBVIOUS
<1>1. PICK text \in [1 .. FileSize -> Char] : b = Visiting(text)
  BY DEF Init
<1>2. /\ Text(b) = text /\ text \in Seq(Char)
      /\ \A m \in Marker : Position(b, m) = 1
  BY <1>1, Visited
<1>3. 1 \in 1 .. Len(text) + 1
  BY <1>2, LenProperties
<1> QED
  BY <1>2, <1>3 DEF flat!Init, flat!Positions

LEMMA FlatInsert ==
  ASSUME NEW B, b' = B, Text(b) \in Seq(Char), NEW p \in 1 .. Len(Text(b)) + 1,
         NEW s \in Seq(Char), s /= << >>, NEW before \in BOOLEAN,
         Text(B) = Ins(Text(b), p, s),
         \A m \in Marker \ {point_marker} :
           Position(B, m) = IF \/ Position(b, m) > p
                               \/ Position(b, m) = p /\ (before \/ m \in Advance)
                            THEN Position(b, m) + Len(s) ELSE Position(b, m)
  PROVE  flat!Next
<1>1. PICK t, u, n : t = Text(b) /\ u = Text(B) /\ n = Len(s)
  OBVIOUS
<1>2. t \in Seq(Char) /\ Len(t) \in Nat /\ n \in Nat \ {0} /\ p \in 1 .. Len(t) + 1
  BY <1>1, LenProperties, EmptySeq
<1>3. /\ u = SubSeq(t, 1, p - 1) \o s \o SubSeq(t, p, Len(t))
      /\ SubSeq(u, p, p + n - 1) = s /\ Len(u) = Len(t) + n
  <2>1. u = Ins(t, p, s)
    BY <1>1
  <2>2. /\ Ins(t, p, s) = SubSeq(t, 1, p - 1) \o s \o SubSeq(t, p, Len(t))
        /\ SubSeq(Ins(t, p, s), p, p + Len(s) - 1) = s
    BY <1>2, InsIsConcat
  <2>3. Len(Ins(t, p, s)) = Len(t) + Len(s)
    BY <1>2, InsSeq
  <2> QED
    BY <1>1, <2>1, <2>2, <2>3
<1>4. Len(u) - Len(t) = n /\ n > 0
  <2>1. PICK k, l : k = Len(u) /\ l = Len(t)
    OBVIOUS
  <2>2. l \in Nat /\ n \in Nat \ {0} /\ k = l + n
    BY <1>2, <1>3, <2>1
  <2>3. k - l = n /\ n > 0
    BY <2>2
  <2> QED
    BY <2>1, <2>3
<1>5. Text(b)' = u
  BY <1>1
<1>6. flat!Insert(p, s, before)
  BY <1>1, <1>2, <1>3, <1>5 DEF flat!Insert, flat!Positions
<1> QED
  BY <1>1, <1>2, <1>3, <1>4, <1>5, <1>6 DEF flat!Next, flat!Positions

LEMMA FlatDelete ==
  ASSUME NEW B, b' = B, Text(b) \in Seq(Char),
         NEW p \in 1 .. Len(Text(b)), NEW q \in p + 1 .. Len(Text(b)) + 1,
         Text(B) = Cut(Text(b), p, q),
         \A m \in Marker \ {point_marker} : Position(B, m) = CutPlace(Position(b, m), p, q)
  PROVE  flat!Next
<1>1. PICK t : t = Text(b)
  OBVIOUS
<1>2. t \in Seq(Char) /\ Len(t) \in Nat
  BY <1>1, LenProperties
<1>3. p \in 1 .. Len(t) + 1 /\ q \in 1 .. Len(t) + 1 /\ p < q
  BY <1>1, <1>2
<1>4. Text(b)' = SubSeq(t, 1, p - 1) \o SubSeq(t, q, Len(t))
  BY <1>1, CutIsConcat
<1>5. flat!Delete(p, q)
  BY <1>1, <1>3, <1>4 DEF flat!Delete, flat!Positions, CutPlace
<1> QED
  BY <1>1, <1>3, <1>5 DEF flat!Next, flat!Positions

LEMMA FlatReplace ==
  ASSUME NEW B, b' = B, Text(b) \in Seq(Char),
         NEW p \in 1 .. Len(Text(b)), NEW c \in Char,
         Text(B) = Put(Text(b), p, c),
         \A m \in Marker \ {point_marker} : Position(B, m) = Position(b, m)
  PROVE  flat!Next
<1>1. PICK t : t = Text(b)
  OBVIOUS
<1>2. Len(t) \in Nat /\ DOMAIN t = 1 .. Len(t)
  BY <1>1, LenProperties
<1>3. p \in 1 .. Len(t) + 1 /\ p \in DOMAIN t
  BY <1>1, <1>2
<1>4. Text(b)' = [t EXCEPT ![p] = c]
  BY <1>1 DEF Put
<1>5. flat!Replace(p, c)
  BY <1>1, <1>3, <1>4 DEF flat!Replace
<1> QED
  BY <1>1, <1>3, <1>5 DEF flat!Next, flat!Positions

LEMMA FlatSet ==
  ASSUME NEW B, b' = B, NEW k \in Marker \ {point_marker},
         NEW p \in 1 .. Len(Text(b)) + 1, Text(B) = Text(b),
         \A m \in Marker \ {point_marker} :
           Position(B, m) = IF m = k THEN p ELSE Position(b, m)
  PROVE  flat!Next
<1>1. Text(b)' = Text(b)
  OBVIOUS
<1>2. flat!SetMarker(k, p)
  BY <1>1 DEF flat!SetMarker, flat!Positions
<1> QED
  BY <1>2 DEF flat!Next, flat!Positions

LEMMA FlatStill ==
  ASSUME NEW B, b' = B, Text(B) = Text(b),
         \A m \in Marker \ {point_marker} : Position(B, m) = Position(b, m)
  PROVE  UNCHANGED flat!vars
<1>1. Text(b)' = Text(b)
  OBVIOUS
<1>2. [m \in Marker \ {point_marker} |-> Position(b, m)]'
        = [m \in Marker \ {point_marker} |-> Position(b, m)]
  OBVIOUS
<1> QED
  BY <1>1, <1>2 DEF flat!vars

LEMMA FlatSame ==
  ASSUME b' = b
  PROVE  UNCHANGED flat!vars
BY FlatStill

LEMMA MapInsert ==
  ASSUME IInv, NEW p \in Positions, NEW s \in Strings,
         NEW place \in {"here", "point", "before"}, buffer_insert_string_1(p, s, place)
  PROVE  flat!Next
<1>1. (place /= "here" => p = b.pt) /\ b' = InsertString(b, p, s, place)
  BY DEF buffer_insert_string_1
<1>2. p \in 1 .. b.z /\ p \in 1 .. Len(Text(b)) + 1 /\ Text(b) \in Seq(Char)
  BY Now DEF Positions
<1>3. s \in Seq(Char) /\ s /= << >>
  BY StringIs
<1>4. PICK C : C = InsertString(b, p, s, place)
  OBVIOUS
<1>5. /\ Text(C) = Ins(Text(b), p, s)
      /\ \A m \in Marker \ {point_marker} :
           Position(C, m) =
             IF \/ Position(b, m) > p
                \/ Position(b, m) = p /\ (place = "before" \/ m \in Advance)
             THEN Position(b, m) + Len(s) ELSE Position(b, m)
  BY <1>1, <1>2, <1>3, <1>4, Now, Inserted
<1>6. PICK before \in BOOLEAN : before <=> place = "before"
  OBVIOUS
<1>7. \A m \in Marker \ {point_marker} :
        Position(C, m) = IF \/ Position(b, m) > p
                            \/ Position(b, m) = p /\ (before \/ m \in Advance)
                         THEN Position(b, m) + Len(s) ELSE Position(b, m)
  BY <1>5, <1>6
<1> QED
  BY <1>1, <1>2, <1>3, <1>4, <1>5, <1>7, FlatInsert

LEMMA MapDelete ==
  ASSUME IInv, NEW from \in Positions, NEW to \in Positions,
         buffer_delete_range(from, to)
  PROVE  flat!Next
<1>1. from < to /\ b' = DeleteRange(b, from, to)
  BY DEF buffer_delete_range
<1>2. from \in 1 .. b.z /\ to \in 1 .. b.z /\ Text(b) \in Seq(Char)
  BY Now DEF Positions
<1>3. from \in 1 .. Len(Text(b)) /\ to \in from + 1 .. Len(Text(b)) + 1
  BY <1>1, <1>2, Now
<1>4. PICK C : C = DeleteRange(b, from, to)
  OBVIOUS
<1>5. /\ Text(C) = Cut(Text(b), from, to)
      /\ \A m \in Marker : Position(C, m) = CutPlace(Position(b, m), from, to)
  BY <1>1, <1>2, <1>4, Now, Deleted
<1> QED
  BY <1>1, <1>2, <1>3, <1>4, <1>5, FlatDelete

LEMMA MapReplace ==
  ASSUME IInv, NEW p \in Positions, NEW c \in Char, buffer_replace_char(p, c)
  PROVE  flat!Next
<1>1. p < b.z /\ b' = ReplaceChar(b, p, c)
  BY DEF buffer_replace_char
<1>2. p \in 1 .. b.z - 1 /\ p \in 1 .. Len(Text(b)) /\ Text(b) \in Seq(Char)
  BY <1>1, Now DEF Positions
<1>3. PICK C : C = ReplaceChar(b, p, c)
  OBVIOUS
<1>4. /\ Text(C) = Put(Text(b), p, c)
      /\ \A m \in Marker : Position(C, m) = Position(b, m)
  BY <1>2, <1>3, Now, Replaced DEF Put
<1> QED
  BY <1>1, <1>2, <1>3, <1>4, FlatReplace

LEMMA MapSetMarker ==
  ASSUME IInv, NEW m \in Marker, NEW p \in Positions, set_marker_internal(m, p)
  PROVE  flat!Next
<1>1. PICK C : C = [b EXCEPT !.membpos[m] = bytebpos_to_membpos(b, p)]
  OBVIOUS
<1>2. m \in Marker \ {point_marker} /\ b' = C
  BY <1>1 DEF set_marker_internal
<1>3. C = MarkerSet(b, m, p, b.pt)
  <2>1. b = [b EXCEPT !.pt = b.pt]
    BY Now DEF Sound
  <2> QED
    BY <1>1, <2>1, Now DEF MarkerSet, Sound
<1>4. p \in 1 .. b.z /\ p \in 1 .. Len(Text(b)) + 1
  BY Now DEF Positions
<1>5. /\ Text(C) = Text(b)
      /\ \A k \in Marker : Position(C, k) = IF k = m THEN p ELSE Position(b, k)
  BY <1>3, <1>4, Now, SetMarker
<1> QED
  BY <1>2, <1>4, <1>5, FlatSet

\* Point and the gap are no part of a flat text.
LEMMA MapMotion ==
  ASSUME IInv, NEW p \in Positions, Fgoto_char(p) \/ Quit(p) \/ UndoQuit(p)
  PROVE  UNCHANGED flat!vars
<1>1. p \in 1 .. b.z
  BY DEF Positions
<1>2. CASE Fgoto_char(p)
  <2>1. PICK C : C = set_buffer_point(b, p)
    OBVIOUS
  <2>2. b' = C
    BY <1>2, <2>1 DEF Fgoto_char
  <2>3. /\ Text(C) = Text(b)
        /\ \A m \in Marker \ {point_marker} : Position(C, m) = Position(b, m)
    BY <1>1, <2>1, Now, SetPoint
  <2> QED
    BY <2>2, <2>3, FlatStill
<1>3. CASE Quit(p)
  <2>1. PICK C : C = move_gap(b, p)
    OBVIOUS
  <2>2. b' = C
    BY <1>3, <2>1 DEF Quit
  <2>3. /\ Text(C) = Text(b)
        /\ \A m \in Marker \ {point_marker} : Position(C, m) = Position(b, m)
    BY <1>1, <2>1, Now, MoveGap DEF Shows
  <2> QED
    BY <2>2, <2>3, FlatStill
<1>4. CASE UndoQuit(p)
  BY <1>4, QuitPlace, FlatStill
<1> QED
  BY <1>2, <1>3, <1>4

LEMMA MapUndoInsert ==
  ASSUME IInv, UndoInsert
  PROVE  flat!Next
<1>1. PICK e, p, q : e = pending[1] /\ p = e.beg /\ q = e.end
  OBVIOUS
<1>2. PICK C : C = DeleteRange(set_buffer_point(b, p), p, q)
  OBVIOUS
<1>3. undoing > 0 /\ e.kind = "insert" /\ b' = C
  BY <1>1, <1>2 DEF UndoInsert
<1>4. PICK u : Undoes(e, Text(b), u)
  BY <1>1, <1>3, NowUndoing
<1>5. /\ Text(C) = Cut(Text(b), p, q)
      /\ p \in 1 .. Len(Text(b)) /\ q \in p + 1 .. Len(Text(b)) + 1
      /\ \A m \in Marker \ {point_marker} :
           Position(C, m) = CutPlace(Position(b, m), p, q)
  BY <1>1, <1>2, <1>3, <1>4, InsertUndone
<1>6. Text(b) \in Seq(Char)
  BY Now
<1> QED
  BY <1>3, <1>5, <1>6, FlatDelete

LEMMA MapUndoDelete ==
  ASSUME IInv, UndoDelete
  PROVE  flat!Next
<1>1. PICK e, p, s, B, C : /\ e = pending[1] /\ p = e.beg /\ s = e.str
                           /\ B = InsertString(set_buffer_point(b, p), p, s, "point")
                           /\ C = IF e.after THEN B ELSE set_buffer_point(B, p)
  OBVIOUS
<1>2. undoing > 0 /\ e.kind = "delete" /\ b' = C
  BY <1>1 DEF UndoDelete
<1>3. e \in Entry
  BY <1>1, <1>2, NowUndoing
<1>4. PICK u : Undoes(e, Text(b), u)
  BY <1>1, <1>2, NowUndoing
<1>5. /\ Text(C) = Ins(Text(b), p, s)
      /\ p \in 1 .. Len(Text(b)) + 1 /\ s \in Seq(Char) /\ s /= << >>
      /\ \A m \in Marker \ {point_marker} :
           Position(C, m) = IF \/ Position(b, m) > p
                               \/ Position(b, m) = p /\ m \in Advance
                            THEN Position(b, m) + Len(s) ELSE Position(b, m)
  BY <1>1, <1>2, <1>3, <1>4, DeleteUndone
<1>6. Text(b) \in Seq(Char)
  BY Now
<1>7. PICK before \in BOOLEAN : ~before
  OBVIOUS
<1>8. \A m \in Marker \ {point_marker} :
        Position(C, m) = IF \/ Position(b, m) > p
                            \/ Position(b, m) = p /\ (before \/ m \in Advance)
                         THEN Position(b, m) + Len(s) ELSE Position(b, m)
  BY <1>5, <1>7
<1> QED
  BY <1>2, <1>5, <1>6, <1>8, FlatInsert

LEMMA NextMaps ==
  ASSUME IInv, [Next]_vars
  PROVE  [flat!Next]_(flat!vars)
<1>1. ASSUME NEW p \in Positions, NEW s \in Strings,
             NEW place \in {"here", "point", "before"},
             buffer_insert_string_1(p, s, place)
      PROVE  flat!Next
  BY <1>1, MapInsert
<1>2. ASSUME NEW from \in Positions, NEW to \in Positions, buffer_delete_range(from, to)
      PROVE  flat!Next
  BY <1>2, MapDelete
<1>3. ASSUME NEW p \in Positions, NEW c \in Char, buffer_replace_char(p, c)
      PROVE  flat!Next
  BY <1>3, MapReplace
<1>4. ASSUME NEW p \in Positions, Fgoto_char(p) \/ Quit(p) \/ UndoQuit(p)
      PROVE  UNCHANGED flat!vars
  BY <1>4, MapMotion
<1>5. ASSUME NEW m \in Marker, NEW p \in Positions, set_marker_internal(m, p)
      PROVE  flat!Next
  BY <1>5, MapSetMarker
<1>6. CASE UndoInsert \/ UndoDelete
  BY <1>6, MapUndoInsert, MapUndoDelete
<1>7. CASE \/ Save \/ Fundo_boundary \/ truncate_undo_list
           \/ undo \/ UndoMark \/ UndoUnmodified \/ UNCHANGED vars
  <2>1. b' = b
    BY <1>7 DEF Save, Fundo_boundary, truncate_undo_list, undo, UndoMark,
                UndoUnmodified, EndGroup, vars
  <2> QED
    BY <2>1, FlatSame
<1> QED
  BY <1>1, <1>2, <1>3, <1>4, <1>5, <1>6, <1>7 DEF Next

\* The block of memory with its gaps, its moving markers and the undo commands
\* on it (insdel.c, marker.c, undo.c) implements a flat text with markers that
\* stay at their characters, whatever the sizes.
THEOREM Refinement == Spec => ImplementsFlatText
<1>1. Init => flat!Init
  BY FlatInit
<1>2. IInv /\ [Next]_vars => [flat!Next]_(flat!vars)
  BY NextMaps
<1> QED
  BY <1>1, <1>2, InvariantHolds, PTL DEF Spec, ImplementsFlatText, flat!Spec
=============================================================================
