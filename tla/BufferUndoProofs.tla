-------------------------- MODULE BufferUndoProofs --------------------------
(***************************************************************************)
(* What an undo list remembers.                                            *)
(*                                                                         *)
(* History(list, T) says that T is the sequence of texts that list leads   *)
(* back through: T[1] is the text now, undoing entry i turns T[i] into     *)
(* T[i + 1], and a boundary carries the text that is found there.  The     *)
(* lemmas show that recording a change, merging it with the last one,      *)
(* cutting the list, marking its entries obsolete and taking its first     *)
(* entry off all keep such a T.                                            *)
(***************************************************************************)
EXTENDS BufferGapProofs, WellFoundedInduction

\* Undoing e turns the text t into u.
Undoes(e, t, u) ==
  \/ e.kind \in Marks \cup {"unmodified"} /\ u = t
  \/ /\ e.kind = "insert"
     /\ e.beg \in 1 .. Len(t) /\ e.end \in e.beg + 1 .. Len(t) + 1
     /\ u = Cut(t, e.beg, e.end)
  \/ /\ e.kind = "delete"
     /\ e.beg \in 1 .. Len(t) + 1 /\ e.str /= << >>
     /\ u = Ins(t, e.beg, e.str)

History(list, T) ==
  /\ list \in Seq(Entry) /\ list /= << >>
  /\ T \in Seq(Seq(Char)) /\ Len(T) = Len(list)
  /\ list[Len(list)].kind = "end"
  /\ \A i \in 1 .. Len(list) : list[i].kind \in Marks => list[i].text = T[i]
  /\ \A i \in 1 .. Len(list) - 1 : Undoes(list[i], T[i], T[i + 1])

\* An entry (t . MODTIME) that is not obsolete stands at the saved text sv,
\* unless it is the one in the middle of a replaced character; first says
\* that the insertion before it has been undone already.
Fresh(e) == e.kind = "unmodified" /\ ~e.obsolete

Honest(list, T, first, sv) ==
  sv /= None =>
    \A i \in 1 .. Len(list) :
      Fresh(list[i]) =>
        \/ T[i] = sv
        \/ /\ i < Len(list) /\ list[i + 1].kind = "delete"
           /\ IF i = 1 THEN first ELSE list[i - 1].kind = "insert"

-----------------------------------------------------------------------------
(***************************************************************************)
(* Texts.                                                                  *)
(***************************************************************************)
LEMMA SameSeq ==
  ASSUME NEW S, NEW s \in Seq(S), NEW t \in Seq(S), NEW n \in Nat,
         Len(s) = n, Len(t) = n, \A i \in 1 .. n : s[i] = t[i]
  PROVE  s = t
BY SeqEqual

LEMMA InsSeq ==
  ASSUME NEW t \in Seq(Char), NEW s \in Seq(Char), NEW p \in 1 .. Len(t) + 1
  PROVE  /\ Ins(t, p, s) \in Seq(Char)
         /\ Len(Ins(t, p, s)) = Len(t) + Len(s)
         /\ Len(t) \in Nat /\ Len(s) \in Nat
<1>1. PICK n, k : n = Len(t) /\ k = Len(s)
  OBVIOUS
<1>2. n \in Nat /\ k \in Nat /\ t \in [1 .. n -> Char] /\ s \in [1 .. k -> Char]
  BY <1>1, LenProperties
<1>3. Ins(t, p, s) = [i \in 1 .. n + k |->
                        IF i < p THEN t[i] ELSE IF i < p + k THEN s[i - p + 1]
                        ELSE t[i - k]]
  BY <1>1 DEF Ins
<1>4. p \in 1 .. n + 1
  BY <1>1
<1>5. Ins(t, p, s) \in [1 .. n + k -> Char]
  BY <1>2, <1>3, <1>4
<1>6. n + k \in Nat
  BY <1>2
<1> QED
  BY <1>1, <1>2, <1>5, <1>6, SeqOf

LEMMA CutSeq ==
  ASSUME NEW t \in Seq(Char), NEW p \in 1 .. Len(t), NEW q \in p + 1 .. Len(t) + 1
  PROVE  /\ Cut(t, p, q) \in Seq(Char)
         /\ Len(Cut(t, p, q)) = Len(t) - (q - p)
         /\ Len(t) \in Nat
<1>1. PICK n : n = Len(t)
  OBVIOUS
<1>2. n \in Nat /\ t \in [1 .. n -> Char] /\ p \in 1 .. n /\ q \in p + 1 .. n + 1
  BY <1>1, LenProperties
<1>3. Cut(t, p, q) = [i \in 1 .. n - (q - p) |->
                        IF i < p THEN t[i] ELSE t[i + (q - p)]]
  BY <1>1 DEF Cut
<1>4. Cut(t, p, q) \in [1 .. n - (q - p) -> Char] /\ n - (q - p) \in Nat
  BY <1>2, <1>3
<1> QED
  BY <1>1, <1>2, <1>4, SeqOf

\* An inserted text is cut out again, with what was inserted just before it.
LEMMA CutIns ==
  ASSUME NEW t \in Seq(Char), NEW s \in Seq(Char), s /= << >>,
         NEW p \in 1 .. Len(t) + 1, NEW o \in 1 .. p
  PROVE  /\ p + Len(s) \in o + 1 .. Len(Ins(t, p, s)) + 1
         /\ o \in 1 .. Len(Ins(t, p, s))
         /\ o = p => Cut(Ins(t, p, s), o, p + Len(s)) = t
         /\ o < p => Cut(Ins(t, p, s), o, p + Len(s)) = Cut(t, o, p)
<1>1. PICK n, k, q, l, u : /\ n = Len(t) /\ k = Len(s)
                           /\ q = p + k /\ l = n + k
                           /\ u = Ins(t, p, s)
  OBVIOUS
<1>2. /\ n \in Nat /\ k \in Nat \ {0} /\ p \in 1 .. n + 1 /\ o \in 1 .. p
      /\ q \in Nat /\ q = p + k /\ l \in Nat /\ l = n + k
      /\ t \in [1 .. n -> Char] /\ s \in [1 .. k -> Char]
  BY <1>1, LenProperties, EmptySeq
<1>3. u \in Seq(Char) /\ Len(u) = l
  BY <1>1, InsSeq
<1>4. u = [i \in 1 .. l |-> IF i < p THEN t[i]
                                ELSE IF i < q THEN s[i - p + 1] ELSE t[i - k]]
  BY <1>1 DEF Ins
<1>5. q \in o + 1 .. Len(u) + 1 /\ o \in 1 .. Len(u)
  BY <1>2, <1>3
<1>6. Cut(u, o, q) = [i \in 1 .. l - (q - o) |->
                        IF i < o THEN u[i] ELSE u[i + (q - o)]]
  BY <1>3 DEF Cut
<1>7. ASSUME o = p PROVE Cut(u, o, q) = t
  <2>1. 1 .. l - (q - o) = 1 .. n
    BY <1>2, <1>7
  <2>2. ASSUME NEW i \in 1 .. n
        PROVE  (IF i < o THEN u[i] ELSE u[i + (q - o)]) = t[i]
    BY <1>2, <1>4, <1>7
  <2> QED
    BY <1>2, <1>6, <2>1, <2>2
<1>8. ASSUME o < p PROVE Cut(u, o, q) = Cut(t, o, p)
  <2>1. Cut(t, o, p) = [i \in 1 .. n - (p - o) |->
                          IF i < o THEN t[i] ELSE t[i + (p - o)]]
    BY <1>1 DEF Cut
  <2>2. l - (q - o) = n - (p - o)
    BY <1>2
  <2>3. ASSUME NEW i \in 1 .. n - (p - o)
        PROVE  (IF i < o THEN u[i] ELSE u[i + (q - o)])
                 = IF i < o THEN t[i] ELSE t[i + (p - o)]
    BY <1>2, <1>4, <1>8, <2>2
  <2> QED
    BY <1>6, <2>1, <2>2, <2>3
<1> QED
  BY <1>1, <1>5, <1>7, <1>8

\* And a deleted text is put back.
LEMMA InsCut ==
  ASSUME NEW t \in Seq(Char), NEW p \in 1 .. Len(t), NEW q \in p + 1 .. Len(t) + 1
  PROVE  LET s == SubSeq(t, p, q - 1)
         IN /\ s \in Seq(Char) /\ s /= << >> /\ Len(s) = q - p
            /\ p \in 1 .. Len(Cut(t, p, q)) + 1
            /\ Ins(Cut(t, p, q), p, s) = t
<1>1. PICK n, u, s : n = Len(t) /\ u = Cut(t, p, q) /\ s = SubSeq(t, p, q - 1)
  OBVIOUS
<1>2. n \in Nat /\ t \in [1 .. n -> Char] /\ p \in 1 .. n /\ q \in p + 1 .. n + 1
  BY <1>1, LenProperties
<1>3. /\ s \in Seq(Char) /\ Len(s) = q - p
      /\ \A i \in 1 .. q - p : s[i] = t[p + i - 1]
  <2>1. p \in Int /\ q - 1 \in Int /\ \A i \in p .. q - 1 : t[i] \in Char
    BY <1>2
  <2>2. /\ s \in Seq(Char)
        /\ Len(s) = IF p <= q - 1 THEN q - 1 - p + 1 ELSE 0
        /\ \A i \in 1 .. q - 1 - p + 1 : s[i] = t[p + i - 1]
    BY <1>1, <2>1, SubSeqProperties
  <2>3. q - 1 - p + 1 = q - p /\ p <= q - 1
    BY <1>2
  <2> QED
    BY <2>2, <2>3
<1>4. s /= << >>
  BY <1>2, <1>3, EmptySeq
<1>5. u \in Seq(Char) /\ Len(u) = n - (q - p)
  BY <1>1, CutSeq
<1>6. u = [i \in 1 .. n - (q - p) |-> IF i < p THEN t[i] ELSE t[i + (q - p)]]
  BY <1>1 DEF Cut
<1>7. p \in 1 .. Len(u) + 1
  BY <1>2, <1>5
<1>8. Ins(u, p, s) = [i \in 1 .. n - (q - p) + (q - p) |->
                        IF i < p THEN u[i]
                        ELSE IF i < p + (q - p) THEN s[i - p + 1]
                        ELSE u[i - (q - p)]]
  BY <1>3, <1>5 DEF Ins
<1>9. n - (q - p) + (q - p) = n
  BY <1>2
<1>10. ASSUME NEW i \in 1 .. n
       PROVE  (IF i < p THEN u[i] ELSE IF i < p + (q - p) THEN s[i - p + 1]
               ELSE u[i - (q - p)]) = t[i]
  <2>1. CASE i < p
    BY <1>2, <1>6, <2>1
  <2>2. CASE p <= i /\ i < q
    BY <1>2, <1>3, <2>2
  <2>3. CASE q <= i
    BY <1>2, <1>6, <2>3
  <2> QED
    BY <1>2, <2>1, <2>2, <2>3
<1> QED
  BY <1>1, <1>2, <1>3, <1>4, <1>7, <1>8, <1>9, <1>10

\* A replaced character is a deleted and an inserted one.
LEMMA InsCutReplaces ==
  ASSUME NEW t \in Seq(Char), NEW p \in 1 .. Len(t), NEW c \in Char
  PROVE  Ins(Cut(t, p, p + 1), p, <<c>>) = [t EXCEPT ![p] = c]
<1>1. PICK n, q, u : n = Len(t) /\ q = p + 1 /\ u = Cut(t, p, q)
  OBVIOUS
<1>2. n \in Nat /\ t \in [1 .. n -> Char] /\ p \in 1 .. n
  BY <1>1, LenProperties
<1>3. Len(u) = n - 1
  <2>1. q \in p + 1 .. Len(t) + 1
    BY <1>1, <1>2
  <2>2. Len(u) = n - (q - p)
    BY <1>1, <2>1, CutSeq
  <2> QED
    BY <1>1, <1>2, <2>2
<1>4. u = [i \in 1 .. n - (q - p) |-> IF i < p THEN t[i] ELSE t[i + (q - p)]]
  BY <1>1 DEF Cut
<1>5. Ins(u, p, <<c>>) = [i \in 1 .. n - 1 + 1 |->
                            IF i < p THEN u[i] ELSE IF i < p + 1 THEN <<c>>[i - p + 1]
                            ELSE u[i - 1]]
  BY <1>3 DEF Ins
<1>6. n - 1 + 1 = n
  BY <1>2
<1>7. ASSUME NEW i \in 1 .. n
      PROVE  (IF i < p THEN u[i] ELSE IF i < p + 1 THEN <<c>>[i - p + 1] ELSE u[i - 1])
               = IF i = p THEN c ELSE t[i]
  <2>1. CASE i < p
    BY <1>1, <1>2, <1>4, <2>1
  <2>2. CASE i = p
    BY <1>2, <2>2
  <2>3. CASE i > p
    BY <1>1, <1>2, <1>4, <2>3
  <2> QED
    BY <1>2, <2>1, <2>2, <2>3
<1> QED
  BY <1>1, <1>2, <1>5, <1>6, <1>7

\* Ins and Cut as FlatText writes them.
LEMMA InsIsConcat ==
  ASSUME NEW t \in Seq(Char), NEW s \in Seq(Char), NEW p \in 1 .. Len(t) + 1
  PROVE  /\ Ins(t, p, s) = SubSeq(t, 1, p - 1) \o s \o SubSeq(t, p, Len(t))
         /\ SubSeq(Ins(t, p, s), p, p + Len(s) - 1) = s
<1>1. PICK n, k, q, l, u, x, y : /\ n = Len(t) /\ k = Len(s) /\ q = p + k /\ l = n + k
                                 /\ u = Ins(t, p, s)
                                 /\ x = SubSeq(t, 1, p - 1) /\ y = SubSeq(t, p, n)
  OBVIOUS
<1>2. /\ n \in Nat /\ k \in Nat /\ p \in 1 .. n + 1
      /\ q \in Nat /\ q = p + k /\ l \in Nat /\ l = n + k
      /\ t \in [1 .. n -> Char] /\ s \in [1 .. k -> Char]
  BY <1>1, LenProperties
<1>3. u \in Seq(Char) /\ Len(u) = l
  BY <1>1, InsSeq
<1>4. u = [i \in 1 .. l |-> IF i < p THEN t[i]
                            ELSE IF i < q THEN s[i - p + 1] ELSE t[i - k]]
  BY <1>1 DEF Ins
<1>5. /\ x \in Seq(Char) /\ Len(x) = p - 1
      /\ \A i \in 1 .. p - 1 : x[i] = t[i]
  <2>1. 1 \in Int /\ p - 1 \in Int /\ \A i \in 1 .. p - 1 : t[i] \in Char
    BY <1>2
  <2>2. /\ x \in Seq(Char)
        /\ Len(x) = IF 1 <= p - 1 THEN p - 1 - 1 + 1 ELSE 0
        /\ \A i \in 1 .. p - 1 - 1 + 1 : x[i] = t[1 + i - 1]
    BY <1>1, <2>1, SubSeqProperties
  <2> QED
    BY <1>2, <2>2
<1>6. /\ y \in Seq(Char) /\ Len(y) = n - p + 1
      /\ \A i \in 1 .. n - p + 1 : y[i] = t[p + i - 1]
  <2>1. p \in Int /\ n \in Int /\ \A i \in p .. n : t[i] \in Char
    BY <1>2
  <2>2. /\ y \in Seq(Char)
        /\ Len(y) = IF p <= n THEN n - p + 1 ELSE 0
        /\ \A i \in 1 .. n - p + 1 : y[i] = t[p + i - 1]
    BY <1>1, <2>1, SubSeqProperties
  <2> QED
    BY <1>2, <2>2
<1>7. PICK xs : xs = x \o s
  OBVIOUS
<1>8. /\ xs \in Seq(Char) /\ Len(xs) = p - 1 + k
      /\ \A i \in 1 .. p - 1 + k : xs[i] = IF i <= p - 1 THEN x[i]
                                           ELSE s[i - (p - 1)]
  <2>1. /\ x \o s \in Seq(Char) /\ Len(x \o s) = Len(x) + Len(s)
        /\ \A i \in 1 .. Len(x) + Len(s) :
             (x \o s)[i] = IF i <= Len(x) THEN x[i] ELSE s[i - Len(x)]
    BY <1>5, ConcatProperties
  <2>2. Len(x) = p - 1 /\ Len(s) = k
    BY <1>1, <1>5
  <2> QED
    BY <1>7, <2>1, <2>2
<1>9. /\ xs \o y \in Seq(Char) /\ Len(xs \o y) = p - 1 + k + (n - p + 1)
      /\ \A i \in 1 .. p - 1 + k + (n - p + 1) :
           (xs \o y)[i] = IF i <= p - 1 + k THEN xs[i] ELSE y[i - (p - 1 + k)]
  BY <1>6, <1>8, ConcatProperties
<1>10. xs \o y = u
  <2>1. p - 1 + k + (n - p + 1) = l
    BY <1>2
  <2>2. ASSUME NEW i \in 1 .. l PROVE (xs \o y)[i] = u[i]
    <3>1. (xs \o y)[i] = IF i <= p - 1 + k THEN xs[i] ELSE y[i - (p - 1 + k)]
      BY <1>9, <2>1
    <3>2. CASE i < p
      BY <1>2, <1>4, <1>5, <1>8, <3>1, <3>2
    <3>3. CASE p <= i /\ i < q
      <4>1. s[i - (p - 1)] = s[i - p + 1] /\ u[i] = s[i - p + 1]
        BY <1>2, <1>4, <3>3
      <4>2. xs[i] = s[i - (p - 1)] /\ i <= p - 1 + k
        BY <1>2, <1>8, <3>3
      <4> QED
        BY <3>1, <4>1, <4>2
    <3>4. CASE i >= q
      <4>1. i - (p - 1 + k) \in 1 .. n - p + 1 /\ ~(i <= p - 1 + k)
        BY <1>2, <3>4
      <4>2. p + (i - (p - 1 + k)) - 1 = i - k
        BY <1>2
      <4>3. u[i] = t[i - k]
        BY <1>2, <1>4, <3>4
      <4> QED
        BY <1>6, <3>1, <4>1, <4>2, <4>3
    <3>5. i < p \/ (p <= i /\ i < q) \/ i >= q
      BY <1>2
    <3> QED
      BY <3>2, <3>3, <3>4, <3>5
  <2>3. PICK w : w = xs \o y
    OBVIOUS
  <2>4. w \in Seq(Char) /\ Len(w) = l
    BY <1>9, <2>1, <2>3
  <2>5. l \in Nat /\ \A i \in 1 .. l : w[i] = u[i]
    BY <1>2, <2>2, <2>3
  <2>6. w = u
    BY <1>3, <2>4, <2>5, SameSeq
  <2> QED
    BY <2>3, <2>6
<1>11. SubSeq(u, p, q - 1) = s
  <2>1. p \in Int /\ q - 1 \in Int /\ \A i \in p .. q - 1 : u[i] \in Char
    BY <1>2, <1>4
  <2>2. /\ SubSeq(u, p, q - 1) \in Seq(Char)
        /\ Len(SubSeq(u, p, q - 1)) = IF p <= q - 1 THEN q - 1 - p + 1 ELSE 0
        /\ \A i \in 1 .. q - 1 - p + 1 : SubSeq(u, p, q - 1)[i] = u[p + i - 1]
    BY <2>1, SubSeqProperties
  <2>3. q - 1 - p + 1 = k /\ (p <= q - 1 <=> k > 0)
    BY <1>2
  <2>4. ASSUME NEW i \in 1 .. k PROVE u[p + i - 1] = s[i]
    BY <1>2, <1>4
  <2>5. Len(SubSeq(u, p, q - 1)) = k
    BY <1>2, <2>2, <2>3
  <2> QED
    BY <1>1, <1>2, <2>2, <2>3, <2>4, <2>5, SameSeq
<1>12. p + k - 1 = q - 1
  BY <1>2
<1>13. u = xs \o y /\ SubSeq(u, p, p + k - 1) = s
  BY <1>10, <1>11, <1>12
<1> QED
  BY <1>1, <1>7, <1>13

LEMMA CutIsConcat ==
  ASSUME NEW t \in Seq(Char), NEW p \in 1 .. Len(t), NEW q \in p + 1 .. Len(t) + 1
  PROVE  Cut(t, p, q) = SubSeq(t, 1, p - 1) \o SubSeq(t, q, Len(t))
<1>1. PICK n, l, u, x, y : /\ n = Len(t) /\ u = Cut(t, p, q) /\ l = n - (q - p)
                           /\ x = SubSeq(t, 1, p - 1) /\ y = SubSeq(t, q, n)
  OBVIOUS
<1>2. /\ n \in Nat /\ p \in 1 .. n /\ q \in p + 1 .. n + 1
      /\ l \in Nat /\ l = n - (q - p) /\ t \in [1 .. n -> Char]
  BY <1>1, LenProperties
<1>3. u \in Seq(Char) /\ Len(u) = l
  BY <1>1, CutSeq
<1>4. u = [i \in 1 .. l |-> IF i < p THEN t[i] ELSE t[i + (q - p)]]
  BY <1>1 DEF Cut
<1>5. /\ x \in Seq(Char) /\ Len(x) = p - 1
      /\ \A i \in 1 .. p - 1 : x[i] = t[i]
  <2>1. 1 \in Int /\ p - 1 \in Int /\ \A i \in 1 .. p - 1 : t[i] \in Char
    BY <1>2
  <2>2. /\ x \in Seq(Char)
        /\ Len(x) = IF 1 <= p - 1 THEN p - 1 - 1 + 1 ELSE 0
        /\ \A i \in 1 .. p - 1 - 1 + 1 : x[i] = t[1 + i - 1]
    BY <1>1, <2>1, SubSeqProperties
  <2> QED
    BY <1>2, <2>2
<1>6. /\ y \in Seq(Char) /\ Len(y) = n - q + 1
      /\ \A i \in 1 .. n - q + 1 : y[i] = t[q + i - 1]
  <2>1. q \in Int /\ n \in Int /\ \A i \in q .. n : t[i] \in Char
    BY <1>2
  <2>2. /\ y \in Seq(Char)
        /\ Len(y) = IF q <= n THEN n - q + 1 ELSE 0
        /\ \A i \in 1 .. n - q + 1 : y[i] = t[q + i - 1]
    BY <1>1, <2>1, SubSeqProperties
  <2> QED
    BY <1>2, <2>2
<1>7. /\ x \o y \in Seq(Char) /\ Len(x \o y) = p - 1 + (n - q + 1)
      /\ \A i \in 1 .. p - 1 + (n - q + 1) :
           (x \o y)[i] = IF i <= p - 1 THEN x[i] ELSE y[i - (p - 1)]
  BY <1>5, <1>6, ConcatProperties
<1>8. p - 1 + (n - q + 1) = l
  BY <1>2
<1>9. ASSUME NEW i \in 1 .. l PROVE (x \o y)[i] = u[i]
  <2>1. (x \o y)[i] = IF i <= p - 1 THEN x[i] ELSE y[i - (p - 1)]
    BY <1>7, <1>8
  <2>2. CASE i < p
    BY <1>2, <1>4, <1>5, <2>1, <2>2
  <2>3. CASE i >= p
    <3>1. i - (p - 1) \in 1 .. n - q + 1 /\ ~(i <= p - 1)
      BY <1>2, <2>3
    <3>2. q + (i - (p - 1)) - 1 = i + (q - p)
      BY <1>2
    <3>3. u[i] = t[i + (q - p)]
      BY <1>2, <1>4, <2>3
    <3> QED
      BY <1>6, <2>1, <3>1, <3>2, <3>3
  <2>4. i < p \/ i >= p
    BY <1>2
  <2> QED
    BY <2>2, <2>3, <2>4
<1>10. x \o y \in Seq(Char) /\ Len(x \o y) = l
  BY <1>7, <1>8
<1>11. x \o y = u
  <2>1. PICK w : w = x \o y
    OBVIOUS
  <2>2. l \in Nat /\ w \in Seq(Char) /\ Len(w) = l /\ \A i \in 1 .. l : w[i] = u[i]
    BY <1>2, <1>9, <1>10, <2>1
  <2>3. w = u
    BY <1>3, <2>2, SameSeq
  <2> QED
    BY <2>1, <2>3
<1> QED
  BY <1>1, <1>11

-----------------------------------------------------------------------------
(***************************************************************************)
(* Sequences and entries.                                                  *)
(***************************************************************************)
LEMMA Pushed ==
  ASSUME NEW S, NEW e \in S, NEW s \in Seq(S)
  PROVE  /\ <<e>> \o s \in Seq(S) /\ <<e>> \o s /= << >>
         /\ Len(<<e>> \o s) = Len(s) + 1 /\ Len(s) \in Nat
         /\ (<<e>> \o s)[1] = e
         /\ \A i \in 1 .. Len(s) : (<<e>> \o s)[i + 1] = s[i]
<1>1. PICK n, x, r : n = Len(s) /\ x = <<e>> /\ r = x \o s
  OBVIOUS
<1>2. n \in Nat /\ x \in Seq(S) /\ Len(x) = 1 /\ x[1] = e
  BY <1>1, LenProperties
<1>3. /\ r \in Seq(S) /\ Len(r) = 1 + n
      /\ \A i \in 1 .. 1 + n : r[i] = IF i <= 1 THEN x[i] ELSE s[i - 1]
  <2>1. /\ x \o s \in Seq(S) /\ Len(x \o s) = Len(x) + Len(s)
        /\ \A i \in 1 .. Len(x) + Len(s) :
             (x \o s)[i] = IF i <= Len(x) THEN x[i] ELSE s[i - Len(x)]
    BY <1>2, ConcatProperties
  <2> QED
    BY <1>1, <1>2, <2>1
<1>4. Len(r) = n + 1 /\ r[1] = e
  BY <1>2, <1>3
<1>5. ASSUME NEW i \in 1 .. n PROVE r[i + 1] = s[i]
  BY <1>2, <1>3
<1>6. r /= << >>
  BY <1>2, <1>3, EmptySeq
<1> QED
  BY <1>1, <1>2, <1>3, <1>4, <1>5, <1>6

LEMMA EntryFields ==
  ASSUME NEW e \in Entry
  PROVE  /\ e.kind \in {"boundary", "end", "unmodified", "insert", "delete"}
         /\ e.kind \in Marks => e.text \in Seq(Char)
         /\ e.kind = "unmodified" => e.obsolete \in BOOLEAN
         /\ e.kind = "insert" => e.beg \in Nat /\ e.end \in Nat
         /\ e.kind = "delete" => e.beg \in Nat /\ e.after \in BOOLEAN /\ e.str \in Seq(Char)
<1>1. CASE e \in [kind : Marks, text : Seq(Char)]
  BY <1>1 DEF Marks
<1>2. CASE e \in [kind : {"unmodified"}, obsolete : BOOLEAN]
  BY <1>2 DEF Marks
<1>3. CASE e \in [kind : {"insert"}, beg : Nat, end : Nat]
  BY <1>3 DEF Marks
<1>4. CASE e \in [kind : {"delete"}, beg : Nat, after : BOOLEAN, str : Seq(Char)]
  BY <1>4 DEF Marks
<1> QED
  BY <1>1, <1>2, <1>3, <1>4 DEF Entry

-----------------------------------------------------------------------------
(***************************************************************************)
(* A list that grows by an entry, whose newest entry changes, or that      *)
(* loses its newest entry.                                                 *)
(***************************************************************************)
LEMMA HonestMono ==
  ASSUME NEW list, NEW T, NEW first, NEW sv, Honest(list, T, FALSE, sv)
  PROVE  Honest(list, T, first, sv)
BY DEF Honest

LEMMA HonestHead ==
  ASSUME NEW list, NEW T, NEW first, NEW second, NEW sv,
         Honest(list, T, first, sv), list[1].kind /= "unmodified"
  PROVE  Honest(list, T, second, sv)
BY DEF Honest, Fresh

LEMMA NoneSaved ==
  ASSUME NEW list, NEW T, NEW first
  PROVE  Honest(list, T, first, None)
BY DEF Honest

LEMMA Push ==
  ASSUME NEW list, NEW T, History(list, T), NEW e \in Entry, NEW t \in Seq(Char),
         e.kind \in Marks => e.text = t,
         Undoes(e, t, T[1])
  PROVE  /\ History(<<e>> \o list, <<t>> \o T)
         /\ (<<e>> \o list)[1] = e /\ (<<t>> \o T)[1] = t
<1>1. PICK n, l, U : n = Len(list) /\ l = <<e>> \o list /\ U = <<t>> \o T
  OBVIOUS
<1>2. /\ list \in Seq(Entry) /\ T \in Seq(Seq(Char)) /\ Len(T) = n /\ n \in Nat \ {0}
      /\ list[n].kind = "end"
      /\ \A i \in 1 .. n : list[i].kind \in Marks => list[i].text = T[i]
      /\ \A i \in 1 .. n - 1 : Undoes(list[i], T[i], T[i + 1])
  BY <1>1, LenProperties, EmptySeq DEF History
<1>3. /\ l \in Seq(Entry) /\ l /= << >> /\ Len(l) = n + 1 /\ l[1] = e
      /\ \A i \in 1 .. n : l[i + 1] = list[i]
  BY <1>1, <1>2, Pushed
<1>4. /\ U \in Seq(Seq(Char)) /\ Len(U) = n + 1 /\ U[1] = t
      /\ \A i \in 1 .. n : U[i + 1] = T[i]
  BY <1>1, <1>2, Pushed
<1>5. l[n + 1].kind = "end"
  BY <1>2, <1>3
<1>6. ASSUME NEW i \in 1 .. n + 1
      PROVE  l[i].kind \in Marks => l[i].text = U[i]
  <2>1. CASE i = 1
    BY <1>3, <1>4, <2>1
  <2>2. CASE i /= 1
    <3>1. PICK j \in 1 .. n : i = j + 1
      BY <1>2, <2>2
    <3> QED
      BY <1>2, <1>3, <1>4, <3>1
  <2> QED
    BY <2>1, <2>2
<1>7. ASSUME NEW i \in 1 .. n
      PROVE  Undoes(l[i], U[i], U[i + 1])
  <2>1. CASE i = 1
    <3>1. U[1 + 1] = T[1]
      BY <1>2, <1>4
    <3> QED
      BY <1>3, <1>4, <2>1, <3>1
  <2>2. CASE i /= 1
    <3>1. PICK j \in 1 .. n - 1 : i = j + 1
      BY <1>2, <2>2
    <3>2. l[j + 1] = list[j] /\ U[j + 1] = T[j] /\ U[j + 1 + 1] = T[j + 1]
      BY <1>2, <1>3, <1>4, SMTT(30)
    <3> QED
      BY <1>2, <3>1, <3>2
  <2> QED
    BY <2>1, <2>2
<1>8. History(l, U)
  <2>1. Len(U) = Len(l) /\ l[Len(l)].kind = "end"
    BY <1>3, <1>4, <1>5
  <2>2. \A i \in 1 .. Len(l) : l[i].kind \in Marks => l[i].text = U[i]
    BY <1>3, <1>6
  <2>3. \A i \in 1 .. Len(l) - 1 : Undoes(l[i], U[i], U[i + 1])
    <3>1. Len(l) - 1 = n
      BY <1>2, <1>3
    <3> QED
      BY <1>7, <3>1
  <2> QED
    BY <1>3, <1>4, <2>1, <2>2, <2>3 DEF History
<1> QED
  BY <1>1, <1>3, <1>4, <1>8

\* An entry in front of a middle one of a replacement is an insertion.
LEMMA PushHonest ==
  ASSUME NEW list, NEW T, History(list, T), NEW e \in Entry, NEW t \in Seq(Char),
         NEW f \in BOOLEAN, NEW g \in BOOLEAN, NEW sv,
         Honest(list, T, f, sv), f => e.kind = "insert",
         Fresh(e) /\ sv /= None => t = sv \/ (g /\ list[1].kind = "delete")
  PROVE  Honest(<<e>> \o list, <<t>> \o T, g, sv)
<1>1. PICK n, l, U : n = Len(list) /\ l = <<e>> \o list /\ U = <<t>> \o T
  OBVIOUS
<1>2. list \in Seq(Entry) /\ T \in Seq(Seq(Char)) /\ Len(T) = n /\ n \in Nat \ {0}
  BY <1>1, LenProperties, EmptySeq DEF History
<1>3. /\ Len(l) = n + 1 /\ l[1] = e
      /\ \A i \in 1 .. n : l[i + 1] = list[i]
  BY <1>1, <1>2, Pushed
<1>4. U[1] = t /\ \A i \in 1 .. n : U[i + 1] = T[i]
  BY <1>1, <1>2, Pushed
<1>5. ASSUME sv /= None, NEW i \in 1 .. n + 1, Fresh(l[i])
      PROVE  \/ U[i] = sv
             \/ /\ i < n + 1 /\ l[i + 1].kind = "delete"
                /\ IF i = 1 THEN g ELSE l[i - 1].kind = "insert"
  <2>1. CASE i = 1
    <3>1. l[1 + 1] = list[1]
      BY <1>2, <1>3
    <3> QED
      BY <1>2, <1>3, <1>4, <1>5, <2>1, <3>1
  <2>2. CASE i /= 1
    <3>1. PICK j \in 1 .. n : i = j + 1
      BY <1>2, <2>2
    <3>2. Fresh(list[j]) /\ U[i] = T[j]
      BY <1>3, <1>4, <1>5, <3>1
    <3>3. CASE T[j] = sv
      BY <3>2, <3>3
    <3>4. CASE /\ j < n /\ list[j + 1].kind = "delete"
               /\ IF j = 1 THEN f ELSE list[j - 1].kind = "insert"
      <4>1. i < n + 1 /\ l[i + 1] = list[j + 1] /\ l[i - 1] = l[j]
        BY <1>2, <1>3, <3>1, <3>4
      <4>2. CASE j = 1
        BY <1>3, <2>2, <3>4, <4>1, <4>2
      <4>3. CASE j /= 1
        <5>1. PICK k \in 1 .. n : j = k + 1
          BY <1>2, <4>3
        <5>2. l[j] = list[j - 1]
          BY <1>2, <1>3, <5>1
        <5> QED
          BY <2>2, <3>4, <4>1, <4>3, <5>2
      <4> QED
        BY <4>2, <4>3
    <3> QED
      BY <1>1, <1>5, <3>2, <3>3, <3>4 DEF Honest
  <2> QED
    BY <2>1, <2>2
<1>6. Honest(l, U, g, sv)
  BY <1>3, <1>5 DEF Honest
<1> QED
  BY <1>1, <1>6

\* The newest entry, an insertion, is made longer.
Longer(list, q) == [list EXCEPT ![1].end = q]

LEMMA Extend ==
  ASSUME NEW list, NEW T, History(list, T), NEW sv, Honest(list, T, FALSE, sv),
         list[1].kind = "insert", NEW s \in Seq(Char), s /= << >>,
         NEW p, list[1].end = p
  PROVE  \E U : /\ History(Longer(list, p + Len(s)), U) /\ U[1] = Ins(T[1], p, s)
                /\ Honest(Longer(list, p + Len(s)), U, FALSE, sv)
<1>1. PICK n, t, o, q, l, U, e, d :
        /\ n = Len(list) /\ t = T[1] /\ e = list[1] /\ o = e.beg /\ q = p + Len(s)
        /\ d = [e EXCEPT !.end = q]
        /\ l = Longer(list, q) /\ U = [T EXCEPT ![1] = Ins(t, p, s)]
  OBVIOUS
<1>2. /\ list \in Seq(Entry) /\ T \in Seq(Seq(Char)) /\ Len(T) = n /\ n \in Nat \ {0}
      /\ list \in [1 .. n -> Entry] /\ T \in [1 .. n -> Seq(Char)]
      /\ list[n].kind = "end"
      /\ \A i \in 1 .. n : list[i].kind \in Marks => list[i].text = T[i]
      /\ \A i \in 1 .. n - 1 : Undoes(list[i], T[i], T[i + 1])
  BY <1>1, LenProperties, EmptySeq DEF History
<1>3. n > 1 /\ 1 \in 1 .. n /\ 1 \in 1 .. n - 1
  BY <1>1, <1>2
<1>4. e \in Entry /\ e.kind = "insert" /\ e.end = p /\ t \in Seq(Char)
  BY <1>1, <1>2, <1>3
<1>5. Undoes(e, t, T[2])
  <2>1. Undoes(list[1], T[1], T[1 + 1])
    BY <1>2, <1>3
  <2> QED
    BY <1>1, <2>1
<1>6. o \in 1 .. Len(t) /\ p \in o + 1 .. Len(t) + 1 /\ T[2] = Cut(t, o, p)
  BY <1>1, <1>4, <1>5 DEF Undoes, Marks
<1>7. Len(t) \in Nat /\ p \in 1 .. Len(t) + 1 /\ o \in 1 .. p /\ o < p
  <2>1. Len(t) \in Nat
    BY <1>4, LenProperties
  <2> QED
    BY <1>6, <2>1
<1>8. /\ q \in o + 1 .. Len(Ins(t, p, s)) + 1 /\ o \in 1 .. Len(Ins(t, p, s))
      /\ Cut(Ins(t, p, s), o, q) = T[2]
  BY <1>1, <1>4, <1>6, <1>7, CutIns, SMTT(30)
<1>9. Ins(t, p, s) \in Seq(Char)
  BY <1>4, <1>7, InsSeq
<1>10. d \in Entry /\ d.kind = "insert" /\ d.beg = o /\ d.end = q
  <2>1. e \in [kind : {"insert"}, beg : Nat, end : Nat]
    BY <1>4 DEF Entry, Marks
  <2>2. q \in Nat
    BY <1>1, <1>7, LenProperties
  <2> QED
    BY <1>1, <2>1, <2>2 DEF Entry
<1>11. /\ l \in [1 .. n -> Entry] /\ l[1] = d
       /\ \A i \in 1 .. n : i /= 1 => l[i] = list[i]
  <2>1. l = [list EXCEPT ![1] = d]
    BY <1>1 DEF Longer
  <2> QED
    BY <1>2, <1>3, <1>10, <2>1
<1>12. /\ U \in [1 .. n -> Seq(Char)] /\ U[1] = Ins(t, p, s)
       /\ \A i \in 1 .. n : i /= 1 => U[i] = T[i]
  BY <1>1, <1>2, <1>3, <1>9
<1>13. /\ l \in Seq(Entry) /\ Len(l) = n /\ l /= << >>
       /\ U \in Seq(Seq(Char)) /\ Len(U) = n
  BY <1>2, <1>11, <1>12, SeqOf, EmptySeq
<1>14. l[n].kind = "end"
  BY <1>2, <1>3, <1>11
<1>15. ASSUME NEW i \in 1 .. n PROVE l[i].kind \in Marks => l[i].text = U[i]
  BY <1>2, <1>10, <1>11, <1>12 DEF Marks
<1>16. ASSUME NEW i \in 1 .. n - 1 PROVE Undoes(l[i], U[i], U[i + 1])
  <2>1. CASE i = 1
    <3>1. U[1 + 1] = T[2]
      BY <1>2, <1>3, <1>12
    <3> QED
      BY <1>8, <1>10, <1>11, <1>12, <2>1, <3>1 DEF Undoes
  <2>2. CASE i /= 1
    <3>1. l[i] = list[i] /\ U[i] = T[i] /\ U[i + 1] = T[i + 1]
      BY <1>2, <1>11, <1>12, <2>2
    <3> QED
      BY <1>2, <3>1
  <2> QED
    BY <2>1, <2>2
<1>17. History(l, U)
  BY <1>13, <1>14, <1>15, <1>16 DEF History
<1>18. \A i \in 1 .. n : l[i].kind = list[i].kind /\ (Fresh(l[i]) => i /= 1 /\ Fresh(list[i]))
  BY <1>1, <1>4, <1>10, <1>11 DEF Fresh
<1>19. Honest(l, U, FALSE, sv)
  <2>1. SUFFICES ASSUME sv /= None, NEW i \in 1 .. n, Fresh(l[i])
                 PROVE  \/ U[i] = sv
                        \/ /\ i < n /\ l[i + 1].kind = "delete"
                           /\ IF i = 1 THEN FALSE ELSE l[i - 1].kind = "insert"
    BY <1>13 DEF Honest
  <2>2. i /= 1 /\ Fresh(list[i]) /\ U[i] = T[i]
    BY <1>12, <1>18, <2>1
  <2>3. \/ T[i] = sv
        \/ i < n /\ list[i + 1].kind = "delete" /\ list[i - 1].kind = "insert"
    BY <1>1, <2>1, <2>2 DEF Honest
  <2>4. CASE T[i] = sv
    BY <2>2, <2>4
  <2>5. CASE i < n /\ list[i + 1].kind = "delete" /\ list[i - 1].kind = "insert"
    <3>1. i + 1 \in 1 .. n /\ i - 1 \in 1 .. n
      BY <1>2, <2>2, <2>5
    <3> QED
      BY <1>18, <2>2, <2>5, <3>1
  <2> QED
    BY <2>3, <2>4, <2>5
<1> QED
  BY <1>1, <1>12, <1>17, <1>19

\* The newest entry has been undone.
LEMMA Pop ==
  ASSUME NEW list, NEW T, History(list, T), NEW sv,
         Honest(list, T, TRUE, sv), list[1].kind /= "end"
  PROVE  /\ History(Tail(list), Tail(T))
         /\ Honest(Tail(list), Tail(T), TRUE, sv)
         /\ list[1].kind /= "insert" => Honest(Tail(list), Tail(T), FALSE, sv)
         /\ Tail(list)[1] = list[2] /\ Tail(T)[1] = T[2]
         /\ Undoes(list[1], T[1], T[2])
         /\ sv /= None /\ Fresh(list[1]) => T[1] = sv \/ list[2].kind = "delete"
<1>1. PICK n, l, U : n = Len(list) /\ l = Tail(list) /\ U = Tail(T)
  OBVIOUS
<1>2. /\ list \in Seq(Entry) /\ T \in Seq(Seq(Char)) /\ Len(T) = n /\ n \in Nat \ {0}
      /\ list /= << >> /\ T /= << >>
      /\ list[n].kind = "end"
      /\ \A i \in 1 .. n : list[i].kind \in Marks => list[i].text = T[i]
      /\ \A i \in 1 .. n - 1 : Undoes(list[i], T[i], T[i + 1])
  BY <1>1, LenProperties, EmptySeq DEF History
<1>3. n > 1
  BY <1>2
<1>4. /\ l \in Seq(Entry) /\ Len(l) = n - 1 /\ \A i \in 1 .. n - 1 : l[i] = list[i + 1]
  BY <1>1, <1>2, HeadTailProperties
<1>5. /\ U \in Seq(Seq(Char)) /\ Len(U) = n - 1 /\ \A i \in 1 .. n - 1 : U[i] = T[i + 1]
  BY <1>1, <1>2, HeadTailProperties
<1>6. History(l, U)
  <2>1. l /= << >>
    BY <1>2, <1>3, <1>4, EmptySeq
  <2>2. l[n - 1].kind = "end"
    BY <1>2, <1>3, <1>4
  <2>3. ASSUME NEW i \in 1 .. n - 1 PROVE l[i].kind \in Marks => l[i].text = U[i]
    <3>1. i + 1 \in 1 .. n
      BY <1>2
    <3> QED
      BY <1>2, <1>4, <1>5, <3>1
  <2>4. ASSUME NEW i \in 1 .. n - 1 - 1 PROVE Undoes(l[i], U[i], U[i + 1])
    <3>1. i + 1 \in 1 .. n - 1 /\ i \in 1 .. n - 1
      BY <1>2
    <3>2. l[i] = list[i + 1] /\ U[i] = T[i + 1] /\ U[i + 1] = T[i + 1 + 1]
      BY <1>4, <1>5, <3>1
    <3> QED
      BY <1>2, <3>1, <3>2
  <2> QED
    BY <1>4, <1>5, <2>1, <2>2, <2>3, <2>4 DEF History
<1>7. ASSUME NEW g \in BOOLEAN, list[1].kind = "insert" => g
      PROVE  Honest(l, U, g, sv)
  <2>1. SUFFICES ASSUME sv /= None, NEW i \in 1 .. n - 1, Fresh(l[i])
                 PROVE  \/ U[i] = sv
                        \/ /\ i < n - 1 /\ l[i + 1].kind = "delete"
                           /\ IF i = 1 THEN g ELSE l[i - 1].kind = "insert"
    BY <1>4 DEF Honest
  <2>2. i + 1 \in 1 .. n /\ i + 1 /= 1 /\ i + 1 - 1 = i
    BY <1>2
  <2>3. l[i] = list[i + 1] /\ U[i] = T[i + 1]
    BY <1>4, <1>5
  <2>4. \/ T[i + 1] = sv
        \/ i + 1 < n /\ list[i + 1 + 1].kind = "delete" /\ list[i].kind = "insert"
    BY <1>1, <2>1, <2>2, <2>3 DEF Honest
  <2>5. CASE T[i + 1] = sv
    BY <2>3, <2>5
  <2>6. CASE i + 1 < n /\ list[i + 1 + 1].kind = "delete" /\ list[i].kind = "insert"
    <3>1. i < n - 1 /\ l[i + 1] = list[i + 1 + 1] /\ (i /= 1 => l[i - 1] = list[i])
      BY <1>2, <1>4, <2>6
    <3> QED
      BY <1>7, <2>6, <3>1
  <2> QED
    BY <2>4, <2>5, <2>6
<1>8. l[1] = list[2] /\ U[1] = T[2] /\ Undoes(list[1], T[1], T[2])
  <2>1. 1 \in 1 .. n - 1 /\ 1 + 1 = 2
    BY <1>2, <1>3
  <2>2. Undoes(list[1], T[1], T[1 + 1]) /\ l[1] = list[1 + 1] /\ U[1] = T[1 + 1]
    BY <1>2, <1>4, <1>5, <2>1
  <2> QED
    BY <2>1, <2>2
<1>9. ASSUME sv /= None, Fresh(list[1])
      PROVE  T[1] = sv \/ list[2].kind = "delete"
  <2>1. 1 \in 1 .. n /\ 1 + 1 = 2
    BY <1>2, <1>3
  <2>2. T[1] = sv \/ (1 < n /\ list[1 + 1].kind = "delete")
    BY <1>1, <1>9, <2>1 DEF Honest
  <2> QED
    BY <2>1, <2>2
<1> QED
  BY <1>1, <1>6, <1>7, <1>8, <1>9

\* The list is cut before one of its boundaries.
LEMMA CutHistory ==
  ASSUME NEW list, NEW T, History(list, T), NEW sv, Honest(list, T, FALSE, sv),
         NEW k \in 2 .. Len(list), list[k].kind \in Marks
  PROVE  /\ History(CutAt(list, k), SubSeq(T, 1, k))
         /\ Honest(CutAt(list, k), SubSeq(T, 1, k), FALSE, sv)
         /\ CutAt(list, k)[1] = list[1] /\ SubSeq(T, 1, k)[1] = T[1]
<1>1. PICK n, x, e, l, U : /\ n = Len(list) /\ x = SubSeq(list, 1, k - 1)
                           /\ e = [kind |-> "end", text |-> list[k].text]
                           /\ l = x \o <<e>> /\ U = SubSeq(T, 1, k)
  OBVIOUS
<1>2. /\ list \in Seq(Entry) /\ T \in Seq(Seq(Char)) /\ Len(T) = n /\ n \in Nat \ {0}
      /\ list \in [1 .. n -> Entry] /\ T \in [1 .. n -> Seq(Char)]
      /\ \A i \in 1 .. n : list[i].kind \in Marks => list[i].text = T[i]
      /\ \A i \in 1 .. n - 1 : Undoes(list[i], T[i], T[i + 1])
  BY <1>1, LenProperties, EmptySeq DEF History
<1>3. k \in 2 .. n /\ k \in 1 .. n /\ k \in Nat /\ n \in Nat
  BY <1>1, <1>2
<1>4. e \in Entry /\ e.kind = "end" /\ e.text = T[k]
  <2>1. list[k].text = T[k] /\ T[k] \in Seq(Char)
    BY <1>2, <1>3
  <2>2. e.kind = "end" /\ e.text = T[k]
    BY <1>1, <2>1
  <2>3. e \in [kind : Marks, text : Seq(Char)]
    BY <1>1, <2>1 DEF Marks
  <2> QED
    BY <2>2, <2>3 DEF Entry
<1>5. /\ x \in Seq(Entry) /\ Len(x) = k - 1 /\ \A i \in 1 .. k - 1 : x[i] = list[i]
  <2>1. 1 \in Int /\ k - 1 \in Int /\ \A i \in 1 .. k - 1 : list[i] \in Entry
    BY <1>2, <1>3
  <2>2. /\ x \in Seq(Entry) /\ Len(x) = IF 1 <= k - 1 THEN k - 1 - 1 + 1 ELSE 0
        /\ \A i \in 1 .. k - 1 - 1 + 1 : x[i] = list[1 + i - 1]
    BY <1>1, <2>1, SubSeqProperties
  <2> QED
    BY <1>3, <2>2
<1>6. /\ l \in Seq(Entry) /\ Len(l) = k /\ l[k] = e
      /\ \A i \in 1 .. k - 1 : l[i] = list[i]
  <2>1. PICK y : y = <<e>>
    OBVIOUS
  <2>2. y \in Seq(Entry) /\ Len(y) = 1 /\ y[1] = e
    BY <1>4, <2>1
  <2>3. /\ x \o y \in Seq(Entry) /\ Len(x \o y) = Len(x) + Len(y)
        /\ \A i \in 1 .. Len(x) + Len(y) :
             (x \o y)[i] = IF i <= Len(x) THEN x[i] ELSE y[i - Len(x)]
    BY <1>5, <2>2, ConcatProperties
  <2>4. /\ l \in Seq(Entry) /\ Len(l) = k - 1 + 1
        /\ \A i \in 1 .. k - 1 + 1 : l[i] = IF i <= k - 1 THEN x[i] ELSE y[i - (k - 1)]
    BY <1>1, <1>5, <2>1, <2>2, <2>3
  <2>5. k - 1 + 1 = k /\ k - (k - 1) = 1 /\ k \in 1 .. k /\ ~(k <= k - 1)
    BY <1>3
  <2>6. l[k] = e
    BY <2>2, <2>4, <2>5
  <2>7. ASSUME NEW i \in 1 .. k - 1 PROVE l[i] = list[i]
    <3>1. i \in 1 .. k - 1 + 1 /\ i <= k - 1
      BY <1>3
    <3> QED
      BY <1>5, <2>4, <3>1
  <2> QED
    BY <2>4, <2>5, <2>6, <2>7
<1>7. /\ U \in Seq(Seq(Char)) /\ Len(U) = k /\ \A i \in 1 .. k : U[i] = T[i]
  <2>1. 1 \in Int /\ k \in Int /\ \A i \in 1 .. k : T[i] \in Seq(Char)
    BY <1>2, <1>3
  <2>2. /\ U \in Seq(Seq(Char)) /\ Len(U) = IF 1 <= k THEN k - 1 + 1 ELSE 0
        /\ \A i \in 1 .. k - 1 + 1 : U[i] = T[1 + i - 1]
    BY <1>1, <2>1, SubSeqProperties
  <2> QED
    BY <1>3, <2>2
<1>8. History(l, U)
  <2>1. l /= << >>
    BY <1>3, <1>6, EmptySeq
  <2>2. ASSUME NEW i \in 1 .. k PROVE l[i].kind \in Marks => l[i].text = U[i]
    <3>1. CASE i = k
      BY <1>3, <1>4, <1>6, <1>7, <3>1
    <3>2. CASE i /= k
      <4>1. i \in 1 .. n /\ i \in 1 .. k - 1
        BY <1>3, <3>2
      <4> QED
        BY <1>2, <1>6, <1>7, <4>1
    <3> QED
      BY <3>1, <3>2
  <2>3. ASSUME NEW i \in 1 .. k - 1 PROVE Undoes(l[i], U[i], U[i + 1])
    <3>1. i \in 1 .. n - 1 /\ i \in 1 .. k /\ i + 1 \in 1 .. k
      BY <1>3
    <3>2. l[i] = list[i] /\ U[i] = T[i] /\ U[i + 1] = T[i + 1]
      BY <1>6, <1>7, <3>1
    <3> QED
      BY <1>2, <3>1, <3>2
  <2> QED
    BY <1>4, <1>6, <1>7, <2>1, <2>2, <2>3 DEF History
<1>9. Honest(l, U, FALSE, sv)
  <2>1. SUFFICES ASSUME sv /= None, NEW i \in 1 .. k, Fresh(l[i])
                 PROVE  \/ U[i] = sv
                        \/ /\ i < k /\ l[i + 1].kind = "delete"
                           /\ IF i = 1 THEN FALSE ELSE l[i - 1].kind = "insert"
    BY <1>6 DEF Honest
  <2>2. i /= k
    BY <1>4, <1>6, <2>1 DEF Fresh
  <2>3. i \in 1 .. n /\ i \in 1 .. k - 1 /\ l[i] = list[i] /\ U[i] = T[i]
    <3>1. i \in 1 .. n /\ i \in 1 .. k - 1
      BY <1>3, <2>2
    <3> QED
      BY <1>6, <1>7, <3>1
  <2>4. \/ T[i] = sv
        \/ /\ i < n /\ list[i + 1].kind = "delete"
           /\ IF i = 1 THEN FALSE ELSE list[i - 1].kind = "insert"
    BY <1>1, <2>1, <2>3 DEF Honest
  <2>5. CASE T[i] = sv
    BY <2>3, <2>5
  <2>6. CASE /\ i < n /\ list[i + 1].kind = "delete"
             /\ IF i = 1 THEN FALSE ELSE list[i - 1].kind = "insert"
    <3>1. i + 1 /= k
      BY <2>6 DEF Marks
    <3>2. i < k /\ l[i + 1] = list[i + 1] /\ (i /= 1 => l[i - 1] = list[i - 1])
      BY <1>3, <1>6, <2>3, <3>1
    <3> QED
      BY <2>6, <3>2
  <2> QED
    BY <2>4, <2>5, <2>6
<1>10. l[1] = list[1] /\ U[1] = T[1]
  <2>1. 1 \in 1 .. k - 1 /\ 1 \in 1 .. k
    BY <1>3
  <2> QED
    BY <1>6, <1>7, <2>1
<1>11. CutAt(list, k) = l
  BY <1>1 DEF CutAt
<1> QED
  BY <1>1, <1>8, <1>9, <1>10, <1>11

\* The buffer has been saved: no entry says any longer where it was unmodified.
LEMMA ObsoleteHistory ==
  ASSUME NEW list, NEW T, History(list, T), NEW sv
  PROVE  History(Obsolete(list), T) /\ Honest(Obsolete(list), T, FALSE, sv)
<1>1. PICK n, l : n = Len(list) /\ l = Obsolete(list)
  OBVIOUS
<1>2. /\ list \in Seq(Entry) /\ T \in Seq(Seq(Char)) /\ Len(T) = n /\ n \in Nat \ {0}
      /\ list \in [1 .. n -> Entry] /\ DOMAIN list = 1 .. n
      /\ list[n].kind = "end"
      /\ \A i \in 1 .. n : list[i].kind \in Marks => list[i].text = T[i]
      /\ \A i \in 1 .. n - 1 : Undoes(list[i], T[i], T[i + 1])
  BY <1>1, LenProperties, EmptySeq DEF History
<1>3. l = [i \in 1 .. n |-> IF list[i].kind = "unmodified"
                            THEN [list[i] EXCEPT !.obsolete = TRUE] ELSE list[i]]
  BY <1>1, <1>2 DEF Obsolete
<1>4. ASSUME NEW i \in 1 .. n
      PROVE  /\ l[i] \in Entry /\ l[i].kind = list[i].kind /\ ~Fresh(l[i])
             /\ list[i].kind /= "unmodified" => l[i] = list[i]
  <2>1. CASE list[i].kind = "unmodified"
    <3>1. list[i] \in [kind : {"unmodified"}, obsolete : BOOLEAN]
      BY <1>2, <2>1 DEF Entry, Marks
    <3>2. PICK e, d : e = list[i] /\ d = [e EXCEPT !.obsolete = TRUE]
      OBVIOUS
    <3>3. /\ d \in [kind : {"unmodified"}, obsolete : BOOLEAN]
          /\ d.obsolete = TRUE /\ d.kind = "unmodified"
      BY <3>1, <3>2
    <3>4. l[i] = d
      BY <1>3, <2>1, <3>2
    <3> QED
      BY <2>1, <3>3, <3>4 DEF Entry, Fresh
  <2>2. CASE list[i].kind /= "unmodified"
    <3>1. l[i] = list[i]
      BY <1>3, <2>2
    <3> QED
      BY <1>2, <2>2, <3>1 DEF Fresh
  <2> QED
    BY <2>1, <2>2
<1>5. l \in [1 .. n -> Entry]
  BY <1>3, <1>4
<1>6. l \in Seq(Entry) /\ Len(l) = n /\ l /= << >>
  BY <1>2, <1>5, SeqOf, EmptySeq
<1>7. History(l, T)
  <2>1. l[n].kind = "end"
    BY <1>2, <1>4
  <2>2. ASSUME NEW i \in 1 .. n PROVE l[i].kind \in Marks => l[i].text = T[i]
    BY <1>2, <1>4 DEF Marks
  <2>3. ASSUME NEW i \in 1 .. n - 1 PROVE Undoes(l[i], T[i], T[i + 1])
    <3>1. i \in 1 .. n /\ Undoes(list[i], T[i], T[i + 1])
      BY <1>2
    <3>2. CASE list[i].kind = "unmodified"
      BY <1>4, <3>1, <3>2 DEF Undoes, Marks
    <3>3. CASE list[i].kind /= "unmodified"
      BY <1>4, <3>1, <3>3
    <3> QED
      BY <3>2, <3>3
  <2> QED
    BY <1>2, <1>6, <2>1, <2>2, <2>3 DEF History
<1>8. Honest(l, T, FALSE, sv)
  BY <1>4, <1>6 DEF Honest
<1> QED
  BY <1>1, <1>7, <1>8

-----------------------------------------------------------------------------
(***************************************************************************)
(* What each change records.                                               *)
(***************************************************************************)
LEMMA NotNone ==
  ASSUME NEW list \in Seq(Entry)
  PROVE  list /= None
BY NoneAssumption

LEMMA FirstText ==
  ASSUME NEW list, NEW T, History(list, T)
  PROVE  /\ T[1] \in Seq(Char) /\ list[1] \in Entry
         /\ list \in Seq(Entry) /\ list /= None /\ list /= << >>
         /\ list[1].kind \in Marks => list[1].text = T[1]
<1>1. PICK n : n = Len(list)
  OBVIOUS
<1>2. /\ list \in [1 .. n -> Entry] /\ T \in [1 .. n -> Seq(Char)]
      /\ n \in Nat \ {0} /\ list \in Seq(Entry) /\ list /= << >>
      /\ \A i \in 1 .. n : list[i].kind \in Marks => list[i].text = T[i]
  BY <1>1, LenProperties, EmptySeq DEF History
<1>3. 1 \in 1 .. n
  BY <1>2
<1> QED
  BY <1>2, <1>3, NotNone

LEMMA Prelude ==
  ASSUME NEW list, NEW T, History(list, T), NEW sv, Honest(list, T, FALSE, sv),
         NEW g \in BOOLEAN, modified \in BOOLEAN,
         ~modified /\ sv /= None => T[1] = sv \/ (g /\ list[1].kind = "delete")
  PROVE  \E U : /\ History(undo_prelude(list), U) /\ U[1] = T[1]
                /\ Honest(undo_prelude(list), U, g, sv)
<1>1. CASE modified
  <2>1. undo_prelude(list) = list
    BY <1>1 DEF undo_prelude
  <2>2. Honest(list, T, g, sv)
    BY HonestMono
  <2> QED
    BY <2>1, <2>2
<1>2. CASE ~modified
  <2>1. PICK e : e = [kind |-> "unmodified", obsolete |-> FALSE]
    OBVIOUS
  <2>2. e \in Entry /\ e.kind = "unmodified" /\ e.kind \notin Marks
    BY <2>1 DEF Entry, Marks
  <2>3. undo_prelude(list) = <<e>> \o list
    BY <1>2, <2>1 DEF undo_prelude
  <2>4. T[1] \in Seq(Char)
    BY FirstText
  <2>5. Undoes(e, T[1], T[1])
    BY <2>2 DEF Undoes
  <2>6. History(<<e>> \o list, <<T[1]>> \o T) /\ (<<T[1]>> \o T)[1] = T[1]
    BY <2>2, <2>4, <2>5, Push
  <2>7. Honest(<<e>> \o list, <<T[1]>> \o T, g, sv)
    BY <1>2, <2>2, <2>4, PushHonest
  <2> QED
    BY <2>3, <2>6, <2>7
<1> QED
  BY <1>1, <1>2

\* An insertion, which is merged with the last one that it continues.
LEMMA RecordInsert ==
  ASSUME NEW list, NEW T, History(list, T), NEW sv, Honest(list, T, FALSE, sv),
         modified \in BOOLEAN,
         ~modified /\ sv /= None => T[1] = sv \/ list[1].kind = "delete",
         NEW p \in 1 .. Len(T[1]) + 1, NEW s \in Seq(Char), s /= << >>
  PROVE  \E U : /\ History(record_insert(list, p, Len(s)), U)
                /\ U[1] = Ins(T[1], p, s)
                /\ Honest(record_insert(list, p, Len(s)), U, FALSE, sv)
<1>1. PICK l, n, t : l = undo_prelude(list) /\ n = Len(s) /\ t = T[1]
  OBVIOUS
<1>2. PICK V : History(l, V) /\ V[1] = t /\ Honest(l, V, TRUE, sv)
  BY <1>1, Prelude
<1>3. list /= None /\ t \in Seq(Char)
  BY <1>1, FirstText
<1>4. n \in Nat \ {0} /\ Len(t) \in Nat
  BY <1>1, <1>3, LenProperties, EmptySeq
<1>5. CASE l[1].kind = "insert" /\ l[1].end = p
  <2>1. record_insert(list, p, n) = Longer(l, p + n)
    BY <1>1, <1>3, <1>5 DEF record_insert, Longer
  <2>2. Honest(l, V, FALSE, sv)
    BY <1>2, <1>5, HonestHead
  <2>3. PICK U : /\ History(Longer(l, p + Len(s)), U) /\ U[1] = Ins(V[1], p, s)
                 /\ Honest(Longer(l, p + Len(s)), U, FALSE, sv)
    BY <1>2, <1>5, <2>2, Extend
  <2> QED
    BY <1>1, <1>2, <2>1, <2>3
<1>6. CASE ~(l[1].kind = "insert" /\ l[1].end = p)
  <2>1. PICK e : e = [kind |-> "insert", beg |-> p, end |-> p + n]
    OBVIOUS
  <2>2. p \in Nat /\ p + n \in Nat
    BY <1>1, <1>4
  <2>3. e \in Entry /\ e.kind = "insert" /\ e.kind \notin Marks /\ e.beg = p /\ e.end = p + n
    BY <2>1, <2>2 DEF Entry, Marks
  <2>4. record_insert(list, p, n) = <<e>> \o l
    BY <1>1, <1>3, <1>6, <2>1 DEF record_insert
  <2>5. Ins(t, p, s) \in Seq(Char)
    BY <1>1, <1>3, InsSeq
  <2>6. Undoes(e, Ins(t, p, s), V[1])
    <3>1. p \in 1 .. Len(t) + 1 /\ p \in 1 .. p
      BY <1>1, <1>4
    <3>2. /\ p + n \in p + 1 .. Len(Ins(t, p, s)) + 1
          /\ p \in 1 .. Len(Ins(t, p, s))
          /\ Cut(Ins(t, p, s), p, p + n) = t
      BY <1>1, <1>3, <3>1, CutIns
    <3> QED
      BY <1>2, <2>3, <3>2 DEF Undoes
  <2>7. /\ History(<<e>> \o l, <<Ins(t, p, s)>> \o V)
        /\ (<<Ins(t, p, s)>> \o V)[1] = Ins(t, p, s)
    BY <1>2, <2>3, <2>5, <2>6, Push
  <2>8. Honest(<<e>> \o l, <<Ins(t, p, s)>> \o V, FALSE, sv)
    <3>1. ~Fresh(e)
      BY <2>3 DEF Fresh
    <3> QED
      BY <1>2, <2>3, <2>5, <3>1, PushHonest
  <2> QED
    BY <1>1, <2>4, <2>7, <2>8
<1> QED
  BY <1>5, <1>6

\* A deletion keeps the deleted text.
LEMMA RecordDelete ==
  ASSUME NEW list, NEW T, History(list, T), NEW sv, Honest(list, T, FALSE, sv),
         modified \in BOOLEAN, T[1] = Text(b), ~modified /\ sv /= None => Text(b) = sv,
         NEW p \in 1 .. Len(Text(b)), NEW q \in p + 1 .. Len(Text(b)) + 1,
         NEW pt
  PROVE  LET l == record_delete(list, p, q - p, pt)
         IN /\ \E U : /\ History(l, U) /\ U[1] = Cut(Text(b), p, q)
                      /\ Honest(l, U, FALSE, sv)
            /\ l[1].kind = "delete"
<1>1. PICK l, n, t, s : /\ l = undo_prelude(list) /\ n = Len(Text(b)) /\ t = Text(b)
                        /\ s = SubSeq(t, p, q - 1)
  OBVIOUS
<1>2. PICK V : History(l, V) /\ V[1] = t /\ Honest(l, V, FALSE, sv)
  BY <1>1, Prelude, ZenonT(60)
<1>3. list /= None /\ t \in Seq(Char) /\ n \in Nat
  <2>1. list /= None /\ t \in Seq(Char)
    BY <1>1, FirstText
  <2> QED
    BY <1>1, <2>1, LenProperties
<1>4. PICK e : e = [kind |-> "delete", beg |-> p, after |-> pt = q, str |-> s]
  OBVIOUS
<1>5. /\ s \in Seq(Char) /\ s /= << >> /\ p \in 1 .. Len(Cut(t, p, q)) + 1
      /\ Ins(Cut(t, p, q), p, s) = t
  BY <1>1, <1>3, InsCut
<1>6. /\ e \in Entry /\ e.kind = "delete" /\ e.kind \notin Marks
      /\ e.beg = p /\ e.str = s /\ ~Fresh(e)
  <2>1. (pt = q) \in BOOLEAN /\ p \in Nat
    BY <1>1, <1>3
  <2>2. e \in [kind : {"delete"}, beg : Nat, after : BOOLEAN, str : Seq(Char)]
    BY <1>4, <1>5, <2>1
  <2> QED
    BY <1>4, <2>2 DEF Entry, Marks, Fresh
<1>7. record_delete(list, p, q - p, pt) = <<e>> \o l
  <2>1. p + (q - p) = q /\ p + (q - p) - 1 = q - 1
    BY <1>1, <1>3
  <2> QED
    BY <1>1, <1>3, <1>4, <2>1 DEF record_delete
<1>8. Cut(t, p, q) \in Seq(Char)
  BY <1>1, <1>3, CutSeq
<1>9. Undoes(e, Cut(t, p, q), V[1])
  BY <1>2, <1>5, <1>6 DEF Undoes
<1>10. /\ History(<<e>> \o l, <<Cut(t, p, q)>> \o V)
       /\ (<<Cut(t, p, q)>> \o V)[1] = Cut(t, p, q) /\ (<<e>> \o l)[1] = e
  BY <1>2, <1>6, <1>8, <1>9, Push
<1>11. Honest(<<e>> \o l, <<Cut(t, p, q)>> \o V, FALSE, sv)
  BY <1>2, <1>6, <1>8, PushHonest
<1> QED
  BY <1>1, <1>6, <1>7, <1>10, <1>11

\* A replacement records a deletion and then an insertion.
Put(t, p, c) == [t EXCEPT ![p] = c]

LEMMA RecordChange ==
  ASSUME NEW list, NEW T, History(list, T), NEW sv, Honest(list, T, FALSE, sv),
         modified \in BOOLEAN, T[1] = Text(b), ~modified /\ sv /= None => Text(b) = sv,
         NEW p \in 1 .. Len(Text(b)), NEW c \in Char
  PROVE  \E U : /\ History(record_change(list, p, 1), U)
                /\ U[1] = Put(Text(b), p, c)
                /\ Honest(record_change(list, p, 1), U, FALSE, sv)
<1>1. PICK t, n, s, q : t = Text(b) /\ n = Len(t) /\ s = <<c>> /\ q = p + 1
  OBVIOUS
<1>2. t \in Seq(Char) /\ n \in Nat
  <2>1. t \in Seq(Char)
    BY <1>1, FirstText
  <2> QED
    BY <1>1, <2>1, LenProperties
<1>3. s \in Seq(Char) /\ s /= << >> /\ Len(s) = 1
  BY <1>1, EmptySeq
<1>4. p \in 1 .. n /\ q \in p + 1 .. n + 1 /\ q - p = 1
  BY <1>1, <1>2
<1>5. PICK l, V : /\ l = record_delete(list, p, 1, b.pt) /\ l[1].kind = "delete"
                  /\ History(l, V) /\ V[1] = Cut(t, p, q) /\ Honest(l, V, FALSE, sv)
  <2>1. q \in p + 1 .. Len(Text(b)) + 1
    BY <1>1, <1>4
  <2>2. PICK V : /\ record_delete(list, p, q - p, b.pt)[1].kind = "delete"
                 /\ History(record_delete(list, p, q - p, b.pt), V)
                 /\ V[1] = Cut(Text(b), p, q)
                 /\ Honest(record_delete(list, p, q - p, b.pt), V, FALSE, sv)
    BY <2>1, RecordDelete
  <2> QED
    BY <1>1, <1>4, <2>2
<1>6. p \in 1 .. Len(Cut(t, p, q)) + 1
  BY <1>1, <1>2, <1>4, InsCut
<1>7. PICK U : /\ History(record_insert(l, p, 1), U)
               /\ U[1] = Ins(Cut(t, p, q), p, s)
               /\ Honest(record_insert(l, p, 1), U, FALSE, sv)
  <2>1. V[1] = Cut(t, p, q) /\ p \in 1 .. Len(V[1]) + 1
    BY <1>5, <1>6
  <2>2. PICK U : /\ History(record_insert(l, p, Len(s)), U)
                 /\ U[1] = Ins(V[1], p, s)
                 /\ Honest(record_insert(l, p, Len(s)), U, FALSE, sv)
    BY <1>3, <1>5, <2>1, RecordInsert
  <2> QED
    BY <1>3, <2>1, <2>2
<1>8. Ins(Cut(t, p, q), p, s) = Put(t, p, c)
  BY <1>1, <1>2, <1>4, InsCutReplaces, ZenonT(60) DEF Put
<1>9. record_change(list, p, 1) = record_insert(l, p, 1)
  BY <1>5 DEF record_change
<1> QED
  BY <1>1, <1>7, <1>8, <1>9

-----------------------------------------------------------------------------
(***************************************************************************)
(* Where truncate_undo_list cuts.                                          *)
(***************************************************************************)
LEMMA LeastNumber ==
  ASSUME NEW S, S \subseteq Nat, S /= {}
  PROVE  \E x \in S : \A y \in S : x <= y
<1> DEFINE R == {ss \in Nat \X Nat : ss[1] < ss[2]}
<1>1. IsWellFoundedOn(R, Nat)
  BY NatLessThanWellFounded DEF OpToRel
<1>2. PICK x \in S : \A y \in S : <<y, x>> \notin R
  <2> HIDE DEF R
  <2> QED
    BY <1>1, WFMin
<1>3. ASSUME NEW y \in S PROVE x <= y
  <2>1. <<y, x>> \in Nat \X Nat /\ <<y, x>>[1] = y /\ <<y, x>>[2] = x
    OBVIOUS
  <2>2. ~(y < x)
    BY <1>2, <2>1
  <2> QED
    BY <2>2
<1> QED
  BY <1>3

LEMMA MinIn ==
  ASSUME NEW S, S \subseteq Nat, S /= {}
  PROVE  Min(S) \in S
BY LeastNumber DEF Min

LEMMA MaxIn ==
  ASSUME NEW S, NEW n \in Nat, S \subseteq 1 .. n, S /= {}
  PROVE  Max(S) \in S
<1> DEFINE R == {k \in Nat : \A y \in S : y <= k}
<1>1. n \in R
  OBVIOUS
<1>2. R \subseteq Nat /\ R /= {}
  BY <1>1
<1>4. PICK x \in R : \A y \in R : x <= y
  <2> HIDE DEF R
  <2> QED
    BY <1>2, LeastNumber
<1>5. x \in Nat /\ \A y \in S : y <= x
  OBVIOUS
<1>6. x \in S
  <2>1. SUFFICES ASSUME x \notin S PROVE FALSE
    OBVIOUS
  <2>2. ASSUME NEW y \in S PROVE y <= x - 1 /\ x - 1 \in Nat
    BY <1>5, <2>1
  <2>3. x - 1 \in R
    BY <2>2
  <2> QED
    BY <1>4, <1>5, <2>3
<1>7. \A y \in S : x >= y
  BY <1>5
<1> QED
  BY <1>6, <1>7 DEF Max

\* A boundary that the thresholds choose.
LEMMA CutWhere ==
  ASSUME NEW n \in Nat, NEW bounds, bounds \subseteq 2 .. n,
         \E k \in bounds : k - 1 > undo_threshold
  PROVE  LET stop == Min({k \in bounds : k - 1 > undo_threshold})
             before == {k \in bounds : k < stop}
         IN (IF stop - 1 > undo_high_threshold /\ before /= {}
             THEN Max(before) ELSE stop) \in bounds
<1>1. PICK S : S = {k \in bounds : k - 1 > undo_threshold}
  OBVIOUS
<1>2. S \subseteq Nat /\ S /= {} /\ S \subseteq bounds
  <2>1. ASSUME NEW k \in bounds PROVE k \in Nat
    <3>1. k \in 2 .. n
      OBVIOUS
    <3> QED
      BY <3>1
  <2>2. S \subseteq bounds /\ S /= {}
    BY <1>1
  <2> QED
    BY <2>1, <2>2
<1>3. Min(S) \in S
  BY <1>2, MinIn
<1>4. PICK stop : stop = Min(S) /\ stop \in bounds
  BY <1>2, <1>3
<1>5. PICK before : before = {k \in bounds : k < stop}
  OBVIOUS
<1>6. ASSUME before /= {} PROVE Max(before) \in bounds
  <2>1. before \subseteq 1 .. n /\ before \subseteq bounds
    <3>1. ASSUME NEW k \in bounds PROVE k \in 1 .. n
      <4>1. k \in 2 .. n
        OBVIOUS
      <4> QED
        BY <4>1
    <3>2. before \subseteq bounds
      BY <1>5
    <3> QED
      BY <3>1, <3>2
  <2> QED
    BY <1>6, <2>1, MaxIn
<1>7. (IF stop - 1 > undo_high_threshold /\ before /= {}
       THEN Max(before) ELSE stop) \in bounds
  BY <1>4, <1>6
<1> QED
  BY <1>1, <1>4, <1>5, <1>7

\* A list that shares its older entries with another one, cut where that is.
LEMMA SharedEntries ==
  ASSUME NEW list, list \in Seq(Entry), NEW cut \in 2 .. Len(list),
         NEW k \in 0 .. cut - 2
  PROVE  LET rest == SubSeq(list, k + 1, Len(list))
         IN cut - k \in 2 .. Len(rest) /\ rest[cut - k] = list[cut]
<1>1. PICK n, rest : n = Len(list) /\ rest = SubSeq(list, k + 1, n)
  OBVIOUS
<1>2. n \in Nat /\ list \in [1 .. n -> Entry] /\ cut \in 2 .. n
  BY <1>1, LenProperties
<1>3. k + 1 \in Int /\ n \in Int /\ \A i \in k + 1 .. n : list[i] \in Entry
  BY <1>2
<1>4. /\ Len(rest) = IF k + 1 <= n THEN n - (k + 1) + 1 ELSE 0
      /\ \A i \in 1 .. n - (k + 1) + 1 : rest[i] = list[k + 1 + i - 1]
  BY <1>1, <1>3, SubSeqProperties
<1>5. k + 1 <= n /\ n - (k + 1) + 1 = n - k /\ cut - k \in 2 .. n - k
  BY <1>2
<1>6. cut - k \in 1 .. n - (k + 1) + 1 /\ k + 1 + (cut - k) - 1 = cut
  BY <1>2
<1> QED
  BY <1>1, <1>4, <1>5, <1>6
=============================================================================
