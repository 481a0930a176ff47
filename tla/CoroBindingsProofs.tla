------------------------- MODULE CoroBindingsProofs -------------------------
(***************************************************************************)
(* Proofs about CoroBindings, for any variables, values, coroutines and    *)
(* depths of nesting: the swaps of specpdl_unwind_range and                *)
(* specpdl_rebind_range and the work of unbind_to, which go entry by       *)
(* entry, are computed in closed form; from that, exchanging values at     *)
(* each switch implements a stack of bindings per thread (DeepBinding).    *)
(***************************************************************************)
EXTENDS CoroBindings, SequenceTheorems, WellFoundedInduction, TLAPS

-----------------------------------------------------------------------------
(***************************************************************************)
(* The value of a binding is the old value of the next entry above it.     *)
(***************************************************************************)
\* x is bound by none of the entries above i, up to n; entry j is the first
\* above i that binds it.
Free(L, x, i, n) == \A j \in i + 1 .. n : L[j].sym /= x

First(L, x, i, j) == L[j].sym = x /\ Free(L, x, i, j - 1)

LEMMA NextNone ==
  ASSUME NEW cells, NEW L, NEW x, NEW i \in Nat, NEW n \in Nat, n = Len(L),
         Free(L, x, i, n)
  PROVE  NextValue(cells, L, x, i) = cells[x]
BY DEF NextValue, Above, Free

LEMMA NextSome ==
  ASSUME NEW cells, NEW L, NEW x, NEW i \in Nat, NEW n \in Nat, n = Len(L),
         NEW j \in i + 1 .. n, First(L, x, i, j)
  PROVE  NextValue(cells, L, x, i) = L[j].old_value
<1>1. PICK A : A = Above(L, x, i)
  OBVIOUS
<1>2. A = {k \in 1 .. n : k > i /\ L[k].sym = x}
  BY <1>1 DEF Above
<1>3. j \in A
  BY <1>2 DEF First
<1>4. ASSUME NEW k \in A PROVE j <= k
  <2>1. k \in 1 .. n /\ k > i /\ L[k].sym = x
    BY <1>2
  <2>2. k \notin i + 1 .. j - 1
    BY <2>1 DEF First, Free
  <2> QED
    BY <2>1, <2>2
<1>5. \A k \in A : (\A l \in A : k <= l) => k = j
  <2>1. A \subseteq Nat
    BY <1>2
  <2> QED
    BY <1>3, <1>4, <2>1
<1>6. Lowest(A) = j
  BY <1>3, <1>4, <1>5 DEF Lowest
<1> QED
  BY <1>1, <1>3, <1>6 DEF NextValue

LEMMA LeastNumber ==
  ASSUME NEW S, S \subseteq Nat, S /= {}
  PROVE  \E x \in S : \A y \in S : x <= y
<1> DEFINE R == {ss \in Nat \X Nat : ss[1] < ss[2]}
<1>1. IsWellFoundedOn(R, Nat)
  BY NatLessThanWellFounded DEF OpToRel
<1>2. PICK x \in S : \A y \in S : <<y, x>> \notin R
  <2> HIDE DEF R
  <2> QED
    BY <1>1, WFMin
<1>3. ASSUME NEW y \in S PROVE x <= y
  <2>1. <<y, x>> \in Nat \X Nat /\ <<y, x>>[1] = y /\ <<y, x>>[2] = x
    OBVIOUS
  <2>2. ~(y < x)
    BY <1>2, <2>1
  <2> QED
    BY <2>2
<1> QED
  BY <1>3

LEMMA NextCases ==
  ASSUME NEW L, NEW x, NEW i \in Nat, NEW n \in Nat
  PROVE  Free(L, x, i, n) \/ \E j \in i + 1 .. n : First(L, x, i, j)
<1>1. SUFFICES ASSUME NEW m \in i + 1 .. n, L[m].sym = x
               PROVE  \E j \in i + 1 .. n : First(L, x, i, j)
  BY DEF Free
<1> DEFINE S == {j \in i + 1 .. n : L[j].sym = x}
<1>2. S \subseteq Nat /\ m \in S
  BY <1>1
<1>3. PICK j \in S : \A k \in S : j <= k
  <2> HIDE DEF S
  <2> QED
    BY <1>2, LeastNumber
<1>4. j \in i + 1 .. n /\ L[j].sym = x
  OBVIOUS
<1>5. ASSUME NEW k \in i + 1 .. j - 1 PROVE L[k].sym /= x
  <2>1. k \in i + 1 .. n /\ ~(j <= k)
    BY <1>4
  <2> QED
    BY <1>3, <2>1
<1>6. Free(L, x, i, j - 1)
  BY <1>5 DEF Free
<1> QED
  BY <1>4, <1>6 DEF First

LEMMA NextHere ==
  ASSUME NEW cells, NEW L, NEW x, NEW i \in Nat, NEW n \in Nat, n = Len(L),
         i + 1 \in 1 .. n, L[i + 1].sym = x
  PROVE  NextValue(cells, L, x, i) = L[i + 1].old_value
<1>1. i + 1 \in i + 1 .. n /\ First(L, x, i, i + 1)
  BY DEF First, Free
<1> QED
  BY <1>1, NextSome

LEMMA NextSkip ==
  ASSUME NEW cells, NEW L, NEW x, NEW i \in Nat, NEW n \in Nat, n = Len(L),
         i + 1 \in 1 .. n, L[i + 1].sym /= x
  PROVE  NextValue(cells, L, x, i) = NextValue(cells, L, x, i + 1)
<1>1. PICK m \in Nat : m = i + 1
  OBVIOUS
<1>2. CASE Free(L, x, m, n)
  <2>1. Free(L, x, i, n)
    BY <1>1, <1>2 DEF Free
  <2> QED
    BY <1>1, <1>2, <2>1, NextNone
<1>3. CASE \E j \in m + 1 .. n : First(L, x, m, j)
  <2>1. PICK j \in m + 1 .. n : First(L, x, m, j)
    BY <1>3
  <2>2. j \in i + 1 .. n /\ First(L, x, i, j)
    BY <1>1, <2>1 DEF First, Free
  <2>3. NextValue(cells, L, x, i) = L[j].old_value
    BY <2>2, NextSome
  <2>4. NextValue(cells, L, x, m) = L[j].old_value
    BY <2>1, NextSome
  <2> QED
    BY <1>1, <2>3, <2>4
<1> QED
  BY <1>2, <1>3, NextCases

-----------------------------------------------------------------------------
(***************************************************************************)
(* unbind_to.                                                              *)
(***************************************************************************)
LEMMA UnbindToIs ==
  ASSUME NEW cells \in [Sym -> Val], NEW S \in Seq(Entry), NEW n \in 0 .. Len(S)
  PROVE  UnbindTo(cells, S, n) = [x \in Sym |-> NextValue(cells, S, x, n)]
<1> DEFINE rec(f) == [k \in n .. Len(S) |->
             IF k = Len(S) THEN cells
             ELSE [f[k + 1] EXCEPT ![S[k + 1].sym] = S[k + 1].old_value]]
           g == [k \in n .. Len(S) |-> [x \in Sym |-> NextValue(cells, S, x, k)]]
           d == CHOOSE f : f = rec(f)
<1>1. UnbindTo(cells, S, n) = d[n]
  BY DEF UnbindTo
<1>2. Len(S) \in Nat /\ n \in Nat /\ \A k \in 1 .. Len(S) : S[k].sym \in Sym
  <2>1. Len(S) \in Nat /\ S \in [1 .. Len(S) -> Entry]
    BY LenProperties
  <2>2. \A e \in Entry : e.sym \in Sym
    BY DEF Entry
  <2>3. n \in Nat
    BY <2>1
  <2> QED
    BY <2>1, <2>2, <2>3
<1>3. ASSUME NEW k \in n .. Len(S)
      PROVE  g[k] = IF k = Len(S) THEN cells
                    ELSE [g[k + 1] EXCEPT ![S[k + 1].sym] = S[k + 1].old_value]
  <2>1. CASE k = Len(S)
    <3>1. k \in Nat /\ \A x \in Sym : Free(S, x, k, Len(S))
      BY <1>2, <2>1 DEF Free
    <3>2. \A x \in Sym : NextValue(cells, S, x, k) = cells[x]
      BY <1>2, <3>1, NextNone
    <3> QED
      BY <2>1, <3>2
  <2>2. CASE k /= Len(S)
    <3>1. k + 1 \in n .. Len(S) /\ k + 1 \in 1 .. Len(S) /\ k \in Nat
      BY <1>2, <2>2
    <3>2. ASSUME NEW x \in Sym
          PROVE  NextValue(cells, S, x, k) = IF x = S[k + 1].sym THEN S[k + 1].old_value
                                             ELSE NextValue(cells, S, x, k + 1)
      <4>1. CASE x = S[k + 1].sym
        BY <1>2, <3>1, <4>1, NextHere
      <4>2. CASE x /= S[k + 1].sym
        BY <1>2, <3>1, <4>2, NextSkip
      <4> QED
        BY <4>1, <4>2
    <3> QED
      BY <1>2, <2>2, <3>1, <3>2
  <2> QED
    BY <2>1, <2>2
<1>4. g = rec(g)
  BY <1>3
<1>5. d = rec(d)
  <2> HIDE DEF g, rec
  <2> QED
    BY <1>4
<1>6. ASSUME NEW k \in n .. Len(S)
      PROVE  d[k] = IF k = Len(S) THEN cells
                    ELSE [d[k + 1] EXCEPT ![S[k + 1].sym] = S[k + 1].old_value]
  <2> HIDE DEF d
  <2> QED
    BY <1>5
<1> HIDE DEF d, g
<1>7. \A k \in n .. Len(S) : d[k] = g[k]
  <2> DEFINE W == {m \in 0 .. Len(S) - n : d[Len(S) - m] /= g[Len(S) - m]}
  <2>1. SUFFICES ASSUME W /= {} PROVE FALSE
    <3>1. ASSUME W = {}, NEW k \in n .. Len(S) PROVE d[k] = g[k]
      <4>1. Len(S) - k \in 0 .. Len(S) - n /\ Len(S) - (Len(S) - k) = k
        BY <1>2
      <4> QED
        BY <3>1, <4>1
    <3> QED
      BY <3>1
  <2>2. PICK m \in W : \A y \in W : m <= y
    <3>1. W \subseteq Nat
      BY <1>2
    <3> HIDE DEF W
    <3> QED
      BY <2>1, <3>1, LeastNumber
  <2>3. PICK k : k = Len(S) - m
    OBVIOUS
  <2>4. /\ k \in n .. Len(S) /\ d[k] /= g[k] /\ m \in 0 .. Len(S) - n
        /\ k = Len(S) - m
    BY <1>2, <2>3
  <2>5. CASE k = Len(S)
    BY <1>3, <1>6, <2>4, <2>5
  <2>6. CASE k /= Len(S)
    <3>1. /\ m - 1 \in 0 .. Len(S) - n /\ ~(m <= m - 1)
          /\ Len(S) - (m - 1) = k + 1 /\ k + 1 \in n .. Len(S)
      BY <1>2, <2>4, <2>6
    <3>2. d[k + 1] = g[k + 1]
      BY <2>2, <3>1
    <3>3. d[k] = [d[k + 1] EXCEPT ![S[k + 1].sym] = S[k + 1].old_value]
      BY <1>6, <2>4, <2>6
    <3>4. g[k] = [g[k + 1] EXCEPT ![S[k + 1].sym] = S[k + 1].old_value]
      BY <1>3, <2>4, <2>6
    <3> QED
      BY <2>4, <3>2, <3>3, <3>4
  <2> QED
    BY <2>5, <2>6
<1>8. n \in n .. Len(S)
  BY <1>2
<1> QED
  BY <1>1, <1>7, <1>8 DEF g
-----------------------------------------------------------------------------
(***************************************************************************)
(* The swaps of a whole stack.                                             *)
(***************************************************************************)
LEMMA StackIs ==
  ASSUME NEW S \in Seq(Entry)
  PROVE  /\ Len(S) \in Nat /\ S \in [1 .. Len(S) -> Entry]
         /\ \A i \in 1 .. Len(S) : /\ S[i] \in Entry /\ S[i].sym \in Sym
                                   /\ S[i].old_value \in Val
                                   /\ S[i] = [sym |-> S[i].sym, old_value |-> S[i].old_value]
<1>1. Len(S) \in Nat /\ S \in [1 .. Len(S) -> Entry]
  BY LenProperties
<1>2. \A e \in Entry : /\ e.sym \in Sym /\ e.old_value \in Val
                       /\ e = [sym |-> e.sym, old_value |-> e.old_value]
  BY DEF Entry
<1> QED
  BY <1>1, <1>2

\* Whatever follows the steps of the swap, entry by entry, is their result.
LEMMA SwapRangeIs ==
  ASSUME NEW cells, NEW S \in Seq(Entry), NEW order, NEW g,
         g[0] = [cells |-> cells, stack |-> S],
         \A n \in 1 .. Len(S) : g[n] = SwapOne(g[n - 1], order[n])
  PROVE  SwapRange(cells, S, order) = g[Len(S)]
<1> DEFINE rec(f) == [n \in 0 .. Len(S) |->
             IF n = 0 THEN [cells |-> cells, stack |-> S]
             ELSE SwapOne(f[n - 1], order[n])]
           h == [n \in 0 .. Len(S) |-> g[n]]
           d == CHOOSE f : f = rec(f)
<1>1. SwapRange(cells, S, order) = d[Len(S)]
  BY DEF SwapRange
<1>2. Len(S) \in Nat
  BY LenProperties
<1>3. ASSUME NEW n \in 0 .. Len(S)
      PROVE  h[n] = IF n = 0 THEN [cells |-> cells, stack |-> S]
                    ELSE SwapOne(h[n - 1], order[n])
  <2>1. n /= 0 => n \in 1 .. Len(S) /\ n - 1 \in 0 .. Len(S)
    BY <1>2
  <2> QED
    BY <2>1
<1>4. h = rec(h)
  BY <1>3
<1>5. d = rec(d)
  <2> HIDE DEF h, rec
  <2> QED
    BY <1>4
<1>6. ASSUME NEW n \in 0 .. Len(S)
      PROVE  d[n] = IF n = 0 THEN [cells |-> cells, stack |-> S]
                    ELSE SwapOne(d[n - 1], order[n])
  <2> HIDE DEF d
  <2> QED
    BY <1>5
<1> HIDE DEF d, h
<1>7. \A n \in 0 .. Len(S) : d[n] = g[n]
  <2> DEFINE W == {n \in 0 .. Len(S) : d[n] /= g[n]}
  <2>1. SUFFICES ASSUME W /= {} PROVE FALSE
    OBVIOUS
  <2>2. PICK n \in W : \A y \in W : n <= y
    <3>1. W \subseteq Nat
      BY <1>2
    <3> HIDE DEF W
    <3> QED
      BY <2>1, <3>1, LeastNumber
  <2>3. n \in 0 .. Len(S) /\ d[n] /= g[n]
    OBVIOUS
  <2>4. CASE n = 0
    BY <1>6, <2>3, <2>4
  <2>5. CASE n /= 0
    <3>1. n \in 1 .. Len(S) /\ n - 1 \in 0 .. Len(S) /\ ~(n <= n - 1)
      BY <1>2, <2>3, <2>5
    <3>2. d[n - 1] = g[n - 1]
      BY <2>2, <3>1
    <3>3. d[n] = SwapOne(d[n - 1], order[n])
      BY <1>6, <2>3, <2>5
    <3>4. g[n] = SwapOne(g[n - 1], order[n])
      BY <3>1
    <3> QED
      BY <2>3, <3>2, <3>3, <3>4
  <2> QED
    BY <2>4, <2>5
<1>8. Len(S) \in 0 .. Len(S)
  BY <1>2
<1> QED
  BY <1>1, <1>7, <1>8

\* The entries above n have been swapped, from the top down.
Unwound(cells, S, n) ==
  [cells |-> [x \in Sym |-> IF x \in Local THEN cells[x]
                            ELSE NextValue(cells, S, x, n)],
   stack |-> [i \in 1 .. Len(S) |->
                IF i <= n \/ S[i].sym \in Local THEN S[i]
                ELSE [sym |-> S[i].sym,
                      old_value |-> NextValue(cells, S, S[i].sym, i)]]]

LEMMA UnwoundStep ==
  ASSUME NEW cells \in [Sym -> Val], NEW S \in Seq(Entry), NEW n \in 1 .. Len(S)
  PROVE  Unwound(cells, S, n - 1) = SwapOne(Unwound(cells, S, n), n)
<1>1. PICK x : x = S[n].sym
  OBVIOUS
<1>2. /\ Len(S) \in Nat /\ n \in Nat /\ n - 1 \in Nat /\ n - 1 + 1 = n /\ x \in Sym
      /\ \A i \in 1 .. Len(S) : S[i].sym \in Sym
  <2>1. Len(S) \in Nat /\ \A i \in 1 .. Len(S) : S[i].sym \in Sym
    BY StackIs
  <2> QED
    BY <1>1, <2>1
<1>3. NextValue(cells, S, x, n - 1) = S[n].old_value
  BY <1>1, <1>2, NextHere
<1>4. \A y \in Sym : y /= x => NextValue(cells, S, y, n - 1) = NextValue(cells, S, y, n)
  <2>1. ASSUME NEW y \in Sym, y /= x
        PROVE  NextValue(cells, S, y, n - 1) = NextValue(cells, S, y, n - 1 + 1)
    BY <1>1, <1>2, <2>1, NextSkip
  <2> QED
    BY <1>2, <2>1
<1>5. PICK c, st, r : /\ c = Unwound(cells, S, n).cells
                      /\ st = Unwound(cells, S, n).stack
                      /\ r = Unwound(cells, S, n)
  OBVIOUS
<1>6. /\ c = [y \in Sym |-> IF y \in Local THEN cells[y] ELSE NextValue(cells, S, y, n)]
      /\ st = [i \in 1 .. Len(S) |->
                 IF i <= n \/ S[i].sym \in Local THEN S[i]
                 ELSE [sym |-> S[i].sym,
                       old_value |-> NextValue(cells, S, S[i].sym, i)]]
      /\ r = [cells |-> c, stack |-> st] /\ st[n] = S[n]
  BY <1>2, <1>5 DEF Unwound
<1>7. CASE x \in Local
  <2>1. SwapOne(r, n) = r
    BY <1>1, <1>6, <1>7 DEF SwapOne
  <2>2. Unwound(cells, S, n - 1).cells = c
    BY <1>4, <1>6, <1>7 DEF Unwound
  <2>3. \A i \in 1 .. Len(S) : (i <= n - 1 \/ S[i].sym \in Local)
                                 <=> (i <= n \/ S[i].sym \in Local)
    BY <1>1, <1>2, <1>7
  <2>4. Unwound(cells, S, n - 1).stack = st
    BY <1>6, <2>3 DEF Unwound
  <2> QED
    BY <1>5, <1>6, <2>1, <2>2, <2>4 DEF Unwound
<1>8. CASE x \notin Local
  <2>1. SwapOne(r, n) = [cells |-> [c EXCEPT ![x] = S[n].old_value],
                         stack |-> [st EXCEPT ![n].old_value = c[x]]]
    BY <1>1, <1>6, <1>8 DEF SwapOne
  <2>2. Unwound(cells, S, n - 1).cells = [c EXCEPT ![x] = S[n].old_value]
    BY <1>2, <1>3, <1>4, <1>6, <1>8 DEF Unwound
  <2>3. [st[n] EXCEPT !.old_value = c[x]]
          = [sym |-> x, old_value |-> NextValue(cells, S, x, n)]
    <3>1. c[x] = NextValue(cells, S, x, n)
      BY <1>2, <1>6, <1>8
    <3>2. PICK e, v : e = S[n] /\ v = c[x]
      OBVIOUS
    <3>3. e \in [sym : Sym, old_value : Val]
      BY <3>2, StackIs DEF Entry
    <3>4. [e EXCEPT !.old_value = v] = [sym |-> e.sym, old_value |-> v]
      BY <3>3
    <3> QED
      BY <1>1, <1>6, <3>1, <3>2, <3>4
  <2>4. \A i \in 1 .. Len(S) : i /= n => (i <= n - 1 <=> i <= n)
    BY <1>2
  <2>5. Unwound(cells, S, n - 1).stack = [st EXCEPT ![n] = [sym |-> x,
                                           old_value |-> NextValue(cells, S, x, n)]]
    <3>1. PICK e, u : /\ e = [sym |-> x, old_value |-> NextValue(cells, S, x, n)]
                      /\ u = Unwound(cells, S, n - 1).stack
      OBVIOUS
    <3>2. u = [i \in 1 .. Len(S) |->
                 IF i <= n - 1 \/ S[i].sym \in Local THEN S[i]
                 ELSE [sym |-> S[i].sym,
                       old_value |-> NextValue(cells, S, S[i].sym, i)]]
      BY <3>1 DEF Unwound
    <3>3. u[n] = e
      BY <1>1, <1>2, <1>8, <3>1, <3>2
    <3>4. \A i \in 1 .. Len(S) : i /= n => u[i] = st[i]
      BY <1>6, <2>4, <3>2
    <3>5. u = [i \in 1 .. Len(S) |-> u[i]] /\ st = [i \in 1 .. Len(S) |-> st[i]]
      BY <1>6, <3>2
    <3>6. u = [st EXCEPT ![n] = e]
      BY <3>3, <3>4, <3>5
    <3> QED
      BY <3>1, <3>6
  <2> QED
    BY <1>5, <1>6, <2>1, <2>2, <2>3, <2>5 DEF Unwound
<1> QED
  BY <1>7, <1>8

LEMMA UnwindIs ==
  ASSUME NEW cells \in [Sym -> Val], NEW S \in Seq(Entry)
  PROVE  specpdl_unwind_range(cells, S) = Unwound(cells, S, 0)
<1> DEFINE L == Len(S)
           g == [n \in 0 .. L |-> Unwound(cells, S, L - n)]
<1>1. /\ L \in Nat /\ S \in [1 .. L -> Entry]
      /\ \A i \in 1 .. L : S[i].sym \in Sym
  BY StackIs
<1>2. Unwound(cells, S, L) = [cells |-> cells, stack |-> S]
  <2>1. ASSUME NEW x \in Sym PROVE NextValue(cells, S, x, L) = cells[x]
    <3>1. Free(S, x, L, L)
      BY <1>1 DEF Free
    <3> QED
      BY <1>1, <3>1, NextNone
  <2>2. Unwound(cells, S, L).cells = cells
    BY <2>1 DEF Unwound
  <2>3. Unwound(cells, S, L).stack = S
    BY <1>1 DEF Unwound
  <2> QED
    BY <2>2, <2>3 DEF Unwound
<1>3. g[0] = [cells |-> cells, stack |-> S]
  BY <1>1, <1>2
<1>4. ASSUME NEW n \in 1 .. L
      PROVE  g[n] = SwapOne(g[n - 1], Downward(S)[n])
  <2>1. PICK m, l : m = l + 1 - n /\ l = L
    OBVIOUS
  <2>2. /\ m \in 1 .. l /\ m \in Nat /\ m - 1 = l - n /\ n - 1 \in 0 .. l
        /\ l - (n - 1) = m /\ n \in 0 .. l
    BY <1>1, <2>1
  <2>3. Downward(S)[n] = m
    BY <2>1 DEF Downward
  <2>4. Unwound(cells, S, m - 1) = SwapOne(Unwound(cells, S, m), m)
    BY <2>1, <2>2, UnwoundStep
  <2>5. g[n] = Unwound(cells, S, l - n) /\ g[n - 1] = Unwound(cells, S, l - (n - 1))
    BY <2>1, <2>2
  <2> QED
    BY <2>2, <2>3, <2>4, <2>5
<1>5. g[L] = Unwound(cells, S, 0)
  BY <1>1
<1> HIDE DEF g
<1>6. SwapRange(cells, S, Downward(S)) = g[Len(S)]
  BY <1>3, <1>4, SwapRangeIs
<1> QED
  BY <1>5, <1>6 DEF specpdl_unwind_range

-----------------------------------------------------------------------------
(***************************************************************************)
(* A swap done twice is undone: specpdl_rebind_range, which goes the other *)
(* way, is the inverse of specpdl_unwind_range.                            *)
(***************************************************************************)
Swappable(r, n) ==
  /\ r = [cells |-> r.cells, stack |-> r.stack]
  /\ r.cells \in [Sym -> Val] /\ r.stack \in Seq(Entry) /\ Len(r.stack) = n

LEMMA SwapOneIs ==
  ASSUME NEW r, NEW n \in Nat, Swappable(r, n), NEW i \in 1 .. n
  PROVE  /\ Swappable(SwapOne(r, i), n)
         /\ SwapOne(SwapOne(r, i), i) = r
         /\ \A j \in 1 .. n : SwapOne(r, i).stack[j].sym = r.stack[j].sym
<1>1. PICK c, S, x, v : c = r.cells /\ S = r.stack /\ x = S[i].sym /\ v = S[i].old_value
  OBVIOUS
<1>2. /\ r = [cells |-> c, stack |-> S] /\ c \in [Sym -> Val] /\ S \in Seq(Entry)
      /\ Len(S) = n
  BY <1>1 DEF Swappable
<1>3. S \in [1 .. n -> Entry] /\ x \in Sym /\ v \in Val /\ S[i] = [sym |-> x, old_value |-> v]
  BY <1>1, <1>2, StackIs
<1>4. CASE x \in Local
  BY <1>1, <1>2, <1>4 DEF SwapOne
<1>5. CASE x \notin Local
  <2>1. PICK w, c2, S2 : /\ w = c[x] /\ c2 = [c EXCEPT ![x] = v]
                         /\ S2 = [S EXCEPT ![i] = [sym |-> x, old_value |-> w]]
    OBVIOUS
  <2>2. w \in Val /\ c2 \in [Sym -> Val] /\ c2[x] = v
    BY <1>2, <1>3, <2>1
  <2>3. [sym |-> x, old_value |-> w] \in Entry /\ [sym |-> x, old_value |-> v] \in Entry
    BY <1>3, <2>2 DEF Entry
  <2>4. S2 \in [1 .. n -> Entry] /\ S2[i] = [sym |-> x, old_value |-> w]
    BY <1>3, <2>1, <2>3
  <2>5. S2 \in Seq(Entry) /\ Len(S2) = n
    BY <1>2, <1>3, <2>1, <2>3, ExceptSeq
  <2>6. [S[i] EXCEPT !.old_value = w] = [sym |-> x, old_value |-> w]
    BY <1>3
  <2>7. SwapOne(r, i) = [cells |-> c2, stack |-> S2]
    BY <1>1, <1>2, <1>5, <2>1, <2>6 DEF SwapOne
  <2>8. [S2[i] EXCEPT !.old_value = v] = S[i]
    BY <1>3, <2>4
  <2>9. [c2 EXCEPT ![x] = w] = c
    BY <1>2, <1>3, <2>1
  <2>10. [S2 EXCEPT ![i] = S[i]] = S
    BY <1>3, <2>1
  <2>11. SwapOne([cells |-> c2, stack |-> S2], i) = [cells |-> c, stack |-> S]
    <3>1. S2[i].sym = x /\ S2[i].old_value = w
      BY <2>4
    <3>2. SwapOne([cells |-> c2, stack |-> S2], i)
            = [cells |-> [c2 EXCEPT ![x] = w],
               stack |-> [S2 EXCEPT ![i] = [S2[i] EXCEPT !.old_value = v]]]
      BY <1>5, <2>2, <3>1 DEF SwapOne
    <3> QED
      BY <2>8, <2>9, <2>10, <3>2
  <2>12. \A j \in 1 .. n : S2[j].sym = S[j].sym
    BY <1>1, <1>3, <2>1
  <2>13. Swappable([cells |-> c2, stack |-> S2], n)
    BY <2>2, <2>5 DEF Swappable
  <2> QED
    BY <1>1, <1>2, <2>7, <2>11, <2>12, <2>13
<1> QED
  BY <1>4, <1>5

\* f goes through the first m steps of a swap.
Steps(cells, S, order, f, m) ==
  /\ f[0] = [cells |-> cells, stack |-> S]
  /\ \A n \in 1 .. m : f[n] = SwapOne(f[n - 1], order[n])

LEMMA StepsExist ==
  ASSUME NEW cells, NEW S, NEW order, NEW m \in Nat
  PROVE  \E f : Steps(cells, S, order, f, m)
<1> DEFINE W == {n \in Nat : ~ \E f : Steps(cells, S, order, f, n)}
<1>1. SUFFICES ASSUME W /= {} PROVE FALSE
  OBVIOUS
<1>2. PICK n \in W : \A y \in W : n <= y
  <2>1. W \subseteq Nat
    OBVIOUS
  <2> HIDE DEF W
  <2> QED
    BY <1>1, <2>1, LeastNumber
<1>3. n \in Nat /\ ~ \E f : Steps(cells, S, order, f, n)
  OBVIOUS
<1>4. CASE n = 0
  <2> DEFINE f == [k \in 0 .. 0 |-> [cells |-> cells, stack |-> S]]
  <2>1. Steps(cells, S, order, f, 0)
    BY DEF Steps
  <2> QED
    BY <1>3, <1>4, <2>1
<1>5. CASE n /= 0
  <2>1. n - 1 \in Nat /\ n - 1 \notin W
    <3>1. n - 1 \in Nat /\ ~(n <= n - 1)
      BY <1>3, <1>5
    <3> HIDE DEF W
    <3> QED
      BY <1>2, <3>1
  <2>2. PICK f : Steps(cells, S, order, f, n - 1)
    BY <2>1
  <2> DEFINE h == [k \in 0 .. n |-> IF k = n THEN SwapOne(f[n - 1], order[n]) ELSE f[k]]
  <2>3. h[0] = [cells |-> cells, stack |-> S]
    BY <1>3, <1>5, <2>2 DEF Steps
  <2>4. ASSUME NEW k \in 1 .. n PROVE h[k] = SwapOne(h[k - 1], order[k])
    <3>1. k \in 0 .. n /\ k - 1 \in 0 .. n /\ k - 1 /= n
      BY <1>3
    <3>2. h[k - 1] = f[k - 1]
      BY <3>1
    <3>3. CASE k = n
      BY <3>1, <3>2, <3>3
    <3>4. CASE k /= n
      <4>1. k \in 1 .. n - 1
        BY <1>3, <3>4
      <4>2. f[k] = SwapOne(f[k - 1], order[k])
        BY <2>2, <4>1 DEF Steps
      <4>3. h[k] = f[k]
        BY <3>1, <3>4
      <4> QED
        BY <3>2, <4>2, <4>3
    <3> QED
      BY <3>3, <3>4
  <2>5. Steps(cells, S, order, h, n)
    <3> HIDE DEF h
    <3> QED
      BY <2>3, <2>4 DEF Steps
  <2> QED
    BY <1>3, <2>5
<1> QED
  BY <1>4, <1>5

LEMMA StepsSwap ==
  ASSUME NEW cells \in [Sym -> Val], NEW S \in Seq(Entry), NEW order, NEW f,
         \A n \in 1 .. Len(S) : order[n] \in 1 .. Len(S),
         Steps(cells, S, order, f, Len(S)), NEW m \in 0 .. Len(S)
  PROVE  /\ Swappable(f[m], Len(S))
         /\ \A j \in 1 .. Len(S) : f[m].stack[j].sym = S[j].sym
<1> DEFINE Good(n) == /\ Swappable(f[n], Len(S))
                      /\ \A j \in 1 .. Len(S) : f[n].stack[j].sym = S[j].sym
           W == {n \in 0 .. Len(S) : ~Good(n)}
<1>1. Len(S) \in Nat
  BY LenProperties
<1>2. SUFFICES ASSUME W /= {} PROVE FALSE
  OBVIOUS
<1>3. PICK n \in W : \A y \in W : n <= y
  <2>1. W \subseteq Nat
    BY <1>1
  <2> HIDE DEF W
  <2> QED
    BY <1>2, <2>1, LeastNumber
<1>4. n \in 0 .. Len(S) /\ ~Good(n)
  OBVIOUS
<1>5. CASE n = 0
  <2>1. f[0] = [cells |-> cells, stack |-> S]
    BY DEF Steps
  <2>2. f[0].cells = cells /\ f[0].stack = S
    BY <2>1
  <2>3. Good(0)
    BY <2>1, <2>2 DEF Swappable
  <2> QED
    BY <1>4, <1>5, <2>3
<1>6. CASE n /= 0
  <2>1. n \in 1 .. Len(S) /\ n - 1 \in 0 .. Len(S) /\ ~(n <= n - 1)
    BY <1>1, <1>4, <1>6
  <2>2. Good(n - 1)
    <3>1. n - 1 \notin W
      <4> HIDE DEF W
      <4> QED
        BY <1>3, <2>1
    <3> HIDE DEF Good
    <3> QED
      BY <2>1, <3>1
  <2>3. f[n] = SwapOne(f[n - 1], order[n]) /\ order[n] \in 1 .. Len(S)
    BY <2>1 DEF Steps
  <2>4. PICK r, i : r = f[n - 1] /\ i = order[n]
    OBVIOUS
  <2>5. Swappable(r, Len(S)) /\ i \in 1 .. Len(S)
    BY <2>2, <2>3, <2>4
  <2>6. /\ Swappable(SwapOne(r, i), Len(S))
        /\ \A j \in 1 .. Len(S) : SwapOne(r, i).stack[j].sym = r.stack[j].sym
    BY <1>1, <2>5, SwapOneIs
  <2>7. Good(n)
    BY <2>2, <2>3, <2>4, <2>6
  <2> QED
    BY <1>4, <2>7
<1> QED
  BY <1>5, <1>6

LEMMA RebindIs ==
  ASSUME NEW cells \in [Sym -> Val], NEW S \in Seq(Entry), NEW R,
         R = specpdl_rebind_range(cells, S)
  PROVE  /\ Swappable(R, Len(S))
         /\ \A j \in 1 .. Len(S) : R.stack[j].sym = S[j].sym
         /\ specpdl_unwind_range(R.cells, R.stack) = [cells |-> cells, stack |-> S]
<1> DEFINE L == Len(S)
<1>1. L \in Nat
  BY LenProperties
<1>2. PICK f : Steps(cells, S, Upward(S), f, L)
  BY <1>1, StepsExist
<1>3. \A n \in 1 .. L : Upward(S)[n] = n
  BY DEF Upward
<1>4. f[0] = [cells |-> cells, stack |-> S]
  BY <1>2 DEF Steps
<1>5. ASSUME NEW n \in 1 .. L PROVE f[n] = SwapOne(f[n - 1], Upward(S)[n])
  BY <1>2 DEF Steps
<1>6. R = f[L]
  <2>1. SwapRange(cells, S, Upward(S)) = f[Len(S)]
    BY <1>4, <1>5, SwapRangeIs
  <2> QED
    BY <2>1 DEF specpdl_rebind_range
<1>7. ASSUME NEW m \in 0 .. L
      PROVE  /\ Swappable(f[m], L)
             /\ \A j \in 1 .. L : f[m].stack[j].sym = S[j].sym
  BY <1>2, <1>3, StepsSwap
<1>8. /\ Swappable(R, L)
      /\ \A j \in 1 .. L : R.stack[j].sym = S[j].sym
  <2>1. L \in 0 .. L
    BY <1>1
  <2> QED
    BY <1>6, <1>7, <2>1
<1>9. PICK c, T : c = R.cells /\ T = R.stack
  OBVIOUS
<1>10. R = [cells |-> c, stack |-> T] /\ T \in Seq(Entry) /\ Len(T) = L
  BY <1>8, <1>9 DEF Swappable
<1> DEFINE g == [n \in 0 .. L |-> f[L - n]]
<1>11. g[0] = [cells |-> c, stack |-> T]
  <2>1. 0 \in 0 .. L /\ L - 0 = L
    BY <1>1
  <2> QED
    BY <1>6, <1>10, <2>1
<1>12. ASSUME NEW n \in 1 .. L PROVE g[n] = SwapOne(g[n - 1], Downward(T)[n])
  <2>1. PICK m, l : m = l + 1 - n /\ l = L
    OBVIOUS
  <2>2. /\ m \in 1 .. l /\ m - 1 = l - n /\ n - 1 \in 0 .. l
        /\ l - (n - 1) = m /\ n \in 0 .. l /\ m - 1 \in 0 .. l
    BY <1>1, <2>1
  <2>3. Downward(T)[n] = m
    BY <1>10, <2>1 DEF Downward
  <2>4. g[n] = f[m - 1] /\ g[n - 1] = f[m]
    BY <2>1, <2>2
  <2>5. PICK r : r = f[m - 1]
    OBVIOUS
  <2>6. f[m] = SwapOne(r, m)
    BY <1>3, <1>5, <2>1, <2>2, <2>5
  <2>7. Swappable(r, L) /\ m \in 1 .. L
    BY <1>7, <2>1, <2>2, <2>5
  <2>8. SwapOne(SwapOne(r, m), m) = r
    BY <1>1, <2>7, SwapOneIs
  <2> QED
    BY <2>3, <2>4, <2>5, <2>6, <2>8
<1>13. g[L] = [cells |-> cells, stack |-> S]
  <2>1. L \in 0 .. L /\ L - L = 0
    BY <1>1
  <2> QED
    BY <1>4, <2>1
<1>14. SwapRange(c, T, Downward(T)) = g[Len(T)]
  <2> HIDE DEF g
  <2> QED
    BY <1>10, <1>11, <1>12, SwapRangeIs
<1>15. specpdl_unwind_range(c, T) = [cells |-> cells, stack |-> S]
  <2> HIDE DEF g
  <2> QED
    BY <1>10, <1>13, <1>14 DEF specpdl_unwind_range
<1> QED
  BY <1>8, <1>9, <1>15

\* What a coroutine finds when it is switched in, in terms of NextValue: the
\* values its own entries held, and what lay under them is what the cells were.
LEMMA RebindFinds ==
  ASSUME NEW cells \in [Sym -> Val], NEW S \in Seq(Entry), NEW R,
         R = specpdl_rebind_range(cells, S)
  PROVE  /\ R.cells \in [Sym -> Val] /\ R.stack \in Seq(Entry)
         /\ Len(R.stack) = Len(S)
         /\ \A i \in 1 .. Len(S) : R.stack[i].sym = S[i].sym
         /\ \A x \in Plain : NextValue(R.cells, R.stack, x, 0) = cells[x]
         /\ \A i \in 1 .. Len(S) : S[i].sym \in Plain =>
              NextValue(R.cells, R.stack, S[i].sym, i) = S[i].old_value
<1>1. PICK c, T : c = R.cells /\ T = R.stack
  OBVIOUS
<1>2. /\ c \in [Sym -> Val] /\ T \in Seq(Entry) /\ Len(T) = Len(S) /\ Len(S) \in Nat
      /\ \A i \in 1 .. Len(S) : T[i].sym = S[i].sym
  <2>1. Swappable(R, Len(S)) /\ \A i \in 1 .. Len(S) : R.stack[i].sym = S[i].sym
    BY RebindIs
  <2>2. Len(S) \in Nat
    BY LenProperties
  <2> QED
    BY <1>1, <2>1, <2>2 DEF Swappable
<1>3. Unwound(c, T, 0) = [cells |-> cells, stack |-> S]
  <2>1. specpdl_unwind_range(c, T) = [cells |-> cells, stack |-> S]
    BY <1>1, RebindIs
  <2> QED
    BY <1>2, <2>1, UnwindIs
<1>4. ASSUME NEW x \in Plain PROVE NextValue(c, T, x, 0) = cells[x]
  <2>1. Unwound(c, T, 0).cells[x] = NextValue(c, T, x, 0)
    BY DEF Unwound, Plain
  <2> QED
    BY <1>3, <2>1
<1>5. ASSUME NEW i \in 1 .. Len(S), S[i].sym \in Plain
      PROVE  NextValue(c, T, S[i].sym, i) = S[i].old_value
  <2>1. ~(i <= 0) /\ S[i].sym \notin Local /\ T[i].sym = S[i].sym
    BY <1>2, <1>5 DEF Plain
  <2>2. Unwound(c, T, 0).stack[i]
          = [sym |-> T[i].sym, old_value |-> NextValue(c, T, T[i].sym, i)]
    BY <1>2, <2>1 DEF Unwound
  <2>3. S[i] = [sym |-> T[i].sym, old_value |-> NextValue(c, T, T[i].sym, i)]
    BY <1>3, <2>2
  <2> QED
    BY <2>1, <2>3
<1> QED
  BY <1>1, <1>2, <1>4, <1>5

-----------------------------------------------------------------------------
(***************************************************************************)
(* Stacks upon stacks: the entries up to n of a stack find in the cells    *)
(* that the entries above would leave what they find in the whole stack.   *)
(***************************************************************************)
LEMMA NextIsVal ==
  ASSUME NEW cells \in [Sym -> Val], NEW S \in Seq(Entry), NEW x \in Sym,
         NEW i \in Nat
  PROVE  NextValue(cells, S, x, i) \in Val
<1>1. Len(S) \in Nat /\ \A j \in 1 .. Len(S) : S[j].old_value \in Val
  BY StackIs
<1>2. CASE Free(S, x, i, Len(S))
  <2>1. NextValue(cells, S, x, i) = cells[x]
    BY <1>1, <1>2, NextNone
  <2> QED
    BY <2>1
<1>3. CASE \E j \in i + 1 .. Len(S) : First(S, x, i, j)
  <2>1. PICK j \in i + 1 .. Len(S) : First(S, x, i, j)
    BY <1>3
  <2>2. NextValue(cells, S, x, i) = S[j].old_value /\ j \in 1 .. Len(S)
    BY <1>1, <2>1, NextSome
  <2> QED
    BY <1>1, <2>2
<1> QED
  BY <1>1, <1>2, <1>3, NextCases

\* P is the first n of the len entries of L; below is what the others leave in
\* the cell of x.
Lower(cells, L, len, below, P, n, x) ==
  /\ len \in Nat /\ len = Len(L) /\ n \in 0 .. len /\ n = Len(P)
  /\ \A j \in 1 .. n : P[j].sym = L[j].sym /\ P[j].old_value = L[j].old_value
  /\ below[x] = NextValue(cells, L, x, n)

LEMMA Layer ==
  ASSUME NEW cells, NEW L, NEW len, NEW below, NEW P, NEW n, NEW x,
         Lower(cells, L, len, below, P, n, x), NEW i \in 0 .. n
  PROVE  NextValue(below, P, x, i) = NextValue(cells, L, x, i)
<1> /\ len \in Nat /\ len = Len(L) /\ n \in 0 .. len /\ n = Len(P)
    /\ \A j \in 1 .. n : P[j].sym = L[j].sym /\ P[j].old_value = L[j].old_value
    /\ below[x] = NextValue(cells, L, x, n)
  BY DEF Lower
<1>1. n \in Nat /\ i \in Nat
  OBVIOUS
<1>2. CASE Free(P, x, i, n)
  <2>1. NextValue(below, P, x, i) = below[x]
    BY <1>1, <1>2, NextNone
  <2>2. Free(L, x, i, n)
    BY <1>1, <1>2 DEF Free
  <2>3. CASE Free(L, x, n, len)
    <3>1. Free(L, x, i, len)
      <4>1. ASSUME NEW j \in i + 1 .. len PROVE L[j].sym /= x
        <5>1. j \in i + 1 .. n \/ j \in n + 1 .. len
          BY <1>1
        <5> QED
          BY <2>2, <2>3, <5>1 DEF Free
      <4> QED
        BY <4>1 DEF Free
    <3>2. NextValue(cells, L, x, i) = cells[x] /\ NextValue(cells, L, x, n) = cells[x]
      BY <1>1, <2>3, <3>1, NextNone
    <3> QED
      BY <2>1, <3>2
  <2>4. CASE \E j \in n + 1 .. len : First(L, x, n, j)
    <3>1. PICK j \in n + 1 .. len : First(L, x, n, j)
      BY <2>4
    <3>2. Free(L, x, i, j - 1)
      <4>1. ASSUME NEW k \in i + 1 .. j - 1 PROVE L[k].sym /= x
        <5>1. k \in i + 1 .. n \/ k \in n + 1 .. j - 1
          BY <1>1, <3>1
        <5> QED
          BY <2>2, <3>1, <5>1 DEF Free, First
      <4> QED
        BY <4>1 DEF Free
    <3>3. j \in i + 1 .. len /\ First(L, x, i, j)
      BY <1>1, <3>1, <3>2 DEF First
    <3>4. NextValue(cells, L, x, n) = L[j].old_value
      BY <1>1, <3>1, NextSome
    <3>5. NextValue(cells, L, x, i) = L[j].old_value
      BY <1>1, <3>3, NextSome
    <3> QED
      BY <2>1, <3>4, <3>5
  <2> QED
    BY <1>1, <2>3, <2>4, NextCases
<1>3. CASE \E j \in i + 1 .. n : First(P, x, i, j)
  <2>1. PICK j \in i + 1 .. n : First(P, x, i, j)
    BY <1>3
  <2>2. NextValue(below, P, x, i) = P[j].old_value
    BY <1>1, <2>1, NextSome
  <2>3. j \in i + 1 .. len /\ First(L, x, i, j)
    BY <1>1, <2>1 DEF First, Free
  <2>4. NextValue(cells, L, x, i) = L[j].old_value
    BY <1>1, <2>3, NextSome
  <2>5. P[j].old_value = L[j].old_value
    BY <1>1, <2>1
  <2> QED
    BY <2>2, <2>4, <2>5
<1> QED
  BY <1>1, <1>2, <1>3, NextCases

\* The entries of the upper of two stacks, P upon m others, do not see the
\* lower ones: entry i of P is entry p of L.
Upon(P, L, m, i, p) ==
  /\ Len(L) = m + Len(P) /\ p = m + i
  /\ \A j \in 1 .. Len(P) : /\ P[j].sym = L[m + j].sym
                            /\ P[j].old_value = L[m + j].old_value

LEMMA Shift ==
  ASSUME NEW cells, NEW L, NEW len \in Nat, len = Len(L),
         NEW P, NEW n \in Nat, n = Len(P), NEW m \in Nat,
         NEW x, NEW i \in 0 .. n, NEW p \in Nat, Upon(P, L, m, i, p)
  PROVE  NextValue(cells, P, x, i) = NextValue(cells, L, x, p)
<1>1. i \in Nat
  OBVIOUS
<1>2. CASE Free(P, x, i, n)
  <2>1. ASSUME NEW k \in p + 1 .. len PROVE L[k].sym /= x
    <3>1. PICK j : j = k - m
      OBVIOUS
    <3>2. j \in i + 1 .. n /\ j \in 1 .. n /\ m + j = k
      BY <3>1 DEF Upon
    <3>3. P[j].sym /= x /\ P[j].sym = L[m + j].sym
      BY <1>2, <3>2 DEF Free, Upon
    <3> QED
      BY <3>2, <3>3
  <2>2. Free(L, x, p, len)
    BY <2>1 DEF Free
  <2>3. NextValue(cells, P, x, i) = cells[x]
    BY <1>1, <1>2, NextNone
  <2>4. NextValue(cells, L, x, p) = cells[x]
    BY <1>1, <2>2, NextNone
  <2> QED
    BY <2>3, <2>4
<1>3. CASE \E j \in i + 1 .. n : First(P, x, i, j)
  <2>1. PICK j \in i + 1 .. n : First(P, x, i, j)
    BY <1>3
  <2>2. PICK h : h = m + j
    OBVIOUS
  <2>3. h \in p + 1 .. len /\ j \in 1 .. n
    BY <2>2 DEF Upon
  <2>4. ASSUME NEW k \in p + 1 .. h - 1 PROVE L[k].sym /= x
    <3>1. PICK l : l = k - m
      OBVIOUS
    <3>2. l \in i + 1 .. j - 1 /\ l \in 1 .. n /\ m + l = k
      BY <2>2, <3>1 DEF Upon
    <3>3. P[l].sym /= x /\ P[l].sym = L[m + l].sym
      BY <2>1, <3>2 DEF First, Free, Upon
    <3> QED
      BY <3>2, <3>3
  <2>5. P[j].sym = L[h].sym /\ P[j].old_value = L[h].old_value
    BY <2>2, <2>3 DEF Upon
  <2>6. First(L, x, p, h)
    BY <2>1, <2>4, <2>5 DEF First, Free
  <2>7. NextValue(cells, P, x, i) = P[j].old_value
    BY <1>1, <2>1, NextSome
  <2>8. NextValue(cells, L, x, p) = L[h].old_value
    BY <1>1, <2>3, <2>6, NextSome
  <2> QED
    BY <2>5, <2>7, <2>8
<1> QED
  BY <1>1, <1>2, <1>3, NextCases

-----------------------------------------------------------------------------
(***************************************************************************)
(* The state of DeepBinding as a function of the value cells v, the stacks *)
(* sp and the running thread r: the bindings in force are those of a stack *)
(* and the cells it lies under; a suspended coroutine's are stored.        *)
(***************************************************************************)
Binding(e, w) == IF e.sym \in Local THEN [sym |-> e.sym] ELSE [sym |-> e.sym, val |-> w]

EnvOf(cells, S) == [i \in 1 .. Len(S) |-> Binding(S[i], NextValue(cells, S, S[i].sym, i))]

Stored(S) == [i \in 1 .. Len(S) |-> Binding(S[i], S[i].old_value)]

Under(cells, S) == [x \in Sym |-> NextValue(cells, S, x, 0)]

Base(v, sp, r) == IF r = Main THEN v ELSE Under(v, sp[r])

EnvFor(v, sp, r) ==
  [t \in Thread |-> IF t = r THEN EnvOf(v, sp[t])
                    ELSE IF t = Main THEN EnvOf(Base(v, sp, r), sp[t])
                    ELSE Stored(sp[t])]

GlobalFor(v, sp, r) == [x \in Plain |-> NextValue(Base(v, sp, r), sp[Main], x, 0)]

Typed(v, sp, r) ==
  v \in [Sym -> Val] /\ sp \in [Thread -> Seq(Entry)] /\ r \in Thread

\* InForce, in two layers.
Joined(L, M, C) ==
  /\ Len(L) = Len(M) + Len(C)
  /\ \A j \in 1 .. Len(M) : L[j] = M[j]
  /\ \A j \in 1 .. Len(C) : L[Len(M) + j] = C[j]

LEMMA Join ==
  ASSUME NEW M \in Seq(Entry), NEW C \in Seq(Entry)
  PROVE  Joined(M \o C, M, C)
<1>1. PICK m, n : m = Len(M) /\ n = Len(C)
  OBVIOUS
<1>2. m \in Nat /\ n \in Nat
  BY <1>1, LenProperties
<1>3. /\ Len(M \o C) = m + n
      /\ \A i \in 1 .. m + n : (M \o C)[i] = IF i <= m THEN M[i] ELSE C[i - m]
  BY <1>1, ConcatProperties
<1>4. ASSUME NEW j \in 1 .. m PROVE (M \o C)[j] = M[j]
  BY <1>2, <1>3
<1>5. ASSUME NEW j \in 1 .. n PROVE (M \o C)[m + j] = C[j]
  <2>1. PICK k : k = m + j
    OBVIOUS
  <2>2. k \in 1 .. m + n /\ ~(k <= m) /\ k - m = j
    BY <1>2, <2>1
  <2>3. (M \o C)[k] = C[k - m]
    BY <1>3, <2>2
  <2> QED
    BY <2>1, <2>2, <2>3
<1> QED
  BY <1>1, <1>3, <1>4, <1>5 DEF Joined

LEMMA LowerLayer ==
  ASSUME NEW v, NEW M, NEW C, NEW L, Joined(L, M, C), NEW len \in Nat, len = Len(L),
         NEW m \in Nat, m = Len(M), NEW n \in Nat, n = Len(C),
         NEW x \in Sym, NEW i \in 0 .. m
  PROVE  NextValue(v, L, x, i) = NextValue(Under(v, C), M, x, i)
<1>1. /\ m \in 0 .. len /\ 0 \in 0 .. n
      /\ \A j \in 1 .. m : M[j].sym = L[j].sym /\ M[j].old_value = L[j].old_value
  BY DEF Joined
<1>2. PICK c : c = Under(v, C)
  OBVIOUS
<1>3. NextValue(v, L, x, m) = NextValue(v, C, x, 0)
  <2>1. Upon(C, L, m, 0, m)
    BY DEF Upon, Joined
  <2> QED
    BY <1>1, <2>1, Shift
<1>4. c[x] = NextValue(v, L, x, m)
  BY <1>2, <1>3 DEF Under
<1>5. Lower(v, L, len, c, M, m, x)
  BY <1>1, <1>4 DEF Lower
<1>6. NextValue(c, M, x, i) = NextValue(v, L, x, i)
  BY <1>5, Layer
<1> QED
  BY <1>2, <1>6

LEMMA EnvIs ==
  Typed(value, specpdl, running) =>
    /\ DeepEnv = EnvFor(value, specpdl, running)
    /\ DeepGlobal = GlobalFor(value, specpdl, running)
<1> SUFFICES ASSUME Typed(value, specpdl, running)
             PROVE  /\ DeepEnv = EnvFor(value, specpdl, running)
                    /\ DeepGlobal = GlobalFor(value, specpdl, running)
  OBVIOUS
<1>1. PICK M, b : M = specpdl[Main] /\ b = Base(value, specpdl, running)
  OBVIOUS
<1>2. M \in Seq(Entry) /\ Len(M) \in Nat /\ Main \in Thread
  <2>1. Main \in Thread /\ M \in Seq(Entry)
    BY <1>1 DEF Typed, Thread
  <2> QED
    BY <2>1, LenProperties
<1>3. ASSUME NEW t \in Thread
      PROVE  /\ specpdl[t] \in Seq(Entry) /\ Len(specpdl[t]) \in Nat
             /\ \A i \in 1 .. Len(specpdl[t]) : specpdl[t][i].sym \in Sym
  <2>1. specpdl[t] \in Seq(Entry)
    BY DEF Typed
  <2> QED
    BY <2>1, StackIs
\* The two layers of InForce.
<1>4. ASSUME NEW x \in Sym
      PROVE  /\ \A i \in 0 .. Len(M) : ValueAbove(x, i) = NextValue(b, M, x, i)
             /\ running /= Main => \A i \in 0 .. Len(specpdl[running]) :
                  ValueAbove(x, Len(M) + i) = NextValue(value, specpdl[running], x, i)
  <2>1. CASE running = Main
    BY <1>1, <2>1 DEF ValueAbove, InForce, Base
  <2>2. CASE running /= Main
    <3>1. PICK C, L : C = specpdl[running] /\ L = InForce
      OBVIOUS
    <3>2. L = M \o C
      BY <1>1, <2>2, <3>1 DEF InForce
    <3>3. C \in Seq(Entry) /\ Len(C) \in Nat
      BY <1>3, <3>1 DEF Typed
    <3>4. Joined(L, M, C)
      BY <1>2, <3>2, <3>3, Join
    <3>5. PICK m, n, len : m = Len(M) /\ n = Len(C) /\ len = Len(L)
      OBVIOUS
    <3>6. m \in Nat /\ n \in Nat /\ len \in Nat /\ m = Len(M) /\ n = Len(C) /\ len = Len(L)
      BY <1>2, <3>3, <3>4, <3>5 DEF Joined
    <3>7. b = Under(value, C)
      BY <1>1, <2>2, <3>1 DEF Base
    <3>8. ASSUME NEW i \in 0 .. m PROVE ValueAbove(x, i) = NextValue(b, M, x, i)
      <4>1. NextValue(value, L, x, i) = NextValue(Under(value, C), M, x, i)
        BY <3>4, <3>6, LowerLayer
      <4> QED
        BY <3>1, <3>7, <4>1 DEF ValueAbove
    <3>9. ASSUME NEW i \in 0 .. n PROVE ValueAbove(x, m + i) = NextValue(value, C, x, i)
      <4>1. PICK p : p = m + i
        OBVIOUS
      <4>2. p \in Nat /\ Upon(C, L, m, i, p)
        BY <3>4, <3>6, <4>1 DEF Upon, Joined
      <4>3. NextValue(value, C, x, i) = NextValue(value, L, x, p)
        BY <3>6, <4>2, Shift
      <4> QED
        BY <3>1, <4>1, <4>3 DEF ValueAbove
    <3> QED
      BY <3>1, <3>6, <3>8, <3>9
  <2> QED
    BY <2>1, <2>2
<1>5. DeepGlobal = GlobalFor(value, specpdl, running)
  <2>1. ASSUME NEW x \in Plain PROVE ValueAbove(x, 0) = NextValue(b, M, x, 0)
    <3>1. x \in Sym /\ 0 \in 0 .. Len(M)
      BY <1>2 DEF Plain
    <3> QED
      BY <1>4, <3>1
  <2> QED
    BY <1>1, <2>1 DEF DeepGlobal, GlobalFor
<1>6. ASSUME NEW t \in Thread
      PROVE  DeepEnv[t] = EnvFor(value, specpdl, running)[t]
  <2>1. PICK S : S = specpdl[t]
    OBVIOUS
  <2>2. DeepEnv[t] = [i \in 1 .. Len(S) |-> Binding(S[i], BoundValue(t, i))]
    BY <2>1 DEF DeepEnv, Binding
  <2>3. ASSUME NEW i \in 1 .. Len(S)
        PROVE  BoundValue(t, i) = IF t = running THEN NextValue(value, S, S[i].sym, i)
                                  ELSE IF t = Main THEN NextValue(b, S, S[i].sym, i)
                                  ELSE S[i].old_value
    <3>1. S[i].sym \in Sym /\ i \in 0 .. Len(S)
      BY <1>3, <2>1
    <3>2. CASE t = Main
      <4>1. BoundValue(t, i) = ValueAbove(S[i].sym, i)
        BY <2>1, <3>2 DEF BoundValue
      <4>2. ValueAbove(S[i].sym, i) = NextValue(b, S, S[i].sym, i)
        <5>1. S = M
          BY <1>1, <2>1, <3>2
        <5>2. PICK x : x = S[i].sym
          OBVIOUS
        <5>3. x \in Sym /\ i \in 0 .. Len(M)
          BY <3>1, <5>1, <5>2
        <5>4. ValueAbove(x, i) = NextValue(b, M, x, i)
          BY <1>4, <5>3
        <5> QED
          BY <5>1, <5>2, <5>4
      <4>3. t = running => b = value
        BY <1>1, <3>2 DEF Base
      <4> QED
        BY <3>2, <4>1, <4>2, <4>3
    <3>3. CASE t /= Main /\ t = running
      <4>1. BoundValue(t, i) = ValueAbove(S[i].sym, Len(M) + i)
        BY <1>1, <2>1, <3>3 DEF BoundValue
      <4>2. ValueAbove(S[i].sym, Len(M) + i) = NextValue(value, S, S[i].sym, i)
        BY <1>4, <2>1, <3>1, <3>3
      <4> QED
        BY <3>3, <4>1, <4>2
    <3>4. CASE t /= Main /\ t /= running
      BY <2>1, <3>4 DEF BoundValue
    <3> QED
      BY <3>2, <3>3, <3>4
  <2>4. EnvFor(value, specpdl, running)[t]
          = IF t = running THEN EnvOf(value, S)
            ELSE IF t = Main THEN EnvOf(b, S) ELSE Stored(S)
    BY <1>1, <2>1 DEF EnvFor
  <2> QED
    BY <2>2, <2>3, <2>4 DEF EnvOf, Stored
<1>7. DeepEnv = EnvFor(value, specpdl, running)
  <2>1. DeepEnv = [t \in Thread |-> DeepEnv[t]]
    BY DEF DeepEnv
  <2>2. EnvFor(value, specpdl, running) = [t \in Thread |-> EnvFor(value, specpdl, running)[t]]
    BY DEF EnvFor
  <2> QED
    BY <1>6, <2>1, <2>2
<1> QED
  BY <1>5, <1>7

-----------------------------------------------------------------------------
(***************************************************************************)
(* What each operation does to a stack and the cells above it.             *)
(***************************************************************************)
LEMMA Agree ==
  ASSUME NEW a, NEW b, NEW S, NEW x, a[x] = b[x], NEW i
  PROVE  NextValue(a, S, x, i) = NextValue(b, S, x, i)
BY DEF NextValue

LEMMA EnvAgree ==
  ASSUME NEW a, NEW b, NEW S \in Seq(Entry), \A x \in Plain : a[x] = b[x]
  PROVE  EnvOf(a, S) = EnvOf(b, S)
<1>1. ASSUME NEW i \in 1 .. Len(S)
      PROVE  Binding(S[i], NextValue(a, S, S[i].sym, i))
               = Binding(S[i], NextValue(b, S, S[i].sym, i))
  <2>1. PICK x : x = S[i].sym
    OBVIOUS
  <2>2. x \in Sym
    BY <2>1, StackIs
  <2>3. CASE x \in Local
    BY <2>1, <2>3 DEF Binding
  <2>4. CASE x \notin Local
    <3>1. a[x] = b[x]
      BY <2>2, <2>4 DEF Plain
    <3>2. NextValue(a, S, x, i) = NextValue(b, S, x, i)
      BY <3>1, Agree
    <3> QED
      BY <2>1, <3>2
  <2> QED
    BY <2>3, <2>4
<1> QED
  BY <1>1 DEF EnvOf

LEMMA UnderIs ==
  ASSUME NEW cells \in [Sym -> Val], NEW S \in Seq(Entry)
  PROVE  Under(cells, S) \in [Sym -> Val]
BY NextIsVal DEF Under

LEMMA AppendIs ==
  ASSUME NEW n \in Nat, NEW E, E = [i \in 1 .. n |-> E[i]], NEW b,
         NEW m, m = n + 1
  PROVE  Append(E, b) = [i \in 1 .. m |-> IF i = m THEN b ELSE E[i]]
<1> DEFINE T == {E[i] : i \in 1 .. n} \cup {b}
<1>1. E \in [1 .. n -> T] /\ b \in T
  OBVIOUS
<1> HIDE DEF T
<1>2. E \in Seq(T) /\ Len(E) = n
  BY <1>1
<1>3. PICK A : A = Append(E, b)
  OBVIOUS
<1>4. /\ A \in Seq(T) /\ Len(A) = n + 1 /\ A[n + 1] = b
      /\ \A i \in 1 .. n : A[i] = E[i]
  BY <1>1, <1>2, <1>3, AppendProperties
<1>5. A \in [1 .. m -> T]
  BY <1>4, LenProperties
<1>6. ASSUME NEW i \in 1 .. m PROVE A[i] = IF i = m THEN b ELSE E[i]
  <2>1. i = n + 1 \/ i \in 1 .. n
    OBVIOUS
  <2>2. i \in 1 .. n => i /= m
    OBVIOUS
  <2> QED
    BY <1>4, <2>1, <2>2
<1>7. A = [i \in 1 .. m |-> A[i]]
  BY <1>5
<1> QED
  BY <1>3, <1>6, <1>7

\* A binding is pushed: specbind.
Pushed(v, S, x, w, v2, S2) ==
  /\ v2 = [v EXCEPT ![x] = w]
  /\ S2 = Append(S, [sym |-> x, old_value |-> v[x]])

LEMMA Push ==
  ASSUME NEW v \in [Sym -> Val], NEW S \in Seq(Entry), NEW x \in Sym, NEW w \in Val,
         NEW v2, NEW S2, Pushed(v, S, x, w, v2, S2)
  PROVE  /\ v2 \in [Sym -> Val] /\ S2 \in Seq(Entry)
         /\ EnvOf(v2, S2) = Append(EnvOf(v, S), Binding([sym |-> x], w))
         /\ Under(v2, S2) = Under(v, S)
<1>1. PICK e, n, m : /\ e = [sym |-> x, old_value |-> v[x]]
                     /\ n = Len(S) /\ m = n + 1
  OBVIOUS
<1>2. /\ e \in Entry /\ n \in Nat /\ v2 \in [Sym -> Val] /\ n = Len(S)
      /\ v2[x] = w /\ \A y \in Sym : y /= x => v2[y] = v[y]
  BY <1>1, LenProperties DEF Entry, Pushed
<1>3. /\ S2 \in Seq(Entry) /\ Len(S2) = n + 1
      /\ \A i \in 1 .. n : S2[i] = S[i]
      /\ S2[n + 1] = e
  BY <1>1, <1>2, AppendProperties DEF Pushed
<1>4. S2[n + 1].sym = x /\ S2[n + 1].old_value = v[x]
  BY <1>1, <1>3
<1>5. /\ m \in Nat /\ n \in 0 .. m /\ n + 1 \in 1 .. m /\ m = Len(S2) /\ n + 1 = m
  BY <1>1, <1>2, <1>3
<1>6. ASSUME NEW y PROVE NextValue(v2, S2, y, m) = v2[y]
  <2>1. Free(S2, y, m, m)
    BY <1>5 DEF Free
  <2>2. m \in Nat /\ m = Len(S2)
    BY <1>5
  <2> QED
    BY <2>1, <2>2, NextNone
<1>7. ASSUME NEW y \in Sym PROVE v[y] = NextValue(v2, S2, y, n)
  <2>1. n \in Nat /\ m \in Nat /\ n + 1 \in 1 .. m /\ m = Len(S2)
    BY <1>2, <1>5
  <2>2. CASE y = x
    <3>1. NextValue(v2, S2, y, n) = S2[n + 1].old_value
      BY <1>4, <2>1, <2>2, NextHere
    <3> QED
      BY <1>4, <2>2, <3>1
  <2>3. CASE y /= x
    <3>1. NextValue(v2, S2, y, n) = NextValue(v2, S2, y, n + 1)
      BY <1>4, <2>1, <2>3, NextSkip
    <3>2. NextValue(v2, S2, y, n + 1) = v2[y]
      BY <1>5, <1>6
    <3> QED
      BY <1>2, <2>3, <3>1, <3>2
  <2> QED
    BY <2>2, <2>3
<1>8. ASSUME NEW y \in Sym, NEW i \in 0 .. n
      PROVE  NextValue(v, S, y, i) = NextValue(v2, S2, y, i)
  <2>1. \A j \in 1 .. n : S[j].sym = S2[j].sym /\ S[j].old_value = S2[j].old_value
    BY <1>3
  <2>2. v[y] = NextValue(v2, S2, y, n)
    BY <1>7
  <2>3. Lower(v2, S2, m, v, S, n, y)
    BY <1>2, <1>5, <2>1, <2>2 DEF Lower
  <2> QED
    BY <2>3, Layer
<1>9. Under(v2, S2) = Under(v, S)
  <2>1. 0 \in 0 .. n
    BY <1>2
  <2> QED
    BY <1>8, <2>1 DEF Under
<1>10. EnvOf(v2, S2) = Append(EnvOf(v, S), Binding([sym |-> x], w))
  <2>1. PICK E, b : E = EnvOf(v, S) /\ b = Binding([sym |-> x], w)
    OBVIOUS
  <2>2. /\ E = [i \in 1 .. n |-> Binding(S[i], NextValue(v, S, S[i].sym, i))]
        /\ EnvOf(v2, S2) = [i \in 1 .. m |-> Binding(S2[i], NextValue(v2, S2, S2[i].sym, i))]
    BY <1>1, <1>5, <2>1 DEF EnvOf
  <2>3. ASSUME NEW i \in 1 .. n
        PROVE  Binding(S2[i], NextValue(v2, S2, S2[i].sym, i)) = E[i]
    <3>1. PICK y : y = S[i].sym
      OBVIOUS
    <3>2. y \in Sym
      BY <1>2, <3>1, StackIs
    <3>3. i \in 0 .. n /\ S2[i] = S[i]
      BY <1>2, <1>3
    <3>4. NextValue(v, S, y, i) = NextValue(v2, S2, y, i)
      BY <1>8, <3>2, <3>3
    <3> QED
      BY <2>2, <3>1, <3>3, <3>4
  <2>4. Binding(S2[m], NextValue(v2, S2, S2[m].sym, m)) = b
    <3>1. NextValue(v2, S2, x, m) = w
      BY <1>2, <1>6
    <3>2. S2[m].sym = x
      BY <1>1, <1>4
    <3> QED
      BY <2>1, <3>1, <3>2 DEF Binding
  <2>5. Append(E, b) = [i \in 1 .. m |-> IF i = m THEN b ELSE E[i]]
    <3>1. E = [i \in 1 .. n |-> E[i]]
      BY <2>2
    <3> QED
      BY <1>1, <1>2, <3>1, AppendIs
  <2>6. ASSUME NEW i \in 1 .. m
        PROVE  Binding(S2[i], NextValue(v2, S2, S2[i].sym, i))
                 = IF i = m THEN b ELSE E[i]
    <3>1. i = m \/ i \in 1 .. n
      BY <1>1, <1>2
    <3>2. i \in 1 .. n => i /= m
      BY <1>1, <1>2
    <3> QED
      BY <2>3, <2>4, <3>1, <3>2
  <2> QED
    BY <2>1, <2>2, <2>5, <2>6
<1> QED
  BY <1>2, <1>3, <1>9, <1>10

\* Bindings are popped: unbind_to.
Popped(v, S, n, v2, S2) == v2 = UnbindTo(v, S, n) /\ S2 = SubSeq(S, 1, n)

LEMMA Pop ==
  ASSUME NEW v \in [Sym -> Val], NEW S \in Seq(Entry), NEW n \in 0 .. Len(S),
         NEW v2, NEW S2, Popped(v, S, n, v2, S2)
  PROVE  /\ v2 \in [Sym -> Val] /\ S2 \in Seq(Entry)
         /\ EnvOf(v2, S2) = SubSeq(EnvOf(v, S), 1, n)
         /\ Under(v2, S2) = Under(v, S)
<1>1. PICK len, E : len = Len(S) /\ E = EnvOf(v, S)
  OBVIOUS
<1>2. /\ len \in Nat /\ n \in 0 .. len /\ n \in Nat /\ len = Len(S)
      /\ \A i \in 1 .. len : S[i] \in Entry /\ S[i].sym \in Sym
  <2>1. /\ Len(S) \in Nat
        /\ \A i \in 1 .. Len(S) : S[i] \in Entry /\ S[i].sym \in Sym
    BY StackIs
  <2>2. n \in Nat
    BY <2>1
  <2> QED
    BY <1>1, <2>1, <2>2
<1>3. \A x \in Sym : v2[x] = NextValue(v, S, x, n)
  BY UnbindToIs DEF Popped
<1>4. v2 \in [Sym -> Val]
  <2>1. v2 = [x \in Sym |-> NextValue(v, S, x, n)]
    BY UnbindToIs DEF Popped
  <2> QED
    BY <1>2, <2>1, NextIsVal
<1>5. /\ S2 \in Seq(Entry) /\ Len(S2) = n
      /\ \A i \in 1 .. n : S2[i] = S[i]
  <2>1. \A i \in 1 .. n : S[i] \in Entry
    BY <1>2
  <2>2. 1 \in Int /\ n \in Int /\ n - 1 + 1 = n
    BY <1>2
  <2>3. /\ S2 \in Seq(Entry) /\ Len(S2) = IF 1 <= n THEN n - 1 + 1 ELSE 0
        /\ \A i \in 1 .. n - 1 + 1 : S2[i] = S[1 + i - 1]
    BY <2>1, <2>2, SubSeqProperties DEF Popped
  <2> QED
    BY <1>2, <2>2, <2>3
<1>6. ASSUME NEW y \in Sym, NEW i \in 0 .. n
      PROVE  NextValue(v2, S2, y, i) = NextValue(v, S, y, i)
  <2>1. \A j \in 1 .. n : S2[j].sym = S[j].sym /\ S2[j].old_value = S[j].old_value
    BY <1>5
  <2>2. v2[y] = NextValue(v, S, y, n)
    BY <1>3
  <2>3. Lower(v, S, len, v2, S2, n, y)
    BY <1>2, <1>5, <2>1, <2>2 DEF Lower
  <2> QED
    BY <2>3, Layer
<1>7. Under(v2, S2) = Under(v, S)
  <2>1. 0 \in 0 .. n
    BY <1>2
  <2> QED
    BY <1>6, <2>1 DEF Under
<1>8. EnvOf(v2, S2) = SubSeq(E, 1, n)
  <2>1. /\ E = [i \in 1 .. len |-> Binding(S[i], NextValue(v, S, S[i].sym, i))]
        /\ EnvOf(v2, S2) = [i \in 1 .. n |-> Binding(S2[i], NextValue(v2, S2, S2[i].sym, i))]
    BY <1>1, <1>5 DEF EnvOf
  <2>2. ASSUME NEW i \in 1 .. n
        PROVE  Binding(S2[i], NextValue(v2, S2, S2[i].sym, i)) = E[i]
    <3>1. PICK y : y = S[i].sym
      OBVIOUS
    <3>2. y \in Sym /\ i \in 0 .. n /\ i \in 1 .. len
      BY <1>2, <3>1
    <3>3. NextValue(v2, S2, y, i) = NextValue(v, S, y, i)
      BY <1>6, <3>2
    <3> QED
      BY <1>5, <2>1, <3>1, <3>2, <3>3
  <2>3. SubSeq(E, 1, n) = [i \in 1 .. n |-> E[i]]
    <3> DEFINE T == {E[i] : i \in 1 .. n}
    <3>1. \A i \in 1 .. n : E[i] \in T
      OBVIOUS
    <3> HIDE DEF T
    <3>2. PICK F : F = SubSeq(E, 1, n)
      OBVIOUS
    <3>3. F \in Seq(T) /\ Len(F) = n /\ \A i \in 1 .. n : F[i] = E[i]
      BY <1>2, <3>1, <3>2, SubSeqProperties
    <3>4. F \in [1 .. n -> T]
      BY <3>3, LenProperties
    <3>5. F = [i \in 1 .. n |-> F[i]]
      BY <3>4
    <3> QED
      BY <3>2, <3>3, <3>5
  <2> QED
    BY <2>1, <2>2, <2>3
<1> QED
  BY <1>1, <1>4, <1>5, <1>7, <1>8

\* All of them: unbind_to as coro_trampoline calls it.
LEMMA PopAll ==
  ASSUME NEW v \in [Sym -> Val], NEW S \in Seq(Entry)
  PROVE  UnbindTo(v, S, 0) = Under(v, S)
<1>1. 0 \in 0 .. Len(S)
  BY LenProperties
<1> QED
  BY <1>1, UnbindToIs DEF Under

\* The variable is set that the entries of a stack bind, innermost at k, or
\* that none of them binds.
Top(S, x, k) == S[k].sym = x /\ Free(S, x, k, Len(S))

Assigned(v, x, w, v2) == v2 = [v EXCEPT ![x] = w]

LEMMA SetBound ==
  ASSUME NEW v \in [Sym -> Val], NEW S \in Seq(Entry), NEW x \in Plain, NEW w \in Val,
         NEW v2, Assigned(v, x, w, v2),
         NEW k \in 1 .. Len(S), Top(S, x, k)
  PROVE  /\ EnvOf(v2, S) = [EnvOf(v, S) EXCEPT ![k].val = w]
         /\ Under(v2, S) = Under(v, S)
<1>1. PICK n, E, E2 : n = Len(S) /\ E = EnvOf(v, S) /\ E2 = EnvOf(v2, S)
  OBVIOUS
<1>2. /\ n \in Nat /\ n = Len(S) /\ k \in 1 .. n /\ k \in Nat
      /\ \A i \in 1 .. n : S[i].sym \in Sym
  <2>1. Len(S) \in Nat /\ \A i \in 1 .. Len(S) : S[i].sym \in Sym
    BY StackIs
  <2> QED
    BY <1>1, <2>1
<1>3. x \in Sym /\ x \notin Local /\ v2[x] = w /\ \A y \in Sym : y /= x => v2[y] = v[y]
  BY DEF Plain, Assigned
<1>4. ASSUME NEW y \in Sym, NEW i \in 0 .. n, y /= x \/ i < k
      PROVE  NextValue(v2, S, y, i) = NextValue(v, S, y, i)
  <2>1. CASE y /= x
    BY <1>3, <2>1, Agree
  <2>2. CASE y = x
    <3>1. k \in i + 1 .. n /\ i \in Nat
      BY <1>2, <1>4, <2>2
    <3>2. ~Free(S, x, i, n)
      BY <3>1 DEF Free, Top
    <3>3. PICK j \in i + 1 .. n : First(S, x, i, j)
      BY <1>2, <3>1, <3>2, NextCases
    <3>4. NextValue(v2, S, x, i) = S[j].old_value /\ NextValue(v, S, x, i) = S[j].old_value
      BY <1>2, <3>1, <3>3, NextSome
    <3> QED
      BY <2>2, <3>4
  <2> QED
    BY <2>1, <2>2
<1>5. NextValue(v2, S, x, k) = w
  <2>1. Free(S, x, k, n)
    BY <1>1 DEF Top
  <2> QED
    BY <1>2, <1>3, <2>1, NextNone
<1>6. Under(v2, S) = Under(v, S)
  <2>1. 0 \in 0 .. n /\ 0 < k
    BY <1>2
  <2>2. \A y \in Sym : NextValue(v2, S, y, 0) = NextValue(v, S, y, 0)
    BY <1>4, <2>1
  <2> QED
    BY <2>2 DEF Under
<1>7. /\ E = [i \in 1 .. n |-> Binding(S[i], NextValue(v, S, S[i].sym, i))]
      /\ E2 = [i \in 1 .. n |-> Binding(S[i], NextValue(v2, S, S[i].sym, i))]
  BY <1>1 DEF EnvOf
<1>8. ASSUME NEW i \in 1 .. n, i /= k PROVE E2[i] = E[i]
  <2>1. S[i].sym /= x \/ i < k
    <3>1. CASE i < k
      BY <3>1
    <3>2. CASE ~(i < k)
      <4>1. i \in k + 1 .. n
        BY <1>2, <1>8, <3>2
      <4> QED
        BY <1>1, <4>1 DEF Top, Free
    <3> QED
      BY <3>1, <3>2
  <2>2. S[i].sym \in Sym /\ i \in 0 .. n
    BY <1>2
  <2>3. NextValue(v2, S, S[i].sym, i) = NextValue(v, S, S[i].sym, i)
    BY <1>4, <2>1, <2>2
  <2> QED
    BY <1>7, <2>3
<1>9. E2[k] = [E[k] EXCEPT !.val = w]
  <2>1. PICK a : a = NextValue(v, S, x, k)
    OBVIOUS
  <2>2. S[k].sym = x
    BY DEF Top
  <2>3. E[k] = [sym |-> x, val |-> a]
    BY <1>2, <1>3, <1>7, <2>1, <2>2 DEF Binding
  <2>4. E2[k] = [sym |-> x, val |-> w]
    BY <1>2, <1>3, <1>5, <1>7, <2>2 DEF Binding
  <2> QED
    BY <2>3, <2>4
<1>10. E2 = [E EXCEPT ![k] = [E[k] EXCEPT !.val = w]]
  <2>1. E = [i \in 1 .. n |-> E[i]] /\ E2 = [i \in 1 .. n |-> E2[i]]
    BY <1>7
  <2> QED
    BY <1>2, <1>8, <1>9, <2>1
<1> QED
  BY <1>1, <1>6, <1>10

LEMMA SetFree ==
  ASSUME NEW v \in [Sym -> Val], NEW S \in Seq(Entry), NEW x \in Plain, NEW w \in Val,
         NEW v2, Assigned(v, x, w, v2), Free(S, x, 0, Len(S))
  PROVE  /\ EnvOf(v2, S) = EnvOf(v, S)
         /\ Under(v2, S) = [Under(v, S) EXCEPT ![x] = w]
<1>1. PICK n, E, E2 : n = Len(S) /\ E = EnvOf(v, S) /\ E2 = EnvOf(v2, S)
  OBVIOUS
<1>2. /\ n \in Nat /\ n = Len(S) /\ \A i \in 1 .. n : S[i].sym \in Sym
  BY <1>1, StackIs
<1>3. x \in Sym /\ v2[x] = w /\ \A y \in Sym : y /= x => v2[y] = v[y]
  BY DEF Plain, Assigned
<1>4. ASSUME NEW y \in Sym, NEW i \in 0 .. n, y /= x
      PROVE  NextValue(v2, S, y, i) = NextValue(v, S, y, i)
  BY <1>3, <1>4, Agree
<1>5. Under(v2, S) = [Under(v, S) EXCEPT ![x] = w]
  <2>1. NextValue(v2, S, x, 0) = w
    <3>1. Free(S, x, 0, n)
      BY <1>1
    <3> QED
      BY <1>2, <1>3, <3>1, NextNone
  <2>2. \A y \in Sym : y /= x => NextValue(v2, S, y, 0) = NextValue(v, S, y, 0)
    <3>1. 0 \in 0 .. n
      BY <1>2
    <3> QED
      BY <1>4, <3>1
  <2> QED
    BY <1>3, <2>1, <2>2 DEF Under
<1>6. ASSUME NEW i \in 1 .. n
      PROVE  NextValue(v2, S, S[i].sym, i) = NextValue(v, S, S[i].sym, i)
  <2>1. S[i].sym /= x
    <3>1. i \in 0 + 1 .. Len(S)
      BY <1>2
    <3> QED
      BY <3>1 DEF Free
  <2>2. S[i].sym \in Sym /\ i \in 0 .. n
    BY <1>2
  <2> QED
    BY <1>4, <2>1, <2>2
<1>7. EnvOf(v2, S) = EnvOf(v, S)
  BY <1>1, <1>6 DEF EnvOf
<1> QED
  BY <1>5, <1>7

-----------------------------------------------------------------------------
(***************************************************************************)
(* What each operation does to the deep bindings.                          *)
(***************************************************************************)
\* sp2 is sp with S2 for the stack of thread t.
Replaced(sp, t, S2, sp2) ==
  /\ sp2 \in [Thread -> Seq(Entry)] /\ sp2[t] = S2
  /\ \A u \in Thread : u /= t => sp2[u] = sp[u]

LEMMA ReplacedIs ==
  ASSUME NEW sp \in [Thread -> Seq(Entry)], NEW t \in Thread, NEW S2 \in Seq(Entry)
  PROVE  Replaced(sp, t, S2, [sp EXCEPT ![t] = S2])
BY DEF Replaced

\* As long as what lies under the stack of the running thread is the same, only
\* the bindings of that thread change.
Steady(v, sp, r, v2, S2, sp2) ==
  /\ Typed(v, sp, r) /\ Replaced(sp, r, S2, sp2)
  /\ Under(v2, S2) = Under(v, sp[r])

LEMMA BaseFrame ==
  ASSUME NEW v, NEW sp, NEW r, NEW v2, NEW S2, NEW sp2, Steady(v, sp, r, v2, S2, sp2)
  PROVE  /\ r \in Thread /\ Main \in Thread /\ sp2[r] = S2
         /\ r /= Main => Base(v2, sp2, r) = Base(v, sp, r) /\ sp2[Main] = sp[Main]
<1>1. r \in Thread /\ Main \in Thread /\ sp2[r] = S2
  BY DEF Steady, Typed, Replaced, Thread
<1>2. r /= Main => Base(v2, sp2, r) = Base(v, sp, r) /\ sp2[Main] = sp[Main]
  BY <1>1 DEF Base, Replaced, Steady
<1> QED
  BY <1>1, <1>2

LEMMA GlobalFrame ==
  ASSUME NEW v, NEW sp, NEW r, NEW v2, NEW S2, NEW sp2, Steady(v, sp, r, v2, S2, sp2)
  PROVE  GlobalFor(v2, sp2, r) = GlobalFor(v, sp, r)
<1>1. CASE r /= Main
  BY <1>1, BaseFrame DEF GlobalFor
<1>2. CASE r = Main
  <2>1. \A x \in Sym : Under(v2, S2)[x] = Under(v, sp[r])[x]
    BY DEF Steady
  <2>2. \A x \in Sym : NextValue(v2, sp2[Main], x, 0) = NextValue(v, sp[Main], x, 0)
    <3>1. sp2[Main] = S2
      BY <1>2, BaseFrame
    <3> QED
      BY <1>2, <2>1, <3>1 DEF Under
  <2>3. \A x \in Plain : NextValue(v2, sp2[Main], x, 0) = NextValue(v, sp[Main], x, 0)
    BY <2>2 DEF Plain
  <2> QED
    BY <1>2, <2>3 DEF GlobalFor, Base
<1> QED
  BY <1>1, <1>2

LEMMA EnvFrame ==
  ASSUME NEW v, NEW sp, NEW r, NEW v2, NEW S2, NEW sp2, Steady(v, sp, r, v2, S2, sp2)
  PROVE  EnvFor(v2, sp2, r) = [EnvFor(v, sp, r) EXCEPT ![r] = EnvOf(v2, S2)]
<1>1. /\ r \in Thread /\ Main \in Thread /\ sp2[r] = S2
      /\ r /= Main => Base(v2, sp2, r) = Base(v, sp, r)
  BY BaseFrame
<1>2. PICK E, E2 : E = EnvFor(v, sp, r) /\ E2 = EnvFor(v2, sp2, r)
  OBVIOUS
<1>3. E2[r] = EnvOf(v2, S2)
  BY <1>1, <1>2 DEF EnvFor
<1>4. ASSUME NEW t \in Thread, t /= r PROVE E2[t] = E[t]
  <2>1. sp2[t] = sp[t]
    BY <1>4 DEF Steady, Replaced
  <2>2. t = Main => Base(v2, sp2, r) = Base(v, sp, r)
    BY <1>1, <1>4
  <2>3. /\ E[t] = IF t = Main THEN EnvOf(Base(v, sp, r), sp[t]) ELSE Stored(sp[t])
        /\ E2[t] = IF t = Main THEN EnvOf(Base(v2, sp2, r), sp2[t]) ELSE Stored(sp2[t])
    BY <1>2, <1>4 DEF EnvFor
  <2> QED
    BY <2>1, <2>2, <2>3
<1>5. E2 = [E EXCEPT ![r] = EnvOf(v2, S2)]
  <2>1. E = [t \in Thread |-> E[t]] /\ E2 = [t \in Thread |-> E2[t]]
    BY <1>2 DEF EnvFor
  <2> QED
    BY <1>1, <1>3, <1>4, <2>1
<1> QED
  BY <1>2, <1>5

LEMMA EnvTop ==
  ASSUME NEW v, NEW sp, NEW r, Typed(v, sp, r)
  PROVE  /\ EnvFor(v, sp, r)[r] = EnvOf(v, sp[r])
         /\ Len(EnvFor(v, sp, r)[r]) = Len(sp[r]) /\ Len(sp[r]) \in Nat
<1>1. r \in Thread /\ sp[r] \in Seq(Entry)
  BY DEF Typed
<1>2. EnvFor(v, sp, r)[r] = EnvOf(v, sp[r])
  BY <1>1 DEF EnvFor
<1>3. Len(sp[r]) \in Nat
  BY <1>1, LenProperties
<1>4. Len(EnvOf(v, sp[r])) = Len(sp[r])
  BY <1>3 DEF EnvOf
<1> QED
  BY <1>2, <1>3, <1>4

\* Control passes from coroutine c to the main thread, or the other way: what
\* lies under c is what the cells are for the main thread, as far as plain
\* variables go.
Switched(v, sp, c, v2, S2, sp2) ==
  /\ Typed(v, sp, c) /\ Replaced(sp, c, S2, sp2)
  /\ \A x \in Plain : v2[x] = Under(v, sp[c])[x]

LEMMA Switch ==
  ASSUME NEW v, NEW sp, NEW c \in Coro, NEW v2, NEW S2, NEW sp2,
         Switched(v, sp, c, v2, S2, sp2)
  PROVE  /\ EnvFor(v2, sp2, Main) = [EnvFor(v, sp, c) EXCEPT ![c] = Stored(S2)]
         /\ GlobalFor(v2, sp2, Main) = GlobalFor(v, sp, c)
<1>1. /\ c \in Thread /\ Main \in Thread /\ c /= Main /\ sp2[c] = S2
      /\ sp2[Main] = sp[Main] /\ sp[Main] \in Seq(Entry)
  BY MainAssumption DEF Switched, Typed, Replaced, Thread
<1>2. PICK M, u : M = sp[Main] /\ u = Under(v, sp[c])
  OBVIOUS
<1>3. Base(v2, sp2, Main) = v2 /\ Base(v, sp, c) = u
  BY <1>1, <1>2 DEF Base
<1>4. \A x \in Plain : v2[x] = u[x]
  BY <1>2 DEF Switched
<1>5. GlobalFor(v2, sp2, Main) = GlobalFor(v, sp, c)
  <2>1. \A x \in Plain : NextValue(v2, M, x, 0) = NextValue(u, M, x, 0)
    BY <1>4, Agree
  <2> QED
    BY <1>1, <1>2, <1>3, <2>1 DEF GlobalFor
<1>6. PICK E, E2 : E = EnvFor(v, sp, c) /\ E2 = EnvFor(v2, sp2, Main)
  OBVIOUS
<1>7. ASSUME NEW t \in Thread
      PROVE  /\ t = c => E2[t] = Stored(S2)
             /\ t /= c => E2[t] = E[t]
  <2>1. /\ E[t] = IF t = c THEN EnvOf(v, sp[t])
                  ELSE IF t = Main THEN EnvOf(u, sp[t]) ELSE Stored(sp[t])
        /\ E2[t] = IF t = Main THEN EnvOf(v2, sp2[t]) ELSE Stored(sp2[t])
    BY <1>3, <1>6 DEF EnvFor
  <2>2. EnvOf(v2, M) = EnvOf(u, M)
    BY <1>1, <1>2, <1>4, EnvAgree
  <2>3. t /= c => sp2[t] = sp[t]
    BY DEF Switched, Replaced
  <2> QED
    BY <1>1, <1>2, <2>1, <2>2, <2>3
<1>8. E2 = [E EXCEPT ![c] = Stored(S2)]
  <2>1. E = [t \in Thread |-> E[t]] /\ E2 = [t \in Thread |-> E2[t]]
    BY <1>6 DEF EnvFor
  <2> QED
    BY <1>1, <1>7, <2>1
<1> QED
  BY <1>5, <1>6, <1>8

-----------------------------------------------------------------------------
(***************************************************************************)
(* Type correctness.                                                       *)
(***************************************************************************)
LEMMA InitType == Init => TypeOK
<1> SUFFICES ASSUME Init PROVE TypeOK
  OBVIOUS
<1>1. << >> \in Seq(Entry)
  OBVIOUS
<1>2. specpdl \in [Thread -> Seq(Entry)] /\ \A c \in Coro : specpdl[c] = << >>
  BY <1>1 DEF Init, Thread
<1>3. inherits \in [Coro -> UNION {[S -> Val] : S \in SUBSET Sym}]
  <2>1. << >> \in [{} -> Val]
    OBVIOUS
  <2>2. << >> \in UNION {[S -> Val] : S \in SUBSET Sym}
    BY <2>1
  <2> QED
    BY <2>2 DEF Init
<1> QED
  BY <1>2, <1>3, MainAssumption DEF Init, TypeOK, Thread

Inheritance == UNION {[S -> Val] : S \in SUBSET Sym}

LEMMA ForgetType ==
  ASSUME inherits \in [Coro -> Inheritance], NEW x, Forget(x)
  PROVE  inherits' \in [Coro -> Inheritance]
<1>1. ASSUME NEW c \in Coro
      PROVE  [y \in DOMAIN inherits[c] \ {x} |-> inherits[c][y]] \in Inheritance
  <2>1. PICK S \in SUBSET Sym : inherits[c] \in [S -> Val]
    BY DEF Inheritance
  <2>2. [y \in S \ {x} |-> inherits[c][y]] \in [S \ {x} -> Val] /\ S \ {x} \in SUBSET Sym
    BY <2>1
  <2> QED
    BY <2>1, <2>2 DEF Inheritance
<1> QED
  BY <1>1 DEF Forget

LEMMA Types ==
  ASSUME TypeOK
  PROVE  /\ Typed(value, specpdl, running) /\ inherits \in [Coro -> Inheritance]
         /\ Main \in Thread /\ Main \notin Coro /\ Coro \subseteq Thread
         /\ specpdl[running] \in Seq(Entry) /\ Len(specpdl[running]) \in Nat
<1>1. /\ Typed(value, specpdl, running) /\ inherits \in [Coro -> Inheritance]
      /\ Main \in Thread /\ Main \notin Coro /\ Coro \subseteq Thread
      /\ specpdl[running] \in Seq(Entry)
  BY MainAssumption DEF TypeOK, Typed, Inheritance, Thread
<1> QED
  BY <1>1, LenProperties

LEMMA specbindType ==
  ASSUME TypeOK, NEW x \in Sym, NEW v \in Val, specbind(x, v)
  PROVE  TypeOK'
<1>1. PICK e : e = [sym |-> x, old_value |-> value[x]]
  OBVIOUS
<1>2. e \in Entry
  BY <1>1, Types DEF Entry, Typed
<1>3. Append(specpdl[running], e) \in Seq(Entry)
  BY <1>2, Types
<1>4. specpdl' = [specpdl EXCEPT ![running] = Append(specpdl[running], e)]
  BY <1>1 DEF specbind
<1>5. specpdl' \in [Thread -> Seq(Entry)]
  BY <1>3, <1>4 DEF TypeOK
<1>6. value' \in [Sym -> Val]
  BY DEF specbind, TypeOK
<1>7. moved' \in [Coro -> BOOLEAN]
  BY DEF specbind, Reserve, TypeOK
<1>8. inherits' \in [Coro -> Inheritance]
  BY Types, ForgetType DEF specbind
<1>9. \A c \in Coro : state[c] \in {"unborn", "dead"} => specpdl'[c] = << >>
  <2>1. \A c \in Coro : state[c] \in {"unborn", "dead"} => c /= running
    BY DEF TypeOK
  <2> QED
    BY <1>4, <2>1, Types DEF TypeOK
<1> QED
  BY <1>5, <1>6, <1>7, <1>8, <1>9 DEF TypeOK, specbind, Inheritance

LEMMA unbindType ==
  ASSUME TypeOK, NEW n \in 0 .. MaxDepth, unbind_to(n)
  PROVE  TypeOK'
<1>1. PICK S2, S : S2 = SubSeq(specpdl[running], 1, n) /\ S = specpdl[running]
  OBVIOUS
<1>2. n \in 0 .. Len(S) /\ S \in Seq(Entry) /\ value \in [Sym -> Val]
  BY <1>1, Types, BoundAssumption DEF unbind_to, Typed
<1>3. value' \in [Sym -> Val] /\ S2 \in Seq(Entry)
  <2>1. Popped(value, S, n, value', S2)
    BY <1>1 DEF Popped, unbind_to
  <2> QED
    BY <1>2, <2>1, Pop
<1>4. specpdl' = [specpdl EXCEPT ![running] = S2]
  BY <1>1 DEF unbind_to
<1>5. specpdl' \in [Thread -> Seq(Entry)]
  BY <1>3, <1>4 DEF TypeOK
<1>6. \A c \in Coro : state[c] \in {"unborn", "dead"} => specpdl'[c] = << >>
  <2>1. \A c \in Coro : state[c] \in {"unborn", "dead"} => c /= running
    BY DEF TypeOK
  <2> QED
    BY <1>4, <2>1, Types DEF TypeOK
<1> QED
  BY <1>3, <1>5, <1>6 DEF TypeOK, unbind_to

LEMMA FsetType ==
  ASSUME TypeOK, NEW x \in Sym, NEW v \in Val, Fset(x, v)
  PROVE  TypeOK'
<1>1. value' \in [Sym -> Val]
  BY DEF Fset, TypeOK
<1>2. inherits' \in [Coro -> Inheritance]
  BY Types, ForgetType DEF Fset
<1> QED
  BY <1>1, <1>2 DEF TypeOK, Fset, Inheritance

LEMMA spawnType ==
  ASSUME TypeOK, NEW c \in Coro, coro_spawn(c)
  PROVE  TypeOK'
<1>1. PICK S, f : S = BoundBy(running) /\ f = [x \in S |-> value[x]]
  OBVIOUS
<1>2. S \subseteq Sym
  <2>1. PICK T : T = specpdl[running]
    OBVIOUS
  <2>2. T \in Seq(Entry) /\ DOMAIN T = 1 .. Len(T)
    BY <2>1, Types, LenProperties
  <2>3. \A i \in DOMAIN T : T[i].sym \in Sym
    BY <2>2, StackIs
  <2> QED
    BY <1>1, <2>1, <2>3 DEF BoundBy
<1>3. f \in Inheritance
  <2>1. f \in [S -> Val]
    BY <1>1, <1>2 DEF TypeOK
  <2> QED
    BY <1>2, <2>1 DEF Inheritance
<1>4. inherits' \in [Coro -> Inheritance]
  <2>1. inherits' = [inherits EXCEPT ![c] = f]
    BY <1>1 DEF coro_spawn
  <2> QED
    BY <1>3, <2>1, Types
<1>5. /\ state' \in [Coro -> {"unborn", "suspended", "running", "dead"}]
      /\ \A d \in Coro : /\ state'[d] = "running" <=> state[d] = "running"
                         /\ state'[d] \in {"unborn", "dead"} => state[d] = state'[d]
  BY DEF TypeOK, coro_spawn
<1> QED
  BY <1>4, <1>5 DEF TypeOK, coro_spawn, Inheritance

LEMMA switchType ==
  ASSUME TypeOK, NEW c \in Coro, SwitchIn(c)
  PROVE  TypeOK'
<1>1. PICK R : R = specpdl_rebind_range(value, specpdl[c])
  OBVIOUS
<1>2. /\ value' = R.cells /\ specpdl' = [specpdl EXCEPT ![c] = R.stack]
      /\ state' = [state EXCEPT ![c] = "running"] /\ running = Main /\ running' = c
      /\ inherits' = [inherits EXCEPT ![c] = << >>]
      /\ UNCHANGED <<moved, broken>>
  BY <1>1 DEF SwitchIn
<1>3. value \in [Sym -> Val] /\ c \in Thread /\ specpdl[c] \in Seq(Entry)
  BY Types DEF Typed
<1>4. R.cells \in [Sym -> Val] /\ R.stack \in Seq(Entry)
  BY <1>1, <1>3, RebindFinds
<1>5. specpdl' \in [Thread -> Seq(Entry)]
  BY <1>2, <1>4 DEF TypeOK
<1>6. inherits' \in [Coro -> Inheritance]
  <2>1. << >> \in [{} -> Val]
    OBVIOUS
  <2>2. << >> \in Inheritance
    BY <2>1 DEF Inheritance
  <2> QED
    BY <1>2, <2>2, Types
<1>7. \A d \in Coro : d /= c => state[d] /= "running" /\ state'[d] = state[d]
                               /\ specpdl'[d] = specpdl[d]
  BY <1>2, Types DEF TypeOK
<1>8. state'[c] = "running" /\ state' \in [Coro -> {"unborn", "suspended", "running", "dead"}]
  BY <1>2 DEF TypeOK
<1>9. \A d \in Coro : /\ state'[d] = "running" <=> running' = d
                      /\ state'[d] \in {"unborn", "dead"} => specpdl'[d] = << >>
  BY <1>2, <1>7, <1>8 DEF TypeOK
<1> QED
  BY <1>2, <1>3, <1>4, <1>5, <1>6, <1>8, <1>9 DEF TypeOK, Inheritance

\* What coro_yield leaves: in the cells, the values that lay under the
\* coroutine; in its entries, their own values.
LEMMA UnwindFinds ==
  ASSUME NEW v \in [Sym -> Val], NEW S \in Seq(Entry), NEW R,
         R = specpdl_unwind_range(v, S)
  PROVE  /\ R.cells \in [Sym -> Val] /\ R.stack \in Seq(Entry)
         /\ \A x \in Plain : R.cells[x] = Under(v, S)[x]
         /\ Stored(R.stack) = EnvOf(v, S)
<1>1. PICK c, T, n : c = R.cells /\ T = R.stack /\ n = Len(S)
  OBVIOUS
<1>2. R = Unwound(v, S, 0)
  BY UnwindIs
<1>3. /\ c = [x \in Sym |-> IF x \in Local THEN v[x] ELSE NextValue(v, S, x, 0)]
      /\ T = [i \in 1 .. n |->
                IF i <= 0 \/ S[i].sym \in Local THEN S[i]
                ELSE [sym |-> S[i].sym,
                      old_value |-> NextValue(v, S, S[i].sym, i)]]
  BY <1>1, <1>2 DEF Unwound
<1>4. /\ n \in Nat
      /\ \A i \in 1 .. n : S[i] \in Entry /\ S[i].sym \in Sym
  <2>1. Len(S) \in Nat /\ \A i \in 1 .. Len(S) : S[i] \in Entry /\ S[i].sym \in Sym
    BY StackIs
  <2> QED
    BY <1>1, <2>1
<1>5. c \in [Sym -> Val]
  <2>1. \A x \in Sym : NextValue(v, S, x, 0) \in Val
    BY NextIsVal
  <2> QED
    BY <1>3, <2>1
<1>6. ASSUME NEW i \in 1 .. n
      PROVE  /\ T[i] \in Entry
             /\ Binding(T[i], T[i].old_value) = Binding(S[i], NextValue(v, S, S[i].sym, i))
  <2>1. PICK x, w : x = S[i].sym /\ w = NextValue(v, S, x, i)
    OBVIOUS
  <2>2. x \in Sym /\ i \in Nat /\ ~(i <= 0)
    BY <1>4, <2>1
  <2>3. w \in Val
    BY <2>1, <2>2, NextIsVal
  <2>4. CASE x \in Local
    <3>1. T[i] = S[i]
      BY <1>3, <2>1, <2>4
    <3> QED
      BY <1>4, <2>1, <2>4, <3>1 DEF Binding
  <2>5. CASE x \notin Local
    <3>1. T[i] = [sym |-> x, old_value |-> w]
      BY <1>3, <2>1, <2>2, <2>5
    <3>2. T[i] \in Entry
      BY <2>2, <2>3, <3>1 DEF Entry
    <3>3. T[i].sym = x /\ T[i].old_value = w
      BY <3>1
    <3> QED
      BY <2>1, <3>2, <3>3 DEF Binding
  <2> QED
    BY <2>4, <2>5
<1>7. T \in Seq(Entry) /\ Len(T) = n
  <2>1. T \in [1 .. n -> Entry]
    BY <1>3, <1>6
  <2> QED
    BY <1>4, <2>1
<1>8. Stored(T) = EnvOf(v, S)
  BY <1>1, <1>6, <1>7 DEF Stored, EnvOf
<1>9. \A x \in Plain : c[x] = Under(v, S)[x]
  BY <1>3 DEF Under, Plain
<1> QED
  BY <1>1, <1>5, <1>7, <1>8, <1>9

LEMMA yieldType ==
  ASSUME TypeOK, NEW c \in Coro, coro_yield(c)
  PROVE  TypeOK'
<1>1. PICK R : R = specpdl_unwind_range(value, specpdl[c])
  OBVIOUS
<1>2. /\ value' = R.cells /\ specpdl' = [specpdl EXCEPT ![c] = R.stack]
      /\ state' = [state EXCEPT ![c] = "suspended"] /\ running = c /\ running' = Main
      /\ inherits' = [inherits EXCEPT ![c] = << >>]
      /\ UNCHANGED <<moved, broken>>
  BY <1>1 DEF coro_yield
<1>3. value \in [Sym -> Val] /\ Main \in Thread /\ Main \notin Coro /\ specpdl[c] \in Seq(Entry)
  BY Types DEF Typed, Thread
<1>4. R.cells \in [Sym -> Val] /\ R.stack \in Seq(Entry)
  BY <1>1, <1>3, UnwindFinds
<1>5. specpdl' \in [Thread -> Seq(Entry)]
  BY <1>2, <1>4 DEF TypeOK
<1>6. inherits' \in [Coro -> Inheritance]
  <2>1. << >> \in [{} -> Val]
    OBVIOUS
  <2>2. << >> \in Inheritance
    BY <2>1 DEF Inheritance
  <2> QED
    BY <1>2, <2>2, Types
<1>7. \A d \in Coro : d /= c => state[d] /= "running" /\ state'[d] = state[d]
                               /\ specpdl'[d] = specpdl[d]
  BY <1>2, Types DEF TypeOK
<1>8. state'[c] = "suspended" /\ state' \in [Coro -> {"unborn", "suspended", "running", "dead"}]
  BY <1>2 DEF TypeOK
<1>9. \A d \in Coro : /\ state'[d] = "running" <=> running' = d
                      /\ state'[d] \in {"unborn", "dead"} => specpdl'[d] = << >>
  BY <1>2, <1>3, <1>7, <1>8 DEF TypeOK
<1> QED
  BY <1>2, <1>3, <1>4, <1>5, <1>6, <1>8, <1>9 DEF TypeOK, Inheritance

LEMMA trampolineType ==
  ASSUME TypeOK, NEW c \in Coro, coro_trampoline(c)
  PROVE  TypeOK'
<1>1. PICK S, v : S = specpdl[c] /\ v = UnbindTo(value, S, 0)
  OBVIOUS
<1>2. /\ value' = v /\ specpdl' = [specpdl EXCEPT ![c] = << >>]
      /\ state' = [state EXCEPT ![c] = "dead"] /\ running = c /\ running' = Main
      /\ UNCHANGED <<moved, broken, inherits>>
  BY <1>1 DEF coro_trampoline
<1>3. value \in [Sym -> Val] /\ Main \in Thread /\ Main \notin Coro /\ S \in Seq(Entry)
  BY <1>1, Types DEF Typed, Thread
<1>4. v \in [Sym -> Val]
  <2>1. v = Under(value, S)
    BY <1>1, <1>3, PopAll
  <2> QED
    BY <1>3, <2>1, UnderIs
<1>5. specpdl' \in [Thread -> Seq(Entry)]
  <2>1. << >> \in Seq(Entry)
    OBVIOUS
  <2> QED
    BY <1>2, <2>1 DEF TypeOK
<1>6. \A d \in Coro : d /= c => state[d] /= "running" /\ state'[d] = state[d]
                               /\ specpdl'[d] = specpdl[d]
  BY <1>2, Types DEF TypeOK
<1>7. /\ state'[c] = "dead" /\ specpdl'[c] = << >>
      /\ state' \in [Coro -> {"unborn", "suspended", "running", "dead"}]
  BY <1>2, Types DEF TypeOK
<1>8. \A d \in Coro : /\ state'[d] = "running" <=> running' = d
                      /\ state'[d] \in {"unborn", "dead"} => specpdl'[d] = << >>
  BY <1>2, <1>3, <1>6, <1>7 DEF TypeOK
<1> QED
  BY <1>2, <1>3, <1>4, <1>5, <1>7, <1>8 DEF TypeOK

LEMMA NextType == TypeOK /\ [Next]_vars => TypeOK'
<1> SUFFICES ASSUME TypeOK, [Next]_vars PROVE TypeOK'
  OBVIOUS
<1>1. ASSUME NEW x \in Sym, NEW v \in Val, specbind(x, v) \/ Fset(x, v)
      PROVE  TypeOK'
  BY <1>1, specbindType, FsetType
<1>2. ASSUME NEW n \in 0 .. MaxDepth, unbind_to(n) PROVE TypeOK'
  BY <1>2, unbindType
<1>3. ASSUME NEW c \in Coro, coro_spawn(c) PROVE TypeOK'
  BY <1>3, spawnType
<1>4. ASSUME NEW c \in Coro, SwitchIn(c) PROVE TypeOK'
  BY <1>4, switchType
<1>5. ASSUME NEW c \in Coro, coro_yield(c) PROVE TypeOK'
  BY <1>5, yieldType
<1>6. ASSUME NEW c \in Coro, YieldMoved(c) PROVE TypeOK'
  BY <1>6 DEF YieldMoved, TypeOK
<1>7. ASSUME NEW c \in Coro, coro_trampoline(c) PROVE TypeOK'
  BY <1>7, trampolineType
<1>8. CASE UNCHANGED vars
  BY <1>8 DEF vars, TypeOK
<1> QED
  BY <1>1, <1>2, <1>3, <1>4, <1>5, <1>6, <1>7, <1>8 DEF Next

\* current_coro is the one coroutine that is RUNNING; none has bindings before
\* async_scheduler_tick switches it in or after coro_trampoline ends it; the
\* swaps and unbind_to leave values in the value cells and on every specpdl.
THEOREM TypeCorrect == Spec => []TypeOK
<1>1. Init => TypeOK
  BY InitType
<1>2. TypeOK /\ [Next]_vars => TypeOK'
  BY NextType
<1> QED
  BY <1>1, <1>2, PTL DEF Spec

-----------------------------------------------------------------------------
(***************************************************************************)
(* Every step maps to a step of DeepBinding.                               *)
(***************************************************************************)
LEMMA EnvNext == Typed(value, specpdl, running)' =>
    /\ DeepEnv' = EnvFor(value', specpdl', running')
    /\ DeepGlobal' = GlobalFor(value', specpdl', running')
<1>1. (Typed(value, specpdl, running) =>
         /\ DeepEnv = EnvFor(value, specpdl, running)
         /\ DeepGlobal = GlobalFor(value, specpdl, running))'
  BY EnvIs, PTL
<1> QED
  BY <1>1

LEMMA DeepInit == Init => DB!Init
<1> SUFFICES ASSUME Init PROVE DB!Init
  OBVIOUS
<1>1. Typed(value, specpdl, running) /\ running = Main
  BY InitType, Types DEF Init
<1>2. /\ DeepEnv = EnvFor(value, specpdl, running)
      /\ DeepGlobal = GlobalFor(value, specpdl, running)
  BY <1>1, EnvIs
<1>3. \A t \in Thread : specpdl[t] = << >>
  BY DEF Init
<1>4. \A t \in Thread : EnvFor(value, specpdl, running)[t] = << >>
  BY <1>3 DEF EnvFor, EnvOf, Stored
<1>5. DeepEnv = [t \in Thread |-> << >>]
  BY <1>2, <1>4 DEF EnvFor
<1>6. DeepGlobal \in [Plain -> Val]
  <2>1. \A x \in Plain : NextValue(value, specpdl[Main], x, 0) \in Val
    <3>1. Main \in Thread /\ specpdl[Main] \in Seq(Entry) /\ value \in [Sym -> Val]
      BY <1>1 DEF Typed, Thread
    <3> QED
      BY <3>1, NextIsVal DEF Plain
  <2> QED
    BY <1>1, <1>2, <2>1 DEF GlobalFor, Base
<1> QED
  BY <1>1, <1>5, <1>6 DEF DB!Init, DB!Thread, Thread

\* The state of DeepBinding before a step and after it.
Before(E, G) == TypeOK /\ E = DeepEnv /\ G = DeepGlobal /\ E = EnvFor(value, specpdl, running)
                /\ G = GlobalFor(value, specpdl, running) /\ DOMAIN E = Thread

After(E, G) == /\ E = EnvFor(value', specpdl', running')
               /\ G = GlobalFor(value', specpdl', running')

LEMMA specbindMaps ==
  ASSUME NEW E, NEW G, Before(E, G), NEW E2, NEW G2, After(E2, G2),
         NEW x \in Sym, NEW w \in Val, specbind(x, w)
  PROVE  /\ E2 = [E EXCEPT ![running] = Append(E[running], Binding([sym |-> x], w))]
         /\ G2 = G /\ running' = running
<1>1. PICK v, S, S2 : /\ v = value /\ S = specpdl[running]
                      /\ S2 = Append(S, [sym |-> x, old_value |-> v[x]])
  OBVIOUS
<1>2. Typed(value, specpdl, running) /\ running \in Thread
  BY Types DEF Before, Typed
<1>3. v \in [Sym -> Val] /\ S \in Seq(Entry) /\ specpdl \in [Thread -> Seq(Entry)]
  BY <1>1, <1>2 DEF Typed
<1>4. Pushed(v, S, x, w, value', S2)
  BY <1>1 DEF specbind, Pushed
<1>5. /\ value' \in [Sym -> Val] /\ S2 \in Seq(Entry)
      /\ EnvOf(value', S2) = Append(EnvOf(v, S), Binding([sym |-> x], w))
      /\ Under(value', S2) = Under(v, S)
  BY <1>3, <1>4, Push
<1>6. Replaced(specpdl, running, S2, specpdl') /\ running' = running
  <2>1. specpdl' = [specpdl EXCEPT ![running] = S2] /\ running' = running
    BY <1>1 DEF specbind
  <2> QED
    BY <1>2, <1>3, <1>5, <2>1, ReplacedIs
<1>7. /\ EnvFor(value', specpdl', running)
           = [EnvFor(value, specpdl, running) EXCEPT ![running] = EnvOf(value', S2)]
      /\ GlobalFor(value', specpdl', running) = GlobalFor(value, specpdl, running)
  <2>1. PICK sp, sp2, v2, r : sp = specpdl /\ sp2 = specpdl' /\ v2 = value' /\ r = running
    OBVIOUS
  <2>2. Typed(v, sp, r)
    BY <1>1, <1>2, <2>1
  <2>3. Replaced(sp, r, S2, sp2)
    BY <1>6, <2>1
  <2>4. Steady(v, sp, r, v2, S2, sp2)
    BY <1>1, <1>5, <2>1, <2>2, <2>3 DEF Steady
  <2>5. /\ EnvFor(v2, sp2, r) = [EnvFor(v, sp, r) EXCEPT ![r] = EnvOf(v2, S2)]
        /\ GlobalFor(v2, sp2, r) = GlobalFor(v, sp, r)
    <3>1. EnvFor(v2, sp2, r) = [EnvFor(v, sp, r) EXCEPT ![r] = EnvOf(v2, S2)]
      BY <2>4, EnvFrame
    <3>2. GlobalFor(v2, sp2, r) = GlobalFor(v, sp, r)
      BY <2>4, GlobalFrame
    <3> QED
      BY <3>1, <3>2
  <2> QED
    BY <1>1, <2>1, <2>5
<1>8. E[running] = EnvOf(v, S)
  BY <1>1, <1>2, EnvTop DEF Before
<1> QED
  BY <1>5, <1>6, <1>7, <1>8 DEF Before, After

LEMMA unbindMaps ==
  ASSUME NEW E, NEW G, Before(E, G), NEW E2, NEW G2, After(E2, G2),
         NEW n \in 0 .. MaxDepth, unbind_to(n)
  PROVE  /\ n \in 0 .. Len(E[running])
         /\ E2 = [E EXCEPT ![running] = SubSeq(E[running], 1, n)]
         /\ G2 = G /\ running' = running
<1>1. PICK v, S, S2 : v = value /\ S = specpdl[running] /\ S2 = SubSeq(S, 1, n)
  OBVIOUS
<1>2. Typed(value, specpdl, running) /\ running \in Thread
  BY Types DEF Before, Typed
<1>3. v \in [Sym -> Val] /\ S \in Seq(Entry) /\ specpdl \in [Thread -> Seq(Entry)]
  BY <1>1, <1>2 DEF Typed
<1>4. E[running] = EnvOf(v, S) /\ Len(E[running]) = Len(S) /\ Len(S) \in Nat
  BY <1>1, <1>2, EnvTop DEF Before
<1>5. n \in 0 .. Len(S) /\ Popped(v, S, n, value', S2)
  BY <1>1, <1>4, BoundAssumption DEF unbind_to, Popped
<1>6. /\ value' \in [Sym -> Val] /\ S2 \in Seq(Entry)
      /\ EnvOf(value', S2) = SubSeq(EnvOf(v, S), 1, n)
      /\ Under(value', S2) = Under(v, S)
  BY <1>3, <1>5, Pop
<1>7. Replaced(specpdl, running, S2, specpdl') /\ running' = running
  <2>1. specpdl' = [specpdl EXCEPT ![running] = S2] /\ running' = running
    BY <1>1 DEF unbind_to
  <2> QED
    BY <1>2, <1>3, <1>6, <2>1, ReplacedIs
<1>8. /\ EnvFor(value', specpdl', running)
           = [EnvFor(value, specpdl, running) EXCEPT ![running] = EnvOf(value', S2)]
      /\ GlobalFor(value', specpdl', running) = GlobalFor(value, specpdl, running)
  <2>1. PICK sp, sp2, v2, r : sp = specpdl /\ sp2 = specpdl' /\ v2 = value' /\ r = running
    OBVIOUS
  <2>2. Typed(v, sp, r)
    BY <1>1, <1>2, <2>1
  <2>3. Replaced(sp, r, S2, sp2)
    BY <1>7, <2>1
  <2>4. Steady(v, sp, r, v2, S2, sp2)
    BY <1>1, <1>6, <2>1, <2>2, <2>3 DEF Steady
  <2>5. /\ EnvFor(v2, sp2, r) = [EnvFor(v, sp, r) EXCEPT ![r] = EnvOf(v2, S2)]
        /\ GlobalFor(v2, sp2, r) = GlobalFor(v, sp, r)
    <3>1. EnvFor(v2, sp2, r) = [EnvFor(v, sp, r) EXCEPT ![r] = EnvOf(v2, S2)]
      BY <2>4, EnvFrame
    <3>2. GlobalFor(v2, sp2, r) = GlobalFor(v, sp, r)
      BY <2>4, GlobalFrame
    <3> QED
      BY <3>1, <3>2
  <2> QED
    BY <1>1, <2>1, <2>5
<1> QED
  BY <1>4, <1>5, <1>6, <1>7, <1>8 DEF Before, After

\* A variable with an unwind function is set: no plain variable sees it.
LEMMA SetLocal ==
  ASSUME NEW v, NEW sp, NEW r, Typed(v, sp, r), NEW x \in Local, NEW w, NEW v2,
         Assigned(v, x, w, v2)
  PROVE  EnvFor(v2, sp, r) = EnvFor(v, sp, r) /\ GlobalFor(v2, sp, r) = GlobalFor(v, sp, r)
<1>1. r \in Thread /\ Main \in Thread /\ \A t \in Thread : sp[t] \in Seq(Entry)
  BY DEF Typed, Thread
<1>2. \A y \in Plain : v2[y] = v[y]
  BY DEF Typed, Assigned, Plain
<1>3. PICK b, b2 : b = Base(v, sp, r) /\ b2 = Base(v2, sp, r)
  OBVIOUS
<1>4. \A y \in Plain : b2[y] = b[y]
  <2>1. CASE r = Main
    BY <1>2, <1>3, <2>1 DEF Base
  <2>2. CASE r /= Main
    <3>1. b = Under(v, sp[r]) /\ b2 = Under(v2, sp[r])
      BY <1>3, <2>2 DEF Base
    <3>2. \A y \in Plain : NextValue(v2, sp[r], y, 0) = NextValue(v, sp[r], y, 0)
      BY <1>2, Agree
    <3> QED
      BY <3>1, <3>2 DEF Under, Plain
  <2> QED
    BY <2>1, <2>2
<1>5. ASSUME NEW t \in Thread
      PROVE  EnvOf(v2, sp[t]) = EnvOf(v, sp[t]) /\ EnvOf(b2, sp[t]) = EnvOf(b, sp[t])
  BY <1>1, <1>2, <1>4, EnvAgree
<1>6. EnvFor(v2, sp, r) = EnvFor(v, sp, r)
  BY <1>3, <1>5 DEF EnvFor
<1>7. GlobalFor(v2, sp, r) = GlobalFor(v, sp, r)
  <2>1. \A y \in Plain : NextValue(b2, sp[Main], y, 0) = NextValue(b, sp[Main], y, 0)
    BY <1>4, Agree
  <2> QED
    BY <1>3, <2>1 DEF GlobalFor
<1> QED
  BY <1>6, <1>7

\* The running thread has a binding of its own.
LEMMA SetOwn ==
  ASSUME NEW v, NEW sp, NEW r, Typed(v, sp, r), NEW x \in Plain, NEW w \in Val,
         NEW v2, Assigned(v, x, w, v2), NEW k \in 1 .. Len(sp[r]), Top(sp[r], x, k)
  PROVE  /\ EnvFor(v2, sp, r)
              = [EnvFor(v, sp, r) EXCEPT ![r] = [EnvOf(v, sp[r]) EXCEPT ![k].val = w]]
         /\ GlobalFor(v2, sp, r) = GlobalFor(v, sp, r)
<1>1. PICK S : S = sp[r]
  OBVIOUS
<1>2. r \in Thread /\ S \in Seq(Entry) /\ v \in [Sym -> Val] /\ x \in Sym
  BY <1>1 DEF Typed, Plain
<1>3. k \in 1 .. Len(S) /\ Top(S, x, k)
  BY <1>1
<1>5. /\ EnvOf(v2, S) = [EnvOf(v, S) EXCEPT ![k].val = w]
      /\ Under(v2, S) = Under(v, S)
  BY <1>2, <1>3, SetBound
<1>6. Replaced(sp, r, S, sp)
  BY <1>1 DEF Replaced, Typed
<1>7. Steady(v, sp, r, v2, S, sp)
  BY <1>1, <1>5, <1>6 DEF Steady
<1>8. /\ EnvFor(v2, sp, r) = [EnvFor(v, sp, r) EXCEPT ![r] = EnvOf(v2, S)]
      /\ GlobalFor(v2, sp, r) = GlobalFor(v, sp, r)
  <2>1. EnvFor(v2, sp, r) = [EnvFor(v, sp, r) EXCEPT ![r] = EnvOf(v2, S)]
    BY <1>7, EnvFrame
  <2>2. GlobalFor(v2, sp, r) = GlobalFor(v, sp, r)
    BY <1>7, GlobalFrame
  <2> QED
    BY <2>1, <2>2
<1>9. PICK F, F2 : F = EnvOf(v, S) /\ F2 = EnvOf(v2, S)
  OBVIOUS
<1>10. F2 = [F EXCEPT ![k].val = w]
  BY <1>5, <1>9
<1>11. EnvOf(v, sp[r]) = F
  BY <1>1, <1>9
<1>12. EnvFor(v2, sp, r) = [EnvFor(v, sp, r) EXCEPT ![r] = F2]
  BY <1>8, <1>9
<1> QED
  BY <1>8, <1>10, <1>11, <1>12

\* It has none: the value that lies under its stack is set.
LEMMA SetUnder ==
  ASSUME NEW v, NEW sp, NEW r, Typed(v, sp, r), NEW x \in Plain, NEW w \in Val,
         NEW v2, Assigned(v, x, w, v2), Free(sp[r], x, 0, Len(sp[r])),
         NEW b, b = Base(v, sp, r), NEW b2, b2 = Base(v2, sp, r)
  PROVE  /\ b \in [Sym -> Val] /\ Assigned(b, x, w, b2)
         /\ EnvOf(v2, sp[r]) = EnvOf(v, sp[r])
<1>1. PICK S : S = sp[r]
  OBVIOUS
<1>2. r \in Thread /\ S \in Seq(Entry) /\ v \in [Sym -> Val]
  BY <1>1 DEF Typed
<1>3. Free(S, x, 0, Len(S))
  BY <1>1
<1>4. EnvOf(v2, S) = EnvOf(v, S) /\ Under(v2, S) = [Under(v, S) EXCEPT ![x] = w]
  BY <1>2, <1>3, SetFree
<1>5. CASE r = Main
  <2>1. b = v /\ b2 = v2
    BY <1>5 DEF Base
  <2> QED
    BY <1>1, <1>2, <1>4, <2>1
<1>6. CASE r /= Main
  <2>1. b = Under(v, S) /\ b2 = Under(v2, S)
    BY <1>1, <1>6 DEF Base
  <2>2. Assigned(b, x, w, b2)
    BY <1>4, <2>1 DEF Assigned
  <2>3. b \in [Sym -> Val]
    BY <1>2, <2>1, UnderIs
  <2> QED
    BY <1>1, <1>4, <2>2, <2>3
<1> QED
  BY <1>5, <1>6

\* Main has a binding, and the running coroutine has none.
LEMMA SetMain ==
  ASSUME NEW v, NEW sp, NEW r, Typed(v, sp, r), NEW x \in Plain, NEW w \in Val,
         NEW v2, Assigned(v, x, w, v2), Free(sp[r], x, 0, Len(sp[r])),
         NEW k \in 1 .. Len(sp[Main]), Top(sp[Main], x, k)
  PROVE  /\ EnvFor(v2, sp, r)
              = [EnvFor(v, sp, r) EXCEPT ![Main] = [EnvFor(v, sp, r)[Main] EXCEPT ![k].val = w]]
         /\ GlobalFor(v2, sp, r) = GlobalFor(v, sp, r)
<1>1. PICK M, b, b2 : M = sp[Main] /\ b = Base(v, sp, r) /\ b2 = Base(v2, sp, r)
  OBVIOUS
<1>2. r \in Thread /\ Main \in Thread /\ M \in Seq(Entry)
  BY <1>1 DEF Typed, Thread
<1>3. b = Base(v, sp, r) /\ b2 = Base(v2, sp, r)
  BY <1>1
<1>4. /\ b \in [Sym -> Val] /\ Assigned(b, x, w, b2)
      /\ EnvOf(v2, sp[r]) = EnvOf(v, sp[r])
  BY <1>3, SetUnder
<1>5. k \in 1 .. Len(M) /\ Top(M, x, k)
  BY <1>1
<1>6. /\ EnvOf(b2, M) = [EnvOf(b, M) EXCEPT ![k].val = w]
      /\ Under(b2, M) = Under(b, M)
  BY <1>2, <1>4, <1>5, SetBound
<1>7. r /= Main
  <2>1. ASSUME r = Main PROVE FALSE
    <3>1. k \in 0 + 1 .. Len(sp[r])
      BY <2>1
    <3>2. sp[r][k].sym /= x
      BY <3>1 DEF Free
    <3> QED
      BY <2>1, <3>2 DEF Top
  <2> QED
    BY <2>1
<1>8. PICK E, E2 : E = EnvFor(v, sp, r) /\ E2 = EnvFor(v2, sp, r)
  OBVIOUS
<1>9. /\ E = [t \in Thread |-> IF t = r THEN EnvOf(v, sp[t])
                               ELSE IF t = Main THEN EnvOf(b, sp[t]) ELSE Stored(sp[t])]
      /\ E2 = [t \in Thread |-> IF t = r THEN EnvOf(v2, sp[t])
                                ELSE IF t = Main THEN EnvOf(b2, sp[t]) ELSE Stored(sp[t])]
  BY <1>3, <1>8 DEF EnvFor
<1>10. E[Main] = EnvOf(b, M) /\ E2[Main] = EnvOf(b2, M)
  BY <1>1, <1>2, <1>7, <1>9
<1>11. \A t \in Thread : t /= Main => E2[t] = E[t]
  BY <1>4, <1>9
<1>12. E2 = [E EXCEPT ![Main] = [E[Main] EXCEPT ![k].val = w]]
  <2>1. E = [t \in Thread |-> E[t]] /\ E2 = [t \in Thread |-> E2[t]]
    BY <1>9
  <2>2. E2[Main] = [E[Main] EXCEPT ![k].val = w]
    BY <1>6, <1>10
  <2> QED
    BY <1>2, <1>11, <2>1, <2>2
<1>13. GlobalFor(v2, sp, r) = GlobalFor(v, sp, r)
  <2>1. \A y \in Sym : Under(b2, M)[y] = Under(b, M)[y]
    BY <1>6
  <2>2. \A y \in Plain : NextValue(b2, M, y, 0) = NextValue(b, M, y, 0)
    BY <2>1 DEF Under, Plain
  <2> QED
    BY <1>1, <2>2 DEF GlobalFor
<1> QED
  BY <1>8, <1>12, <1>13

\* No stack in force has a binding.
LEMMA SetGlobal ==
  ASSUME NEW v, NEW sp, NEW r, Typed(v, sp, r), NEW x \in Plain, NEW w \in Val,
         NEW v2, Assigned(v, x, w, v2), Free(sp[r], x, 0, Len(sp[r])),
         Free(sp[Main], x, 0, Len(sp[Main]))
  PROVE  /\ EnvFor(v2, sp, r) = EnvFor(v, sp, r)
         /\ GlobalFor(v2, sp, r) = [GlobalFor(v, sp, r) EXCEPT ![x] = w]
<1>1. PICK M, b, b2 : M = sp[Main] /\ b = Base(v, sp, r) /\ b2 = Base(v2, sp, r)
  OBVIOUS
<1>2. r \in Thread /\ Main \in Thread /\ M \in Seq(Entry)
  BY <1>1 DEF Typed, Thread
<1>3. b = Base(v, sp, r) /\ b2 = Base(v2, sp, r)
  BY <1>1
<1>4. /\ b \in [Sym -> Val] /\ Assigned(b, x, w, b2)
      /\ EnvOf(v2, sp[r]) = EnvOf(v, sp[r])
  BY <1>3, SetUnder
<1>5. Free(M, x, 0, Len(M))
  BY <1>1
<1>6. EnvOf(b2, M) = EnvOf(b, M) /\ Under(b2, M) = [Under(b, M) EXCEPT ![x] = w]
  BY <1>2, <1>4, <1>5, SetFree
<1>7. EnvFor(v2, sp, r) = EnvFor(v, sp, r)
  <2>1. ASSUME NEW t \in Thread
        PROVE  /\ t = r => EnvOf(v2, sp[t]) = EnvOf(v, sp[t])
               /\ t = Main => EnvOf(b2, sp[t]) = EnvOf(b, sp[t])
    BY <1>1, <1>4, <1>6
  <2> QED
    BY <1>3, <2>1 DEF EnvFor
<1>8. GlobalFor(v2, sp, r) = [GlobalFor(v, sp, r) EXCEPT ![x] = w]
  <2>1. \A y \in Sym : Under(b2, M)[y] = IF y = x THEN w ELSE Under(b, M)[y]
    BY <1>6 DEF Under
  <2>2. \A y \in Plain : NextValue(b2, M, y, 0) = IF y = x THEN w ELSE NextValue(b, M, y, 0)
    BY <2>1 DEF Under, Plain
  <2> QED
    BY <1>1, <2>2 DEF GlobalFor
<1> QED
  BY <1>7, <1>8

LEMMA BoundCases ==
  ASSUME NEW S \in Seq(Entry), NEW x
  PROVE  Free(S, x, 0, Len(S)) \/ \E k \in 1 .. Len(S) : Top(S, x, k)
<1>1. PICK n : n = Len(S)
  OBVIOUS
<1>2. n \in Nat
  BY <1>1, LenProperties
<1> DEFINE W == {i \in 0 .. n : Free(S, x, i, n)}
<1>3. W \subseteq Nat /\ n \in W
  BY <1>2 DEF Free
<1>4. PICK k \in W : \A i \in W : k <= i
  <2> HIDE DEF W
  <2> QED
    BY <1>3, LeastNumber
<1>5. k \in 0 .. n /\ Free(S, x, k, n)
  OBVIOUS
<1>6. CASE k = 0
  BY <1>1, <1>5, <1>6
<1>7. CASE k /= 0
  <2>1. k \in 1 .. n /\ k - 1 \in 0 .. n /\ ~(k <= k - 1)
    BY <1>2, <1>5, <1>7
  <2>2. ~Free(S, x, k - 1, n)
    <3>1. k - 1 \notin W
      <4> HIDE DEF W
      <4> QED
        BY <1>4, <2>1
    <3> QED
      BY <2>1, <3>1
  <2>3. PICK j \in k - 1 + 1 .. n : S[j].sym = x
    BY <2>2 DEF Free
  <2>4. j = k \/ j \in k + 1 .. n
    BY <1>2, <2>1
  <2>5. S[k].sym = x
    BY <1>5, <2>3, <2>4 DEF Free
  <2> QED
    BY <1>1, <1>5, <2>1, <2>5 DEF Top
<1> QED
  BY <1>6, <1>7

\* DeepBinding finds the same innermost binding.
LEMMA InnermostIs ==
  ASSUME NEW S \in Seq(Entry), NEW x, NEW cells, NEW A,
         A = {i \in DOMAIN EnvOf(cells, S) : EnvOf(cells, S)[i].sym = x}
  PROVE  /\ Free(S, x, 0, Len(S)) => A = {}
         /\ \A k \in 1 .. Len(S) : Top(S, x, k) => A /= {} /\ DB!Innermost(A) = k
<1>1. PICK n : n = Len(S)
  OBVIOUS
<1>2. n \in Nat
  BY <1>1, LenProperties
<1>3. A = {i \in 1 .. n : S[i].sym = x}
  <2>1. DOMAIN EnvOf(cells, S) = 1 .. n
    BY <1>1 DEF EnvOf
  <2>2. ASSUME NEW i \in 1 .. n PROVE EnvOf(cells, S)[i].sym = S[i].sym
    <3>1. PICK w : w = NextValue(cells, S, S[i].sym, i)
      OBVIOUS
    <3>2. EnvOf(cells, S)[i] = Binding(S[i], w)
      BY <1>1, <3>1 DEF EnvOf
    <3>3. Binding(S[i], w).sym = S[i].sym
      BY DEF Binding
    <3> QED
      BY <3>2, <3>3
  <2> QED
    BY <2>1, <2>2
<1>4. ASSUME Free(S, x, 0, Len(S)) PROVE A = {}
  <2>1. \A i \in 1 .. n : S[i].sym /= x
    BY <1>1, <1>2, <1>4 DEF Free
  <2> QED
    BY <1>3, <2>1
<1>5. ASSUME NEW k \in 1 .. Len(S), Top(S, x, k)
      PROVE  A /= {} /\ DB!Innermost(A) = k
  <2>1. k \in A /\ k \in 1 .. n
    BY <1>1, <1>3, <1>5 DEF Top
  <2>2. ASSUME NEW j \in A PROVE j <= k
    <3>1. j \in 1 .. n /\ S[j].sym = x
      BY <1>3
    <3>2. j \notin k + 1 .. n
      BY <1>1, <1>5, <3>1 DEF Top, Free
    <3> QED
      BY <1>2, <2>1, <3>1, <3>2
  <2>3. ASSUME NEW i \in A, \A j \in A : j <= i PROVE i = k
    <3>1. i \in 1 .. n /\ k <= i /\ i <= k
      BY <1>3, <2>1, <2>2, <2>3
    <3> QED
      BY <2>1, <3>1
  <2>4. DB!Innermost(A) = k
    BY <2>1, <2>2, <2>3 DEF DB!Innermost
  <2> QED
    BY <2>1, <2>4
<1> QED
  BY <1>4, <1>5

LEMMA FsetMaps ==
  ASSUME NEW E, NEW G, Before(E, G), NEW E2, NEW G2, After(E2, G2),
         NEW x \in Sym, NEW w \in Val, Fset(x, w)
  PROVE  \/ x \in Local /\ E2 = E /\ G2 = G /\ running' = running
         \/ x \in Plain /\ running' = running
            /\ \/ \E k : /\ DB!At(running, x) /= {} /\ DB!Innermost(DB!At(running, x)) = k
                         /\ E2 = [E EXCEPT ![running] = [E[running] EXCEPT ![k].val = w]]
                         /\ G2 = G
               \/ \E k : /\ DB!At(running, x) = {} /\ DB!At(Main, x) /= {}
                         /\ DB!Innermost(DB!At(Main, x)) = k
                         /\ E2 = [E EXCEPT ![Main] = [E[Main] EXCEPT ![k].val = w]]
                         /\ G2 = G
               \/ /\ DB!At(running, x) = {} /\ DB!At(Main, x) = {}
                  /\ G2 = [G EXCEPT ![x] = w] /\ E2 = E
<1>1. PICK v, v2, sp, r : v = value /\ v2 = value' /\ sp = specpdl /\ r = running
  OBVIOUS
<1>2. /\ running' = running /\ specpdl' = specpdl /\ Assigned(v, x, w, v2)
      /\ x \in Local \/ x \in Plain
  BY <1>1 DEF Fset, Assigned, Plain
<1>3. /\ Typed(v, sp, r) /\ r \in Thread /\ Main \in Thread
      /\ sp[r] \in Seq(Entry) /\ sp[Main] \in Seq(Entry)
  BY <1>1, Types DEF Before, Typed
<1>4. /\ E = EnvFor(v, sp, r) /\ G = GlobalFor(v, sp, r)
      /\ E2 = EnvFor(v2, sp, r) /\ G2 = GlobalFor(v2, sp, r)
  BY <1>1, <1>2 DEF Before, After
<1>5. CASE x \in Local
  <2>1. E2 = E /\ G2 = G
    BY <1>2, <1>3, <1>4, <1>5, SetLocal
  <2> QED
    BY <1>2, <1>5, <2>1
<1>6. CASE x \in Plain
  <2>1. PICK A, B : A = DB!At(running, x) /\ B = DB!At(Main, x)
    OBVIOUS
  <2>2. PICK b : b = Base(v, sp, r)
    OBVIOUS
  <2>3. E[r] = EnvOf(v, sp[r]) /\ E[Main] = EnvOf(b, sp[Main])
    <3>1. r = Main => b = v
      BY <2>2 DEF Base
    <3> QED
      BY <1>3, <1>4, <2>2, <3>1 DEF EnvFor
  <2>4. /\ A = {i \in DOMAIN EnvOf(v, sp[r]) : EnvOf(v, sp[r])[i].sym = x}
        /\ B = {i \in DOMAIN EnvOf(b, sp[Main]) : EnvOf(b, sp[Main])[i].sym = x}
    <3>1. E = DeepEnv
      BY DEF Before
    <3>2. A = {i \in DOMAIN E[r] : E[r][i].sym = x}
      BY <1>1, <2>1, <3>1 DEF DB!At
    <3>3. B = {i \in DOMAIN E[Main] : E[Main][i].sym = x}
      BY <2>1, <3>1 DEF DB!At
    <3> QED
      BY <2>3, <3>2, <3>3
  <2>5. /\ Free(sp[r], x, 0, Len(sp[r])) => A = {}
        /\ \A k \in 1 .. Len(sp[r]) : Top(sp[r], x, k) => A /= {} /\ DB!Innermost(A) = k
    <3>1. PICK S : S = sp[r]
      OBVIOUS
    <3>2. A = {i \in DOMAIN EnvOf(v, S) : EnvOf(v, S)[i].sym = x} /\ S \in Seq(Entry)
      BY <1>3, <2>4, <3>1
    <3>3. /\ Free(S, x, 0, Len(S)) => A = {}
          /\ \A k \in 1 .. Len(S) : Top(S, x, k) => A /= {} /\ DB!Innermost(A) = k
      BY <3>2, InnermostIs
    <3> QED
      BY <3>1, <3>3
  <2>6. /\ Free(sp[Main], x, 0, Len(sp[Main])) => B = {}
        /\ \A k \in 1 .. Len(sp[Main]) : Top(sp[Main], x, k) => B /= {} /\ DB!Innermost(B) = k
    <3>1. PICK S : S = sp[Main]
      OBVIOUS
    <3>2. B = {i \in DOMAIN EnvOf(b, S) : EnvOf(b, S)[i].sym = x} /\ S \in Seq(Entry)
      BY <1>3, <2>4, <3>1
    <3>3. /\ Free(S, x, 0, Len(S)) => B = {}
          /\ \A k \in 1 .. Len(S) : Top(S, x, k) => B /= {} /\ DB!Innermost(B) = k
      BY <3>2, InnermostIs
    <3> QED
      BY <3>1, <3>3
  <2>7. CASE \E k \in 1 .. Len(sp[r]) : Top(sp[r], x, k)
    <3>1. PICK k \in 1 .. Len(sp[r]) : Top(sp[r], x, k)
      BY <2>7
    <3>2. /\ EnvFor(v2, sp, r)
               = [EnvFor(v, sp, r) EXCEPT ![r] = [EnvOf(v, sp[r]) EXCEPT ![k].val = w]]
          /\ GlobalFor(v2, sp, r) = GlobalFor(v, sp, r)
      BY <1>2, <1>3, <1>6, <3>1, SetOwn
    <3>3. A /= {} /\ DB!Innermost(A) = k
      BY <2>5, <3>1
    <3>4. E2 = [E EXCEPT ![running] = [E[running] EXCEPT ![k].val = w]] /\ G2 = G
      BY <1>1, <1>4, <2>3, <3>2
    <3> QED
      BY <1>2, <1>6, <2>1, <3>3, <3>4
  <2>8. CASE /\ Free(sp[r], x, 0, Len(sp[r]))
             /\ \E k \in 1 .. Len(sp[Main]) : Top(sp[Main], x, k)
    <3>1. PICK k \in 1 .. Len(sp[Main]) : Top(sp[Main], x, k)
      BY <2>8
    <3>2. /\ EnvFor(v2, sp, r)
               = [EnvFor(v, sp, r) EXCEPT ![Main] = [EnvFor(v, sp, r)[Main] EXCEPT ![k].val = w]]
          /\ GlobalFor(v2, sp, r) = GlobalFor(v, sp, r)
      BY <1>2, <1>3, <1>6, <2>8, <3>1, SetMain
    <3>3. A = {} /\ B /= {} /\ DB!Innermost(B) = k
      BY <2>5, <2>6, <2>8, <3>1
    <3>4. E2 = [E EXCEPT ![Main] = [E[Main] EXCEPT ![k].val = w]] /\ G2 = G
      BY <1>4, <3>2
    <3> QED
      BY <1>2, <1>6, <2>1, <3>3, <3>4
  <2>9. CASE /\ Free(sp[r], x, 0, Len(sp[r]))
             /\ Free(sp[Main], x, 0, Len(sp[Main]))
    <3>1. /\ EnvFor(v2, sp, r) = EnvFor(v, sp, r)
          /\ GlobalFor(v2, sp, r) = [GlobalFor(v, sp, r) EXCEPT ![x] = w]
      BY <1>2, <1>3, <1>6, <2>9, SetGlobal
    <3>2. A = {} /\ B = {}
      BY <2>5, <2>6, <2>9
    <3> QED
      BY <1>2, <1>4, <1>6, <2>1, <3>1, <3>2
  <2> QED
    BY <1>3, <2>7, <2>8, <2>9, BoundCases
<1> QED
  BY <1>2, <1>5, <1>6

LEMMA switchMaps ==
  ASSUME NEW E, NEW G, Before(E, G), NEW E2, NEW G2, After(E2, G2),
         NEW c \in Coro, SwitchIn(c)
  PROVE  E2 = E /\ G2 = G /\ running' = c
<1>1. PICK v, sp, v2, sp2, S, R :
        /\ v = value /\ sp = specpdl /\ v2 = value' /\ sp2 = specpdl' /\ S = specpdl[c]
        /\ R = specpdl_rebind_range(value, specpdl[c])
  OBVIOUS
<1>2. /\ running = Main /\ running' = c /\ c \in Thread /\ v \in [Sym -> Val]
      /\ sp \in [Thread -> Seq(Entry)] /\ S \in Seq(Entry) /\ S = sp[c]
  BY <1>1, Types DEF Before, SwitchIn, Typed
<1>3. R = specpdl_rebind_range(v, S) /\ v2 = R.cells /\ sp2 = [sp EXCEPT ![c] = R.stack]
  BY <1>1 DEF SwitchIn
<1>4. /\ R.cells \in [Sym -> Val] /\ R.stack \in Seq(Entry) /\ Len(R.stack) = Len(S)
      /\ \A i \in 1 .. Len(S) : R.stack[i].sym = S[i].sym
      /\ \A x \in Plain : NextValue(R.cells, R.stack, x, 0) = v[x]
      /\ \A i \in 1 .. Len(S) : S[i].sym \in Plain =>
           NextValue(R.cells, R.stack, S[i].sym, i) = S[i].old_value
  BY <1>2, <1>3, RebindFinds
<1>5. PICK T : T = R.stack
  OBVIOUS
<1>6. sp2 \in [Thread -> Seq(Entry)] /\ sp2[c] = T /\ \A t \in Thread : t /= c => sp2[t] = sp[t]
  BY <1>2, <1>3, <1>4, <1>5
<1>7. Switched(v2, sp2, c, v, S, sp)
  <2>1. Typed(v2, sp2, c)
    BY <1>2, <1>3, <1>4, <1>6 DEF Typed
  <2>2. Replaced(sp2, c, S, sp)
    BY <1>2, <1>6 DEF Replaced
  <2>3. \A x \in Plain : v[x] = Under(v2, sp2[c])[x]
    BY <1>3, <1>4, <1>5, <1>6 DEF Under, Plain
  <2> QED
    BY <2>1, <2>2, <2>3 DEF Switched
<1>8. /\ EnvFor(v, sp, Main) = [EnvFor(v2, sp2, c) EXCEPT ![c] = Stored(S)]
      /\ GlobalFor(v, sp, Main) = GlobalFor(v2, sp2, c)
  BY <1>7, Switch
<1>9. EnvFor(v2, sp2, c)[c] = Stored(S)
  <2>1. EnvFor(v2, sp2, c)[c] = EnvOf(v2, T)
    BY <1>2, <1>6 DEF EnvFor
  <2>2. ASSUME NEW i \in 1 .. Len(S)
        PROVE  Binding(T[i], NextValue(v2, T, T[i].sym, i)) = Binding(S[i], S[i].old_value)
    <3>1. PICK x : x = S[i].sym
      OBVIOUS
    <3>2. T[i].sym = x /\ x \in Sym
      BY <1>2, <1>4, <1>5, <3>1, StackIs
    <3>3. CASE x \in Local
      BY <3>1, <3>2, <3>3 DEF Binding
    <3>4. CASE x \notin Local
      <4>1. S[i].sym \in Plain
        BY <3>1, <3>2, <3>4 DEF Plain
      <4>2. NextValue(v2, T, x, i) = S[i].old_value
        BY <1>3, <1>4, <1>5, <3>1, <4>1
      <4> QED
        BY <3>1, <3>2, <4>2 DEF Binding
    <3> QED
      BY <3>3, <3>4
  <2>3. Len(T) = Len(S)
    BY <1>4, <1>5
  <2>4. EnvOf(v2, T) = Stored(S)
    BY <2>2, <2>3 DEF EnvOf, Stored
  <2> QED
    BY <2>1, <2>4
<1>10. EnvFor(v2, sp2, c) = EnvFor(v, sp, Main)
  <2>1. PICK F : F = EnvFor(v2, sp2, c)
    OBVIOUS
  <2>2. F = [t \in Thread |-> F[t]]
    BY <2>1 DEF EnvFor
  <2>3. [F EXCEPT ![c] = F[c]] = F
    BY <2>2
  <2> QED
    BY <1>8, <1>9, <2>1, <2>3
<1> QED
  BY <1>1, <1>2, <1>8, <1>10 DEF Before, After

LEMMA yieldMaps ==
  ASSUME NEW E, NEW G, Before(E, G), NEW E2, NEW G2, After(E2, G2),
         NEW c \in Coro, coro_yield(c)
  PROVE  E2 = E /\ G2 = G /\ running' = Main
<1>1. PICK v, sp, v2, sp2, S, R :
        /\ v = value /\ sp = specpdl /\ v2 = value' /\ sp2 = specpdl' /\ S = specpdl[c]
        /\ R = specpdl_unwind_range(value, specpdl[c])
  OBVIOUS
<1>2. /\ running = c /\ running' = Main /\ c \in Thread /\ v \in [Sym -> Val]
      /\ sp \in [Thread -> Seq(Entry)] /\ S \in Seq(Entry) /\ S = sp[c] /\ Typed(v, sp, c)
  BY <1>1, Types DEF Before, coro_yield, Typed
<1>3. R = specpdl_unwind_range(v, S) /\ v2 = R.cells /\ sp2 = [sp EXCEPT ![c] = R.stack]
  BY <1>1 DEF coro_yield
<1>4. /\ R.cells \in [Sym -> Val] /\ R.stack \in Seq(Entry)
      /\ \A x \in Plain : R.cells[x] = Under(v, S)[x]
      /\ Stored(R.stack) = EnvOf(v, S)
  BY <1>2, <1>3, UnwindFinds
<1>5. PICK T : T = R.stack
  OBVIOUS
<1>6. Switched(v, sp, c, v2, T, sp2)
  <2>1. Replaced(sp, c, T, sp2)
    BY <1>2, <1>3, <1>4, <1>5, ReplacedIs
  <2> QED
    BY <1>2, <1>3, <1>4, <2>1 DEF Switched
<1>7. /\ EnvFor(v2, sp2, Main) = [EnvFor(v, sp, c) EXCEPT ![c] = Stored(T)]
      /\ GlobalFor(v2, sp2, Main) = GlobalFor(v, sp, c)
  BY <1>6, Switch
<1>8. EnvFor(v, sp, c)[c] = Stored(T)
  <2>1. EnvFor(v, sp, c)[c] = EnvOf(v, S)
    BY <1>2 DEF EnvFor
  <2> QED
    BY <1>4, <1>5, <2>1
<1>9. EnvFor(v2, sp2, Main) = EnvFor(v, sp, c)
  <2>1. PICK F : F = EnvFor(v, sp, c)
    OBVIOUS
  <2>2. F = [t \in Thread |-> F[t]]
    BY <2>1 DEF EnvFor
  <2>3. [F EXCEPT ![c] = F[c]] = F
    BY <2>2
  <2> QED
    BY <1>7, <1>8, <2>1, <2>3
<1> QED
  BY <1>1, <1>2, <1>7, <1>9 DEF Before, After

LEMMA trampolineMaps ==
  ASSUME NEW E, NEW G, Before(E, G), NEW E2, NEW G2, After(E2, G2),
         NEW c \in Coro, coro_trampoline(c)
  PROVE  E2 = [E EXCEPT ![running] = << >>] /\ G2 = G /\ running = c /\ running' = Main
<1>1. PICK v, sp, v2, sp2, S :
        v = value /\ sp = specpdl /\ v2 = value' /\ sp2 = specpdl' /\ S = specpdl[c]
  OBVIOUS
<1>2. /\ running = c /\ running' = Main /\ c \in Thread /\ v \in [Sym -> Val]
      /\ sp \in [Thread -> Seq(Entry)] /\ S \in Seq(Entry) /\ S = sp[c] /\ Typed(v, sp, c)
  BY <1>1, Types DEF Before, coro_trampoline, Typed
<1>3. v2 = UnbindTo(v, S, 0) /\ sp2 = [sp EXCEPT ![c] = << >>]
  BY <1>1 DEF coro_trampoline
<1>4. v2 = Under(v, S)
  BY <1>2, <1>3, PopAll
<1>5. Switched(v, sp, c, v2, << >>, sp2)
  <2>1. << >> \in Seq(Entry)
    OBVIOUS
  <2>2. Replaced(sp, c, << >>, sp2)
    BY <1>2, <1>3, <2>1, ReplacedIs
  <2> QED
    BY <1>2, <1>4, <2>2 DEF Switched
<1>6. /\ EnvFor(v2, sp2, Main) = [EnvFor(v, sp, c) EXCEPT ![c] = Stored(<< >>)]
      /\ GlobalFor(v2, sp2, Main) = GlobalFor(v, sp, c)
  BY <1>5, Switch
<1>7. Stored(<< >>) = << >>
  BY DEF Stored
<1> QED
  BY <1>1, <1>2, <1>6, <1>7 DEF Before, After

LEMMA NextMaps == TypeOK /\ [Next]_vars => [DB!Next]_(DB!vars)
<1> SUFFICES ASSUME TypeOK, [Next]_vars PROVE [DB!Next]_(DB!vars)
  OBVIOUS
<1>1. PICK E, G, E2, G2 : E = DeepEnv /\ G = DeepGlobal /\ E2 = DeepEnv' /\ G2 = DeepGlobal'
  OBVIOUS
<1>2. Before(E, G)
  <2>1. /\ DeepEnv = EnvFor(value, specpdl, running)
        /\ DeepGlobal = GlobalFor(value, specpdl, running)
    BY Types, EnvIs
  <2>2. DOMAIN DeepEnv = Thread
    BY DEF DeepEnv
  <2> QED
    BY <1>1, <2>1, <2>2 DEF Before
<1>3. After(E2, G2)
  <2>1. TypeOK'
    BY NextType
  <2>2. Typed(value, specpdl, running)'
    BY <2>1 DEF TypeOK, Typed
  <2> QED
    BY <1>1, <2>2, EnvNext DEF After
<1>4. running \in Thread /\ Main \in Thread /\ DB!Thread = Thread
  BY Types DEF Typed, DB!Thread, Thread
<1>5. ASSUME NEW x \in Sym, NEW w \in Val, specbind(x, w)
      PROVE  DB!Next
  <2>1. /\ E2 = [E EXCEPT ![running] = Append(E[running], Binding([sym |-> x], w))]
        /\ G2 = G /\ running' = running
    BY <1>2, <1>3, <1>5, specbindMaps
  <2>2. CASE x \in Local
    <3>1. Binding([sym |-> x], w) = [sym |-> x]
      BY <2>2 DEF Binding
    <3>2. DB!Enter(x)
      BY <1>1, <2>1, <3>1 DEF DB!Enter
    <3> QED
      BY <2>2, <3>2 DEF DB!Next
  <2>3. CASE x \in Plain
    <3>1. Binding([sym |-> x], w) = [sym |-> x, val |-> w]
      BY <2>3 DEF Binding, Plain
    <3>2. DB!Let(x, w)
      BY <1>1, <2>1, <3>1 DEF DB!Let
    <3> QED
      BY <2>3, <3>2 DEF DB!Next
  <2> QED
    BY <2>2, <2>3 DEF Plain
<1>6. ASSUME NEW x \in Sym, NEW w \in Val, Fset(x, w)
      PROVE  DB!Next \/ UNCHANGED DB!vars
  <2>1. \/ x \in Local /\ E2 = E /\ G2 = G /\ running' = running
        \/ x \in Plain /\ running' = running
           /\ \/ \E k : /\ DB!At(running, x) /= {} /\ DB!Innermost(DB!At(running, x)) = k
                        /\ E2 = [E EXCEPT ![running] = [E[running] EXCEPT ![k].val = w]]
                        /\ G2 = G
              \/ \E k : /\ DB!At(running, x) = {} /\ DB!At(Main, x) /= {}
                        /\ DB!Innermost(DB!At(Main, x)) = k
                        /\ E2 = [E EXCEPT ![Main] = [E[Main] EXCEPT ![k].val = w]]
                        /\ G2 = G
              \/ /\ DB!At(running, x) = {} /\ DB!At(Main, x) = {}
                 /\ G2 = [G EXCEPT ![x] = w] /\ E2 = E
    BY <1>2, <1>3, <1>6, FsetMaps
  <2>2. CASE x \in Local /\ E2 = E /\ G2 = G /\ running' = running
    BY <1>1, <2>2 DEF DB!vars
  <2>3. ASSUME x \in Plain, running' = running, NEW k,
               DB!At(running, x) /= {}, DB!Innermost(DB!At(running, x)) = k,
               E2 = [E EXCEPT ![running] = [E[running] EXCEPT ![k].val = w]], G2 = G
        PROVE  DB!Set(x, w)
    BY <1>1, <2>3 DEF DB!Set
  <2>4. ASSUME x \in Plain, running' = running, NEW k,
               DB!At(running, x) = {}, DB!At(Main, x) /= {},
               DB!Innermost(DB!At(Main, x)) = k,
               E2 = [E EXCEPT ![Main] = [E[Main] EXCEPT ![k].val = w]], G2 = G
        PROVE  DB!Set(x, w)
    BY <1>1, <2>4 DEF DB!Set
  <2>5. ASSUME x \in Plain, running' = running, DB!At(running, x) = {},
               DB!At(Main, x) = {}, G2 = [G EXCEPT ![x] = w], E2 = E
        PROVE  DB!Set(x, w)
    BY <1>1, <2>5 DEF DB!Set
  <2>6. x \in Plain /\ DB!Set(x, w) => DB!Next
    BY DEF DB!Next
  <2> QED
    BY <2>1, <2>2, <2>3, <2>4, <2>5, <2>6
<1>7. ASSUME NEW n \in 0 .. MaxDepth, unbind_to(n)
      PROVE  DB!Next
  <2>1. /\ n \in 0 .. Len(E[running])
        /\ E2 = [E EXCEPT ![running] = SubSeq(E[running], 1, n)]
        /\ G2 = G /\ running' = running
    BY <1>2, <1>3, <1>7, unbindMaps
  <2>2. Len(E[running]) \in Nat
    <3>1. E[running] = EnvOf(value, specpdl[running])
      BY <1>2, <1>4, Types, EnvTop DEF Before
    <3> QED
      BY <3>1, Types DEF EnvOf
  <2>3. n <= Len(E[running])
    BY <2>1, <2>2
  <2>4. DB!Unbind(n)
    BY <1>1, <2>1, <2>3 DEF DB!Unbind
  <2> QED
    BY <1>1, <2>1, <2>4 DEF DB!Next
<1>8. ASSUME NEW c \in Coro, coro_spawn(c) \/ YieldMoved(c)
      PROVE  UNCHANGED DB!vars
  <2>1. value' = value /\ specpdl' = specpdl /\ running' = running
    BY <1>8 DEF coro_spawn, YieldMoved
  <2>2. E2 = E /\ G2 = G
    BY <1>2, <1>3, <2>1 DEF Before, After
  <2> QED
    BY <1>1, <2>1, <2>2 DEF DB!vars
<1>9. ASSUME NEW c \in Coro, SwitchIn(c) PROVE DB!Next
  <2>1. E2 = E /\ G2 = G /\ running' = c
    BY <1>2, <1>3, <1>9, switchMaps
  <2>2. DB!Pass(c) /\ c \in DB!Thread
    BY <1>1, <2>1 DEF DB!Pass, DB!Thread
  <2> QED
    BY <2>2 DEF DB!Next
<1>10. ASSUME NEW c \in Coro, coro_yield(c) PROVE DB!Next
  <2>1. E2 = E /\ G2 = G /\ running' = Main
    BY <1>2, <1>3, <1>10, yieldMaps
  <2>2. DB!Pass(Main) /\ Main \in DB!Thread
    BY <1>1, <2>1 DEF DB!Pass, DB!Thread
  <2> QED
    BY <2>2 DEF DB!Next
<1>11. ASSUME NEW c \in Coro, coro_trampoline(c) PROVE DB!Next
  <2>1. E2 = [E EXCEPT ![running] = << >>] /\ G2 = G /\ running = c /\ running' = Main
    BY <1>2, <1>3, <1>11, trampolineMaps
  <2>2. DB!End
    BY <1>1, <2>1 DEF DB!End
  <2> QED
    BY <2>2 DEF DB!Next
<1>12. CASE UNCHANGED vars
  <2>1. value' = value /\ specpdl' = specpdl /\ running' = running
    BY <1>12 DEF vars
  <2>2. E2 = E /\ G2 = G
    BY <1>2, <1>3, <2>1 DEF Before, After
  <2> QED
    BY <1>1, <2>1, <2>2 DEF DB!vars
<1> QED
  BY <1>5, <1>6, <1>7, <1>8, <1>9, <1>10, <1>11, <1>12 DEF Next

\* specbind, unbind_to, set and the swaps that coro_yield and the tick make on
\* the specpdl of a coroutine (async-scheduler.c) implement a stack of bindings
\* per thread: a coroutine finds its variables as it left them, at every level
\* of nesting, and changes nobody else's.
THEOREM Refinement == Spec => ImplementsDeepBinding
<1>1. Init => DB!Init
  BY DeepInit
<1>2. TypeOK /\ [Next]_vars => [DB!Next]_(DB!vars)
  BY NextMaps
<1> QED
  BY <1>1, <1>2, TypeCorrect, PTL DEF Spec, ImplementsDeepBinding, DB!Spec
=============================================================================
