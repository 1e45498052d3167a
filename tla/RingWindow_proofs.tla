-------------------------- MODULE RingWindow_proofs --------------------------
(***************************************************************************)
(* The two moves of a window, for a ring of any size, and what it holds.   *)
(***************************************************************************)
EXTENDS RingWindow, Sequences, TLAPS

(* The ring has a first descriptor, and each has one that follows it.      *)
LEMMA DescType == 0 \in Desc /\ \A t \in Desc : next_tail(t) \in Desc
BY SizeAssumption DEF Desc, next_tail

(* Going round the ring once.                                              *)
LEMMA Around ==
  ASSUME NEW x \in Nat, x < 2 * NUM_DESC
  PROVE  /\ x % NUM_DESC \in Desc
         /\ x % NUM_DESC = IF x < NUM_DESC THEN x ELSE x - NUM_DESC
<1>1. NUM_DESC \in Nat \ {0}
    BY SizeAssumption
<1>2. CASE x < NUM_DESC
    BY <1>1, <1>2 DEF Desc
<1>3. CASE ~(x < NUM_DESC)
    BY <1>1, <1>3 DEF Desc
<1> QED
    BY <1>2, <1>3

(* The descriptors counted from d are those counted from the next one, one *)
(* earlier; going round the ring once leads back to d and not before.      *)
LEMMA CountedFrom ==
  ASSUME NEW d \in Desc
  PROVE  /\ Nth(d, 0) = d
         /\ Nth(d, NUM_DESC) = d
         /\ \A i \in 0 .. NUM_DESC - 1 :
              /\ Nth(d, i) \in Desc
              /\ next_tail(Nth(d, i)) = Nth(d, i + 1)
              /\ Nth(next_tail(d), i) = Nth(d, i + 1)
<1>1. NUM_DESC \in Nat /\ NUM_DESC > 0 /\ d \in Nat /\ d < NUM_DESC
    BY SizeAssumption DEF Desc
<1>2. (d + 0) % NUM_DESC = d /\ (d + NUM_DESC) % NUM_DESC = d
    BY <1>1, Around
<1>3. ASSUME NEW i \in 0 .. NUM_DESC - 1
      PROVE  /\ (d + i) % NUM_DESC \in Desc
             /\ next_tail((d + i) % NUM_DESC) = (d + (i + 1)) % NUM_DESC
             /\ (next_tail(d) + i) % NUM_DESC = (d + (i + 1)) % NUM_DESC
  <2>1. i \in Nat /\ d + i \in Nat /\ d + (i + 1) \in Nat /\ d + (i + 1) < 2 * NUM_DESC
    BY <1>1
  <2>2. /\ (d + i) % NUM_DESC \in Desc
        /\ (d + i) % NUM_DESC = IF d + i < NUM_DESC THEN d + i ELSE d + i - NUM_DESC
    BY <1>1, <2>1, Around
  <2>3. (d + (i + 1)) % NUM_DESC =
          IF d + (i + 1) < NUM_DESC THEN d + (i + 1) ELSE d + (i + 1) - NUM_DESC
    BY <1>1, <2>1, Around
  <2>4. next_tail((d + i) % NUM_DESC) = (d + (i + 1)) % NUM_DESC
    BY <1>1, <2>1, <2>2, <2>3 DEF next_tail
  <2>5. (next_tail(d) + i) % NUM_DESC = (d + (i + 1)) % NUM_DESC
    <3>1. CASE d = NUM_DESC - 1
      <4>1. next_tail(d) = 0 /\ i % NUM_DESC = i
        BY <1>1, <2>1, <3>1, Around DEF next_tail
      <4> QED
        BY <1>1, <2>1, <2>3, <3>1, <4>1
    <3>2. CASE d # NUM_DESC - 1
      <4>1. next_tail(d) + i = d + (i + 1)
        BY <1>1, <2>1, <3>2 DEF next_tail
      <4> QED
        BY <4>1
    <3> QED
      BY <3>1, <3>2
  <2> QED
    BY <2>2, <2>4, <2>5
<1> QED
    BY <1>2, <1>3 DEF Nth

(* A window that holds nothing.                                            *)
LEMMA WindowEmpty ==
  ASSUME NEW chunk, NEW lo \in Nat, NEW first \in Desc
  PROVE  Window({}, chunk, lo, lo, first, first)
<1>1. lo - lo = 0 /\ 0 \in 0 .. NUM_DESC /\ 0 .. 0 - 1 = {}
    BY SizeAssumption
<1>2. Nth(first, 0) = first
    BY CountedFrom
<1> QED
    BY <1>1, <1>2 DEF Window

(* A window that reaches its first descriptor holds its oldest chunk.      *)
LEMMA WindowFirst ==
  ASSUME NEW S \in SUBSET Desc, NEW chunk \in [Desc -> Nat],
         NEW lo \in Nat, NEW hi \in Nat, NEW first \in Desc, NEW end \in Desc,
         Window(S, chunk, lo, hi, first, end), first \in S
  PROVE  lo < hi /\ chunk[first] = lo
<1>1. PICK i \in 0 .. (hi - lo) - 1 : first = Nth(first, i)
    BY DEF Window
<1>2. lo < hi /\ 0 \in 0 .. (hi - lo) - 1
    BY <1>1
<1>3. chunk[Nth(first, 0)] = lo + 0
    BY <1>2 DEF Window
<1> QED
    BY <1>2, <1>3, CountedFrom

(* A window whose first descriptor is not in it is empty.                  *)
LEMMA WindowWithoutFirst ==
  ASSUME NEW S, NEW chunk, NEW lo \in Nat, NEW hi \in Nat,
         NEW first \in Desc, NEW end,
         Window(S, chunk, lo, hi, first, end), first \notin S
  PROVE  S = {} /\ end = first
<1> DEFINE n == hi - lo
<1>1. n \in 0 .. NUM_DESC /\ end = Nth(first, n) /\ S = {Nth(first, i) : i \in 0 .. n - 1}
    BY DEF Window
<1>2. first = Nth(first, 0)
    BY CountedFrom
<1>3. ~(0 \in 0 .. n - 1)
    BY <1>1, <1>2
<1>4. n = 0 /\ 0 .. n - 1 = {}
    BY <1>1, <1>3, SizeAssumption
<1> QED
    BY <1>1, <1>2, <1>4

(* Every descriptor is met going round the ring once, and none but the     *)
(* first is met again at the end of less than a round.                     *)
LEMMA OneRound ==
  ASSUME NEW d \in Desc
  PROVE  /\ \A e \in Desc : \E i \in 0 .. NUM_DESC - 1 : e = Nth(d, i)
         /\ \A n \in 0 .. NUM_DESC : \A i \in 0 .. n - 1 :
              Nth(d, i) = Nth(d, n) => n = NUM_DESC
<1>1. NUM_DESC \in Nat /\ NUM_DESC > 0 /\ d \in Nat /\ d < NUM_DESC
    BY SizeAssumption DEF Desc
<1>2. ASSUME NEW e \in Desc
      PROVE  \E i \in 0 .. NUM_DESC - 1 : e = Nth(d, i)
  <2>1. e \in Nat /\ e < NUM_DESC
    BY <1>1 DEF Desc
  <2>2. CASE d <= e
    <3>1. e - d \in 0 .. NUM_DESC - 1 /\ d + (e - d) = e
      BY <1>1, <2>1, <2>2
    <3>2. e % NUM_DESC = e
      BY <1>1, <2>1, Around
    <3> QED
      BY <3>1, <3>2 DEF Nth
  <2>3. CASE e < d
    <3> DEFINE i == e + NUM_DESC - d
    <3>1. i \in 0 .. NUM_DESC - 1 /\ d + i = e + NUM_DESC
      BY <1>1, <2>1, <2>3
    <3>2. (e + NUM_DESC) % NUM_DESC = e
      BY <1>1, <2>1, Around
    <3> QED
      BY <3>1, <3>2 DEF Nth
  <2> QED
    BY <1>1, <2>1, <2>2, <2>3
<1>3. ASSUME NEW n \in 0 .. NUM_DESC, NEW i \in 0 .. n - 1, Nth(d, i) = Nth(d, n)
      PROVE  n = NUM_DESC
  <2>1. SUFFICES ASSUME n < NUM_DESC PROVE FALSE
    BY <1>1
  <2>2. /\ i \in Nat /\ n \in Nat /\ i < n
        /\ d + i \in Nat /\ d + n \in Nat
        /\ d + i < 2 * NUM_DESC /\ d + n < 2 * NUM_DESC
    BY <1>1, <2>1
  <2>3. (d + i) % NUM_DESC = IF d + i < NUM_DESC THEN d + i ELSE d + i - NUM_DESC
    BY <1>1, <2>2, Around
  <2>4. (d + n) % NUM_DESC = IF d + n < NUM_DESC THEN d + n ELSE d + n - NUM_DESC
    BY <1>1, <2>2, Around
  <2> QED
    BY <1>1, <1>3, <2>1, <2>2, <2>3, <2>4 DEF Nth
<1> QED
    BY <1>2, <1>3

(* A window whose end is in it is the whole ring.                          *)
LEMMA WindowWithEnd ==
  ASSUME NEW S, NEW chunk, NEW lo \in Nat, NEW hi \in Nat,
         NEW first \in Desc, NEW end \in S,
         Window(S, chunk, lo, hi, first, end)
  PROVE  Desc \subseteq S /\ end = first
<1> DEFINE n == hi - lo
<1>1. n \in 0 .. NUM_DESC /\ end = Nth(first, n) /\ S = {Nth(first, i) : i \in 0 .. n - 1}
    BY DEF Window
<1>2. PICK i \in 0 .. n - 1 : end = Nth(first, i)
    BY <1>1
<1>3. n = NUM_DESC
    BY <1>1, <1>2, OneRound
<1> HIDE DEF n
<1>4. Desc \subseteq S
    BY <1>1, <1>3, OneRound
<1> QED
    BY <1>1, <1>3, <1>4, CountedFrom

(* Filling the descriptor at the end of a window makes it longer by one.   *)
LEMMA WindowGrows ==
  ASSUME NEW S \in SUBSET Desc, NEW chunk \in [Desc -> Nat],
         NEW lo \in Nat, NEW hi \in Nat, NEW first \in Desc, NEW end \in Desc,
         Window(S, chunk, lo, hi, first, end), end \notin S
  PROVE  Window(S \cup {end}, [chunk EXCEPT ![end] = hi],
                lo, hi + 1, first, next_tail(end))
<1> DEFINE n == hi - lo
           label == [chunk EXCEPT ![end] = hi]
<1>1. /\ n \in 0 .. NUM_DESC /\ end = Nth(first, n)
      /\ S = {Nth(first, i) : i \in 0 .. n - 1}
      /\ \A i \in 0 .. n - 1 : chunk[Nth(first, i)] = lo + i
    BY DEF Window
<1>2. NUM_DESC \in Nat /\ NUM_DESC > 0
    BY SizeAssumption
<1>3. n \in 0 .. NUM_DESC - 1
  <2>1. SUFFICES ASSUME n = NUM_DESC PROVE FALSE
    BY <1>1, <1>2
  <2>2. end = first /\ first = Nth(first, 0)
    BY <1>1, <2>1, CountedFrom
  <2>3. 0 \in 0 .. n - 1
    BY <1>2, <2>1
  <2> QED
    BY <1>1, <2>2, <2>3
<1>4. next_tail(end) = Nth(first, n + 1)
    BY <1>1, <1>3, CountedFrom
<1>5. hi + 1 - lo = n + 1 /\ n + 1 \in 0 .. NUM_DESC /\ (n + 1) - 1 = n
      /\ 0 .. n = (0 .. n - 1) \cup {n} /\ hi = lo + n
    BY <1>2, <1>3
<1>6. S \cup {end} = {Nth(first, i) : i \in 0 .. n}
    BY <1>1, <1>5
<1>7. \A i \in 0 .. n : label[Nth(first, i)] = lo + i
  <2> SUFFICES ASSUME NEW i \in 0 .. n PROVE label[Nth(first, i)] = lo + i
    OBVIOUS
  <2>1. CASE i = n
    BY <1>1, <1>5, <2>1
  <2>2. CASE i \in 0 .. n - 1
    <3>1. Nth(first, i) # end /\ Nth(first, i) \in Desc
      BY <1>1, <2>2
    <3> QED
      BY <1>1, <2>2, <3>1
  <2> QED
    BY <1>5, <2>1, <2>2
<1> HIDE DEF label, n
<1>8. Window(S \cup {end}, label, lo, hi + 1, first, next_tail(end))
    BY <1>4, <1>5, <1>6, <1>7 DEF Window
<1> QED
    BY <1>8 DEF label

(* Emptying the first descriptor of a window makes it shorter by one.      *)
LEMMA WindowShrinks ==
  ASSUME NEW S \in SUBSET Desc, NEW chunk \in [Desc -> Nat],
         NEW lo \in Nat, NEW hi \in Nat, NEW first \in Desc, NEW end \in Desc,
         Window(S, chunk, lo, hi, first, end), first \in S
  PROVE  Window(S \ {first}, chunk, lo + 1, hi, next_tail(first), end)
<1> DEFINE n == hi - lo
           next == next_tail(first)
<1>1. /\ n \in 0 .. NUM_DESC /\ end = Nth(first, n)
      /\ S = {Nth(first, i) : i \in 0 .. n - 1}
      /\ \A i \in 0 .. n - 1 : chunk[Nth(first, i)] = lo + i
    BY DEF Window
<1>2. lo < hi /\ chunk[first] = lo
    BY WindowFirst
<1>3. NUM_DESC \in Nat /\ hi - (lo + 1) = n - 1 /\ n - 1 \in 0 .. NUM_DESC - 1
    BY <1>1, <1>2, SizeAssumption
<1>4. \A i \in 0 .. n - 1 : Nth(next, i) = Nth(first, i + 1)
    BY <1>1, <1>3, CountedFrom
<1>5. end = Nth(next, n - 1)
    BY <1>1, <1>3, <1>4
<1>6. \A i \in 0 .. n - 2 :
        /\ i + 1 \in 0 .. n - 1
        /\ Nth(next, i) = Nth(first, i + 1)
        /\ chunk[Nth(next, i)] = lo + 1 + i
  <2> SUFFICES ASSUME NEW i \in 0 .. n - 2
               PROVE  /\ i + 1 \in 0 .. n - 1
                      /\ Nth(next, i) = Nth(first, i + 1)
                      /\ chunk[Nth(next, i)] = lo + 1 + i
    OBVIOUS
  <2>1. i \in 0 .. n - 1 /\ i + 1 \in 0 .. n - 1 /\ lo + (i + 1) = lo + 1 + i
    BY <1>1
  <2> QED
    BY <1>1, <1>4, <2>1
<1>7. ASSUME NEW d \in S \ {first}
      PROVE  d \in {Nth(next, i) : i \in 0 .. n - 2}
  <2>1. PICK i \in 0 .. n - 1 : d = Nth(first, i)
    BY <1>1, <1>7
  <2>2. i # 0
    BY <1>7, <2>1, CountedFrom
  <2>3. i - 1 \in 0 .. n - 2 /\ (i - 1) + 1 = i
    BY <1>1, <2>2
  <2> QED
    BY <1>6, <2>1, <2>3
<1>8. ASSUME NEW d \in {Nth(next, i) : i \in 0 .. n - 2}
      PROVE  d \in S \ {first}
  <2>1. PICK i \in 0 .. n - 2 : d = Nth(next, i)
    BY <1>8
  <2>2. d \in S /\ chunk[d] = lo + 1 + i
    BY <1>1, <1>6, <2>1
  <2>3. d # first
    BY <1>2, <2>2
  <2> QED
    BY <2>2, <2>3
<1>9. S \ {first} = {Nth(next, i) : i \in 0 .. n - 2}
    BY <1>7, <1>8
<1>10. (n - 1) - 1 = n - 2 /\ n - 1 \in 0 .. NUM_DESC
    BY <1>1, <1>3
<1> HIDE DEF n, next
<1>11. Window(S \ {first}, chunk, lo + 1, hi, next, end)
    BY <1>3, <1>5, <1>6, <1>9, <1>10 DEF Window
<1> QED
    BY <1>11 DEF next
-----------------------------------------------------------------------------
(***************************************************************************)
(* What a window holds, read from its first descriptor, is the numbers     *)
(* from lo to hi - 1 in their order.                                       *)
(***************************************************************************)
Row(lo, hi) == [i \in 1 .. hi - lo |-> lo + i - 1]

LEMMA HeldIsRow ==
  ASSUME NEW S, NEW chunk, NEW lo \in Nat, NEW hi \in Nat, NEW first, NEW end,
         Window(S, chunk, lo, hi, first, end)
  PROVE  /\ hi - lo \in 0 .. NUM_DESC
         /\ Held(chunk, first, hi - lo) = Row(lo, hi)
<1>1. /\ hi - lo \in 0 .. NUM_DESC
      /\ \A i \in 0 .. (hi - lo) - 1 : chunk[Nth(first, i)] = lo + i
    BY DEF Window
<1>2. \A i \in 1 .. hi - lo : chunk[Nth(first, i - 1)] = lo + i - 1
  <2> SUFFICES ASSUME NEW i \in 1 .. hi - lo
               PROVE  chunk[Nth(first, i - 1)] = lo + i - 1
    OBVIOUS
  <2>1. i - 1 \in 0 .. (hi - lo) - 1 /\ lo + (i - 1) = lo + i - 1
    BY <1>1
  <2> QED
    BY <1>1, <2>1
<1> QED
    BY <1>1, <1>2 DEF Held, Row

(* How such a row begins, grows at its end, and loses its first number.    *)
LEMMA RowGrows ==
  ASSUME NEW lo \in Nat, NEW hi \in Nat, lo <= hi
  PROVE  /\ Row(lo, hi + 1) = Append(Row(lo, hi), hi)
         /\ Len(Row(lo, hi)) = hi - lo
         /\ Row(lo, lo) = <<>>
<1>1. hi - lo \in Nat /\ hi + 1 - lo = (hi - lo) + 1
    OBVIOUS
<1>2. Len(Row(lo, hi)) = hi - lo
    BY <1>1 DEF Row
<1>3. Row(lo, hi + 1) = Append(Row(lo, hi), hi)
    BY <1>1 DEF Row
<1>4. Row(lo, lo) = <<>>
    BY DEF Row
<1> QED
    BY <1>2, <1>3, <1>4

LEMMA RowShrinks ==
  ASSUME NEW lo \in Nat, NEW hi \in Nat, lo < hi
  PROVE  /\ Row(lo, hi) # <<>>
         /\ Head(Row(lo, hi)) = lo
         /\ Tail(Row(lo, hi)) = Row(lo + 1, hi)
<1>1. hi - lo \in Nat /\ hi - lo > 0 /\ hi - (lo + 1) = (hi - lo) - 1
    OBVIOUS
<1>2. Head(Row(lo, hi)) = lo
    BY <1>1 DEF Row
<1>3. Tail(Row(lo, hi)) = Row(lo + 1, hi)
    BY <1>1 DEF Row
<1>4. Len(Row(lo, hi)) = hi - lo /\ Len(<<>>) = 0
    BY <1>1 DEF Row
<1> QED
    BY <1>1, <1>2, <1>3, <1>4
=============================================================================
