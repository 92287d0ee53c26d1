----------------------------- MODULE PartsProofs -----------------------------
(***************************************************************************)
(* What is proved of the line buffer, by an induction over bytes that      *)
(* speaks of sets; the types of the relay, of the connections and of the   *)
(* registry, and of all parts together; and that places come free.         *)
(***************************************************************************)
EXTENDS MCParts, OutgoingProofs, DeliveryProofs, EnrollmentProofs, SequenceTheorems,
        WellFoundedInduction, TLAPS

-----------------------------------------------------------------------------
(* Induction.  The library's theorems on it take an operator, which no prover here can    *)
(* instantiate; the one on minimal elements takes a set.                                  *)

LEMMA Smallest ==
  ASSUME NEW S \in SUBSET Nat, S # {} PROVE \E n \in S : \A m \in S : n <= m
<1>1. PICK n \in S : \A m \in S : ~ (<<m, n>> \in OpToRel(<, Nat))
  BY NatLessThanWellFounded, WFMin
<1>2. \A m \in S : ~(m < n)
  BY <1>1 DEF OpToRel
<1> QED
  BY <1>2

LEMMA SetInduction ==
  ASSUME NEW S \in SUBSET Nat, 0 \in S, \A n \in S : n + 1 \in S
  PROVE  S = Nat
<1> SUFFICES ASSUME Nat \ S # {} PROVE FALSE
  OBVIOUS
<1>1. PICK n \in Nat \ S : \A m \in Nat \ S : n <= m
  BY Smallest
<1>2. n # 0 /\ n - 1 \in Nat
  OBVIOUS
<1>3. n - 1 \in S
  BY <1>1, <1>2
<1> QED
  BY <1>1, <1>2, <1>3

\* What each step makes of the value before it makes a function.
LEMMA StepsMakeAFunction ==
  ASSUME NEW T, NEW c \in T, NEW k \in Nat, NEW step \in [1..k -> [T -> T]]
  PROVE  \E g \in [0..k -> T] : g[0] = c /\ \A i \in 1..k : g[i] = step[i][g[i - 1]]
<1> DEFINE Good(n) == \E g \in [0..n -> T] : g[0] = c /\ \A i \in 1..n : g[i] = step[i][g[i - 1]]
           S == {n \in Nat : n <= k => Good(n)}
<1>1. Good(0)
  <2> DEFINE g == [i \in 0..0 |-> c]
  <2>1. g \in [0..0 -> T]
    OBVIOUS
  <2>2. g[0] = c /\ \A i \in 1..0 : g[i] = step[i][g[i - 1]]
    OBVIOUS
  <2> QED
    BY <2>1, <2>2
<1>2. ASSUME NEW n \in Nat, n + 1 <= k, Good(n) PROVE Good(n + 1)
  <2>1. PICK g \in [0..n -> T] : g[0] = c /\ \A i \in 1..n : g[i] = step[i][g[i - 1]]
    BY <1>2
  <2> DEFINE h == [i \in 0..(n + 1) |-> IF i = n + 1 THEN step[n + 1][g[n]] ELSE g[i]]
  <2>2. g[n] \in T /\ step[n + 1][g[n]] \in T
    BY <1>2
  <2>3. h \in [0..(n + 1) -> T]
    BY <2>2
  <2>4. h[0] = c /\ \A i \in 1..(n + 1) : h[i] = step[i][h[i - 1]]
    BY <2>1, <2>2
  <2> QED
    BY <2>3, <2>4
<1> HIDE DEF Good
<1>3. S = Nat
  <2>1. 0 \in S
    BY <1>1
  <2>2. ASSUME NEW n \in S PROVE n + 1 \in S
    BY <1>2
  <2> HIDE DEF S
  <2> QED
    BY <2>1, <2>2, SetInduction, S \in SUBSET Nat DEF S
<1> QED
  BY <1>3 DEF Good
-----------------------------------------------------------------------------
(* LineBuffer.  Split walks over the bytes; what it has seen of a line goes with it.      *)

Parts1 == {p \in Seq(Nat) : p # <<>>}

LEMMA GrowType ==
  ASSUME NEW p \in Parts1, NEW byte \in Bytes PROVE Grow(p, byte) \in Parts1
<1> USE DEF Parts1, Bytes
<1>1. Len(p) \in 1..Len(p) /\ p[Len(p)] \in Nat
  OBVIOUS
<1>2. CASE byte = "letter"
  <2>1. Grow(p, byte) = [p EXCEPT ![Len(p)] = p[Len(p)] + 1]
    BY <1>2 DEF Grow
  <2> QED
    BY <1>1, <2>1, ExceptSeq
<1>3. CASE byte = "newline"
  BY <1>1, <1>3 DEF Grow
<1> QED
  BY <1>2, <1>3

\* Split is the last value of a walk that takes one byte at a time.
IsWalk(g, bytes) ==
  /\ g \in [0..Len(bytes) -> Parts1]
  /\ g[0] = <<0>> /\ \A i \in 1..Len(bytes) : g[i] = Grow(g[i - 1], bytes[i])

LEMMA WalkExists ==
  ASSUME NEW bytes \in Seq(Bytes) PROVE \E g : IsWalk(g, bytes)
<1> DEFINE k == Len(bytes)
           step == [i \in 1..k |-> [p \in Parts1 |-> Grow(p, bytes[i])]]
<1>1. \A i \in 1..k : bytes[i] \in Bytes
  OBVIOUS
<1>2. step \in [1..k -> [Parts1 -> Parts1]]
  BY <1>1, GrowType
<1>3. <<0>> \in Parts1 /\ k \in Nat
  BY DEF Parts1
<1>4. PICK g \in [0..k -> Parts1] : g[0] = <<0>> /\ \A i \in 1..k : g[i] = step[i][g[i - 1]]
  <2> DEFINE first == <<0>>
  <2>1. first \in Parts1 /\ k \in Nat
    BY <1>3
  <2> HIDE DEF step, k, first
  <2>2. \E g \in [0..k -> Parts1] : g[0] = first /\ \A i \in 1..k : g[i] = step[i][g[i - 1]]
    BY <1>2, <2>1, StepsMakeAFunction
  <2> QED
    BY <2>2 DEF first
<1>5. ASSUME NEW i \in 1..k PROVE g[i] = Grow(g[i - 1], bytes[i])
  <2>1. g[i - 1] \in Parts1
    BY <1>3
  <2> QED
    BY <1>4, <2>1
<1> QED
  BY <1>4, <1>5 DEF IsWalk

\* Two walks agree as far as their bytes do.
LEMMA WalksAgree ==
  ASSUME NEW a \in Seq(Bytes), NEW b \in Seq(Bytes), NEW g, NEW h, IsWalk(g, a), IsWalk(h, b),
         NEW k \in Nat, k <= Len(a), k <= Len(b), \A i \in 1..k : a[i] = b[i]
  PROVE  \A i \in 0..k : g[i] = h[i]
<1> DEFINE S == {n \in Nat : n <= k => g[n] = h[n]}
<1>1. 0 \in S
  BY DEF IsWalk
<1>2. ASSUME NEW n \in S PROVE n + 1 \in S
  BY DEF IsWalk
<1> HIDE DEF S
<1>3. S = Nat
  BY <1>1, <1>2, SetInduction, S \in SUBSET Nat DEF S
<1> QED
  BY <1>3 DEF S

LEMMA SplitIsWalk ==
  ASSUME NEW bytes \in Seq(Bytes), NEW g, IsWalk(g, bytes) PROVE Split(bytes) = g[Len(bytes)]
<1> DEFINE k == Len(bytes)
           Def(f) == [i \in 0..k |-> IF i = 0 THEN <<0>> ELSE Grow(f[i - 1], bytes[i])]
           upTo == CHOOSE f : f = Def(f)
<1>1. k \in Nat
  OBVIOUS
<1>2. g = Def(g)
  <2>1. g = [i \in 0..k |-> g[i]]
    BY DEF IsWalk
  <2>2. \A i \in 0..k : g[i] = IF i = 0 THEN <<0>> ELSE Grow(g[i - 1], bytes[i])
    BY <1>1 DEF IsWalk
  <2> HIDE DEF k
  <2> QED
    BY <2>1, <2>2
<1>3. upTo = Def(upTo)
  BY <1>2
<1>4. \A i \in 0..k : upTo[i] = IF i = 0 THEN <<0>> ELSE Grow(upTo[i - 1], bytes[i])
  <2> HIDE DEF upTo
  <2> QED
    BY <1>3
<1>5. Split(bytes) = upTo[k]
  BY DEF Split
<1> HIDE DEF upTo
<1>6. upTo[k] = g[k]
  <2> DEFINE S == {n \in Nat : n <= k => upTo[n] = g[n]}
  <2>1. 0 \in S
    BY <1>4 DEF IsWalk
  <2>2. ASSUME NEW n \in S PROVE n + 1 \in S
    BY <1>1, <1>4 DEF IsWalk
  <2> HIDE DEF S
  <2>3. S = Nat
    BY <2>1, <2>2, SetInduction, S \in SUBSET Nat DEF S
  <2> QED
    BY <1>1, <2>3 DEF S
<1> QED
  BY <1>5, <1>6

\* The three facts that determine Split.
LEMMA SplitType == ASSUME NEW bytes \in Seq(Bytes) PROVE Split(bytes) \in Parts1
<1>1. PICK g : IsWalk(g, bytes)
  BY WalkExists
<1> QED
  BY <1>1, SplitIsWalk DEF IsWalk

LEMMA SplitEmpty == Split(<<>>) = <<0>>
<1>1. <<>> \in Seq(Bytes) /\ Len(<<>>) = 0
  OBVIOUS
<1>2. PICK g : IsWalk(g, <<>>)
  BY <1>1, WalkExists
<1> QED
  BY <1>1, <1>2, SplitIsWalk DEF IsWalk

LEMMA SplitAppend ==
  ASSUME NEW bytes \in Seq(Bytes), NEW byte \in Bytes
  PROVE  Split(Append(bytes, byte)) = Grow(Split(bytes), byte)
<1> DEFINE more == Append(bytes, byte)
           k == Len(bytes)
<1>1. more \in Seq(Bytes) /\ Len(more) = k + 1 /\ more[k + 1] = byte /\ k \in Nat
      /\ \A i \in 1..k : more[i] = bytes[i]
  OBVIOUS
<1>2. PICK g : IsWalk(g, bytes)
  BY WalkExists
<1>3. PICK h : IsWalk(h, more)
  BY <1>1, WalkExists
<1> HIDE DEF more
<1>4. h[k] = g[k]
  <2>1. k \in 0..k /\ k <= Len(more)
    BY <1>1
  <2> QED
    BY <1>1, <1>2, <1>3, <2>1, WalksAgree
<1>5. h[k + 1] = Grow(h[k], byte)
  BY <1>1, <1>3 DEF IsWalk
<1>6. Split(more) = h[k + 1] /\ Split(bytes) = g[k]
  BY <1>1, <1>2, <1>3, SplitIsWalk
<1> QED
  BY <1>4, <1>5, <1>6 DEF more

\* A new last element, of a sequence and of one with others before it.
LEMMA LastChanged ==
  ASSUME NEW p \in Seq(Nat), p # <<>>, NEW n \in Nat, NEW q, q = [p EXCEPT ![Len(p)] = n]
  PROVE  /\ q \in Seq(Nat) /\ Len(q) = Len(p)
         /\ \A i \in 1..Len(p) : q[i] = IF i = Len(p) THEN n ELSE p[i]
<1>1. Len(p) \in 1..Len(p)
  OBVIOUS
<1> DEFINE k == Len(p)
<1>2. /\ [p EXCEPT ![k] = n] \in Seq(Nat) /\ Len([p EXCEPT ![k] = n]) = Len(p)
      /\ \A i \in 1..Len(p) : [p EXCEPT ![k] = n][i] = IF i = k THEN n ELSE p[i]
  <2> HIDE DEF k
  <2>1. k \in 1..Len(p)
    BY <1>1 DEF k
  <2> QED
    BY <2>1, ExceptSeq
<1> QED
  BY <1>2

LEMMA LastChangedAfter ==
  ASSUME NEW front \in Seq(Nat), NEW p \in Seq(Nat), p # <<>>, NEW n \in Nat
  PROVE  [(front \o p) EXCEPT ![Len(front \o p)] = n] = front \o [p EXCEPT ![Len(p)] = n]
<1> DEFINE all == front \o p
           q == [p EXCEPT ![Len(p)] = n]
           new == [all EXCEPT ![Len(all)] = n]
<1>1. /\ all \in Seq(Nat) /\ all # <<>> /\ Len(all) = Len(front) + Len(p)
      /\ \A i \in 1..Len(all) : all[i] = IF i <= Len(front) THEN front[i] ELSE p[i - Len(front)]
      /\ Len(p) \in Nat \ {0} /\ Len(front) \in Nat
  OBVIOUS
<1>2. /\ q \in Seq(Nat) /\ Len(q) = Len(p)
      /\ \A i \in 1..Len(p) : q[i] = IF i = Len(p) THEN n ELSE p[i]
  BY LastChanged
<1> HIDE DEF all
<1>3. /\ new \in Seq(Nat) /\ Len(new) = Len(all)
      /\ \A i \in 1..Len(all) : new[i] = IF i = Len(all) THEN n ELSE all[i]
  BY <1>1, LastChanged
<1> HIDE DEF q, new
<1>4. /\ front \o q \in Seq(Nat) /\ Len(front \o q) = Len(front) + Len(q)
      /\ \A i \in 1..(Len(front) + Len(q)) :
            (front \o q)[i] = IF i <= Len(front) THEN front[i] ELSE q[i - Len(front)]
  BY <1>2, ConcatProperties, ZenonT(20)
<1>5. ASSUME NEW i \in 1..Len(new) PROVE new[i] = (front \o q)[i]
  <2>1. i \in 1..Len(all) /\ i \in 1..(Len(front) + Len(q)) /\ i \in Nat
    BY <1>1, <1>2, <1>3
  <2>2. new[i] = IF i = Len(all) THEN n ELSE IF i <= Len(front) THEN front[i] ELSE p[i - Len(front)]
    BY <1>1, <1>3, <2>1
  <2>3. CASE i <= Len(front)
    BY <1>1, <1>4, <2>1, <2>2, <2>3
  <2>4. CASE ~(i <= Len(front))
    <3>1. i - Len(front) \in 1..Len(p) /\ (i = Len(all) <=> i - Len(front) = Len(p))
      BY <1>1, <2>1, <2>4
    <3>2. (front \o q)[i] = q[i - Len(front)]
      BY <1>4, <2>1, <2>4
    <3> QED
      BY <1>2, <2>2, <2>4, <3>1, <3>2
  <2> QED
    BY <2>3, <2>4
<1>6. new = front \o q
  BY <1>1, <1>2, <1>3, <1>4, <1>5, SeqEqual
<1> QED
  BY <1>6 DEF new, q, all

LEMMA AppendAfter ==
  ASSUME NEW T, NEW s \in Seq(T), NEW t \in Seq(T), NEW x \in T
  PROVE  s \o t \in Seq(T) /\ s \o Append(t, x) = Append(s \o t, x)
<1>1. s \o t \in Seq(T) /\ Len(s \o t) = Len(s) + Len(t)
  OBVIOUS
<1>2. Append(t, x) \in Seq(T) /\ Append(s \o t, x) \in Seq(T) /\ s \o Append(t, x) \in Seq(T)
  BY <1>1
<1>3. Len(s \o Append(t, x)) = Len(s) + Len(t) + 1 /\ Len(Append(s \o t, x)) = Len(s) + Len(t) + 1
  BY <1>1, <1>2
<1>4. \A i \in 1..(Len(s) + Len(t) + 1) : (s \o Append(t, x))[i] = Append(s \o t, x)[i]
  BY <1>1, <1>2, <1>3
<1> QED
  BY <1>1, <1>2, <1>3, <1>4, SeqEqual

\* What comes before the incomplete line does not matter to it.
LEMMA GrowAfter ==
  ASSUME NEW front \in Seq(Nat), NEW p \in Parts1, NEW byte \in Bytes
  PROVE  Grow(front \o p, byte) = front \o Grow(p, byte)
<1> USE DEF Parts1
<1> DEFINE all == front \o p
           n == p[Len(p)] + 1
<1>1. /\ all \in Seq(Nat) /\ all # <<>> /\ all[Len(all)] = p[Len(p)] /\ n \in Nat
      /\ Len(p) \in DOMAIN p /\ Len(all) \in DOMAIN all
  OBVIOUS
<1>2. CASE byte = "letter"
  <2>1. Grow(p, byte) = [p EXCEPT ![Len(p)] = n] /\ Grow(all, byte) = [all EXCEPT ![Len(all)] = n]
    BY <1>1, <1>2 DEF Grow
  <2> HIDE DEF n
  <2> QED
    BY <1>1, <2>1, LastChangedAfter
<1>3. CASE byte = "newline"
  <2>1. Append(all, 0) = front \o Append(p, 0)
    <3>1. 0 \in Nat /\ p \in Seq(Nat)
      OBVIOUS
    <3>2. \A z \in Nat : front \o Append(p, z) = Append(front \o p, z)
      BY <3>1, AppendAfter
    <3> QED
      BY <3>1, <3>2
  <2> QED
    BY <1>1, <1>3, <2>1 DEF Grow
<1> QED
  BY <1>2, <1>3 DEF Bytes

LEMMA SplitLetters == ASSUME NEW n \in Nat PROVE Split(Letters(n)) = <<n>>
<1> DEFINE S == {k \in Nat : Split(Letters(k)) = <<k>>}
<1>1. 0 \in S
  <2>1. Letters(0) = <<>>
    BY DEF Letters
  <2> QED
    BY <2>1, SplitEmpty
<1>2. ASSUME NEW k \in S PROVE k + 1 \in S
  <2>1. Letters(k) \in Seq(Bytes) /\ Letters(k + 1) = Append(Letters(k), "letter")
    BY DEF Letters, Bytes
  <2>2. Split(Letters(k + 1)) = Grow(<<k>>, "letter")
    BY <2>1, SplitAppend DEF Bytes
  <2>3. Grow(<<k>>, "letter") = <<k + 1>>
    BY DEF Grow
  <2> QED
    BY <2>2, <2>3
<1> HIDE DEF S
<1>3. S = Nat
  BY <1>1, <1>2, SetInduction, S \in SUBSET Nat DEF S
<1> QED
  BY <1>3 DEF S

LEMMA OneMore ==
  ASSUME NEW a \in Seq(Bytes), NEW l \in Seq(Bytes), NEW h \in Seq(Bytes), NEW byte \in Bytes,
         NEW front \in Seq(Nat), Split(a \o h) = front \o Split(l \o h)
  PROVE  Split(a \o Append(h, byte)) = front \o Split(l \o Append(h, byte))
<1>1. /\ a \o h \in Seq(Bytes) /\ a \o Append(h, byte) = Append(a \o h, byte)
      /\ l \o h \in Seq(Bytes) /\ l \o Append(h, byte) = Append(l \o h, byte)
  BY AppendAfter
<1>2. Split(a \o Append(h, byte)) = Grow(Split(a \o h), byte)
  BY <1>1, SplitAppend
<1>3. Split(l \o Append(h, byte)) = Grow(Split(l \o h), byte)
  BY <1>1, SplitAppend
<1>4. Split(l \o h) \in Parts1
  BY <1>1, SplitType
<1> QED
  BY <1>2, <1>3, <1>4, GrowAfter

\* What holds of two beginnings holds however they go on.
LEMMA BothGoOn ==
  ASSUME NEW a \in Seq(Bytes), NEW l \in Seq(Bytes), NEW b \in Seq(Bytes),
         NEW front \in Seq(Nat), Split(a) = front \o Split(l)
  PROVE  Split(a \o b) = front \o Split(l \o b)
<1> DEFINE S == {n \in Nat : n <= Len(b) =>
                    Split(a \o SubSeq(b, 1, n)) = front \o Split(l \o SubSeq(b, 1, n))}
<1>1. 0 \in S
  <2>1. a \o SubSeq(b, 1, 0) = a /\ l \o SubSeq(b, 1, 0) = l
    OBVIOUS
  <2> QED
    BY <2>1
<1>2. ASSUME NEW n \in S PROVE n + 1 \in S
  <2>1. CASE n + 1 <= Len(b)
    <3>1. n \in Nat /\ SubSeq(b, 1, n) \in Seq(Bytes) /\ b[n + 1] \in Bytes
      BY <2>1
    <3>2. SubSeq(b, 1, n + 1) = Append(SubSeq(b, 1, n), b[n + 1])
      BY <2>1, <3>1
    <3>3. Split(a \o SubSeq(b, 1, n)) = front \o Split(l \o SubSeq(b, 1, n))
      BY <2>1, <3>1
    <3>4. Split(a \o SubSeq(b, 1, n + 1)) = front \o Split(l \o SubSeq(b, 1, n + 1))
      <4> DEFINE h == SubSeq(b, 1, n)
                 byte == b[n + 1]
      <4>1. h \in Seq(Bytes) /\ byte \in Bytes /\ Split(a \o h) = front \o Split(l \o h)
        BY <3>1, <3>3
      <4> HIDE DEF h, byte
      <4>2. Split(a \o Append(h, byte)) = front \o Split(l \o Append(h, byte))
        BY <4>1, OneMore
      <4> QED
        BY <3>2, <4>2 DEF h, byte
    <3> QED
      BY <3>1, <3>4
  <2>2. CASE ~(n + 1 <= Len(b))
    BY <2>2
  <2> QED
    BY <2>1, <2>2
<1>3. Len(b) \in S
  <2> HIDE DEF S
  <2>1. S = Nat
    BY <1>1, <1>2, SetInduction, S \in SUBSET Nat DEF S
  <2> QED
    BY <2>1
<1>4. SubSeq(b, 1, Len(b)) = b /\ Len(b) \in Nat
  OBVIOUS
<1>5. Split(a \o SubSeq(b, 1, Len(b))) = front \o Split(l \o SubSeq(b, 1, Len(b)))
  BY <1>3, <1>4
<1> QED
  BY <1>4, <1>5

\* The lines that are complete and the one that is not are all the parts.
LEMMA PartsOf ==
  ASSUME NEW p \in Parts1
  PROVE  /\ Complete(p) \in Seq(Nat) /\ p[Len(p)] \in Nat
         /\ p = Complete(p) \o <<p[Len(p)]>>
  BY DEF Parts1, Complete

\* The buffer stands for all that has come before: splitting goes on from it as it would
\* from the first byte on.
LEMMA SplitGoesOn ==
  ASSUME NEW a \in Seq(Bytes), NEW b \in Seq(Bytes)
  PROVE  Split(a \o b) = Complete(Split(a)) \o Split(Letters(Split(a)[Len(Split(a))]) \o b)
<1> DEFINE parts == Split(a)
           rest == parts[Len(parts)]
<1>1. parts \in Parts1
  BY SplitType
<1> HIDE DEF parts
<1>2. rest \in Nat /\ Complete(parts) \in Seq(Nat) /\ parts = Complete(parts) \o <<rest>>
  BY <1>1, PartsOf
<1> HIDE DEF rest
<1>3. Letters(rest) \in Seq(Bytes)
  BY <1>2 DEF Letters, Bytes
<1>4. Split(a) = Complete(parts) \o Split(Letters(rest))
  BY <1>2, SplitLetters DEF parts
<1>5. Split(a \o b) = Complete(parts) \o Split(Letters(rest) \o b)
  BY <1>2, <1>3, <1>4, BothGoOn
<1> QED
  BY <1>5 DEF parts, rest

\* No complete line is empty.
NoneEmpty(parts) == \A i \in 1..(Len(parts) - 1) : parts[i] # 0

LEMMA GrowNoneEmpty ==
  ASSUME NEW p \in Parts1, NoneEmpty(p), NEW byte \in Bytes PROVE NoneEmpty(Grow(p, byte))
<1>1. p \in Seq(Nat) /\ p # <<>> /\ Len(p) \in Nat \ {0} /\ p[Len(p)] \in Nat
  BY DEF Parts1
<1>2. CASE byte = "letter"
  <2> DEFINE n == p[Len(p)] + 1
  <2>1. n \in Nat /\ Grow(p, byte) = [p EXCEPT ![Len(p)] = n]
    BY <1>1, <1>2 DEF Grow
  <2> HIDE DEF n
  <2> DEFINE q == [p EXCEPT ![Len(p)] = n]
  <2>2. Len(q) = Len(p) /\ \A i \in 1..Len(p) : q[i] = IF i = Len(p) THEN n ELSE p[i]
    BY <1>1, <2>1, LastChanged
  <2> HIDE DEF q
  <2>3. NoneEmpty(q)
    BY <1>1, <2>2 DEF NoneEmpty
  <2> QED
    BY <2>1, <2>3 DEF q
<1>3. CASE byte = "newline"
  BY <1>1, <1>3 DEF Grow, NoneEmpty
<1> QED
  BY <1>2, <1>3 DEF Bytes

LEMMA SplitNoneEmpty == ASSUME NEW b \in Seq(Bytes) PROVE NoneEmpty(Split(b))
<1> DEFINE S == {n \in Nat : n <= Len(b) => NoneEmpty(Split(SubSeq(b, 1, n)))}
<1>1. 0 \in S
  <2>1. SubSeq(b, 1, 0) = <<>>
    OBVIOUS
  <2>2. Len(<<0>>) - 1 = 0
    OBVIOUS
  <2>3. NoneEmpty(<<0>>)
    BY <2>2 DEF NoneEmpty
  <2> QED
    BY <2>1, <2>3, SplitEmpty
<1>2. ASSUME NEW n \in S PROVE n + 1 \in S
  <2>1. CASE n + 1 <= Len(b)
    <3> DEFINE h == SubSeq(b, 1, n)
               byte == b[n + 1]
    <3>1. n \in Nat /\ h \in Seq(Bytes) /\ byte \in Bytes /\ NoneEmpty(Split(h))
      BY <2>1
    <3>2. SubSeq(b, 1, n + 1) = Append(h, byte)
      BY <2>1, <3>1
    <3> HIDE DEF h, byte
    <3>3. Split(Append(h, byte)) = Grow(Split(h), byte) /\ Split(h) \in Parts1
      BY <3>1, SplitAppend, SplitType
    <3>4. NoneEmpty(Split(SubSeq(b, 1, n + 1)))
      BY <3>1, <3>2, <3>3, GrowNoneEmpty
    <3> QED
      BY <3>1, <3>4
  <2>2. CASE ~(n + 1 <= Len(b))
    BY <2>2
  <2> QED
    BY <2>1, <2>2
<1>3. Len(b) \in S
  <2> HIDE DEF S
  <2>1. S = Nat
    BY <1>1, <1>2, SetInduction, S \in SUBSET Nat DEF S
  <2> QED
    BY <2>1
<1>4. SubSeq(b, 1, Len(b)) = b /\ Len(b) \in Nat
  OBVIOUS
<1>5. NoneEmpty(Split(SubSeq(b, 1, Len(b))))
  BY <1>3, <1>4
<1> QED
  BY <1>4, <1>5

-----------------------------------------------------------------------------
(* Lines *)

\* What is buffered and what has been handed over make up all that has come.
FramesInv ==
  /\ FramesTypeOK
  /\ connected => LET parts == Split(received) IN
                  lines = Complete(parts) /\ buffered = parts[Len(parts)]
  /\ LinesAreWhole

LEMMA FramesInitInv == FramesInit => FramesInv
<1> SUFFICES ASSUME FramesInit PROVE FramesInv
  OBVIOUS
<1>1. received \in Seq(Bytes) /\ lines \in Seq(1..MaxLine) /\ Len(received) = 0
  BY DEF FramesInit
<1>2. Complete(<<0>>) = <<>>
  BY DEF Complete
<1>3. MaxLine \in Nat /\ MaxBytes \in Nat
  BY FramesAssumption
<1> QED
  BY <1>1, <1>2, <1>3, SplitEmpty DEF FramesInit, FramesInv, FramesTypeOK, LinesAreWhole

LEMMA CompleteType ==
  ASSUME NEW p \in Parts1
  PROVE  /\ Complete(p) \in Seq(Nat) /\ Len(Complete(p)) = Len(p) - 1
         /\ \A i \in 1..(Len(p) - 1) : Complete(p)[i] = p[i]
<1> DEFINE n == Len(p) - 1
<1>1. p \in Seq(Nat) /\ n \in Nat /\ n <= Len(p)
  BY DEF Parts1
<1> HIDE DEF n
<1>2. /\ SubSeq(p, 1, n) \in Seq(Nat) /\ Len(SubSeq(p, 1, n)) = n
      /\ \A i \in 1..n : SubSeq(p, 1, n)[i] = p[i]
  BY <1>1
<1> QED
  BY <1>2 DEF n, Complete

\* The parts that come after others.
LEMMA PartsAfter ==
  ASSUME NEW front \in Seq(Nat), NEW p \in Parts1
  PROVE  LET all == front \o p IN
         /\ all \in Parts1 /\ all[Len(all)] = p[Len(p)]
         /\ Complete(all) = front \o Complete(p)
         /\ SubSeq(Complete(all), 1, Len(front)) = front
         /\ TooLong(p) => TooLong(all)
<1> DEFINE all == front \o p
           m == Len(front)
           k == Len(p)
<1>1. p \in Seq(Nat) /\ k \in Nat \ {0} /\ m \in Nat
  BY DEF Parts1
<1>2. /\ all \in Seq(Nat) /\ Len(all) = m + k
      /\ \A i \in 1..(m + k) : all[i] = IF i <= m THEN front[i] ELSE p[i - m]
  BY <1>1
<1>3. all \in Parts1 /\ all[Len(all)] = p[Len(p)]
  BY <1>1, <1>2 DEF Parts1
<1>4. TooLong(p) => TooLong(all)
  <2> SUFFICES ASSUME NEW i \in 1..k, p[i] > MaxLine PROVE \E j \in 1..Len(all) : all[j] > MaxLine
    BY DEF TooLong
  <2>1. m + i \in 1..(m + k) /\ ~(m + i <= m) /\ (m + i) - m = i
    BY <1>1
  <2>2. all[m + i] = p[i]
    BY <1>2, <2>1
  <2> QED
    BY <1>2, <2>1, <2>2
<1>5. /\ Complete(p) \in Seq(Nat) /\ Len(Complete(p)) = k - 1
      /\ \A i \in 1..(k - 1) : Complete(p)[i] = p[i]
  BY CompleteType
<1> HIDE DEF all
<1>6. /\ Complete(all) \in Seq(Nat) /\ Len(Complete(all)) = m + k - 1
      /\ \A i \in 1..(m + k - 1) : Complete(all)[i] = all[i]
  <2>1. /\ Complete(all) \in Seq(Nat) /\ Len(Complete(all)) = Len(all) - 1
        /\ \A i \in 1..(Len(all) - 1) : Complete(all)[i] = all[i]
    BY <1>3, CompleteType
  <2>2. Len(all) - 1 = m + k - 1
    BY <1>1, <1>2
  <2> QED
    BY <2>1, <2>2, Zenon
<1> DEFINE c == Complete(p)
           d == Complete(all)
<1> HIDE DEF c, d
<1>7. Complete(all) = front \o Complete(p)
  <2>1. c \in Seq(Nat) /\ Len(c) = k - 1 /\ \A i \in 1..(k - 1) : c[i] = p[i]
    BY <1>5 DEF c
  <2>2. d \in Seq(Nat) /\ Len(d) = m + k - 1 /\ \A i \in 1..(m + k - 1) : d[i] = all[i]
    BY <1>6 DEF d
  <2>3. /\ front \o c \in Seq(Nat) /\ Len(front \o c) = m + k - 1
        /\ \A i \in 1..(m + k - 1) : (front \o c)[i] = IF i <= m THEN front[i] ELSE c[i - m]
    <3>1. /\ front \o c \in Seq(Nat) /\ Len(front \o c) = Len(front) + Len(c)
          /\ \A i \in 1..(Len(front) + Len(c)) :
                (front \o c)[i] = IF i <= Len(front) THEN front[i] ELSE c[i - Len(front)]
      BY <2>1, ConcatProperties, ZenonT(20)
    <3>2. Len(front) + Len(c) = m + k - 1
      BY <1>1, <2>1
    <3> QED
      BY <3>1, <3>2, Zenon
  <2>4. ASSUME NEW i \in 1..(m + k - 1) PROVE (front \o c)[i] = d[i]
    <3>1. i \in 1..(m + k) /\ (~(i <= m) => i - m \in 1..(k - 1))
      BY <1>1
    <3> QED
      BY <1>2, <2>1, <2>2, <2>3, <3>1
  <2>5. d = front \o c
    BY <2>2, <2>3, <2>4, SeqEqual
  <2> QED
    BY <2>5 DEF c, d
<1>8. SubSeq(Complete(all), 1, m) = front
  <2>1. d \in Seq(Nat) /\ Len(d) = m + k - 1 /\ m <= Len(d) /\ \A i \in 1..m : d[i] = front[i]
    <3>1. d \in Seq(Nat) /\ Len(d) = m + k - 1 /\ m <= m + k - 1
      BY <1>1, <1>6 DEF d
    <3>2. ASSUME NEW i \in 1..m PROVE d[i] = front[i]
      <4>1. i \in 1..(m + k - 1) /\ i \in 1..(m + k) /\ i <= m
        BY <1>1
      <4> QED
        BY <1>2, <1>6, <4>1 DEF d
    <3> QED
      BY <3>1, <3>2
  <2> DEFINE e == SubSeq(d, 1, m)
  <2>2. e \in Seq(Nat) /\ Len(e) = Len(front) /\ \A i \in 1..Len(front) : e[i] = d[i]
    BY <1>1, <2>1
  <2> HIDE DEF e
  <2>3. e = front
    BY <2>1, <2>2, SeqEqual
  <2> QED
    BY <2>3 DEF d, e
<1> QED
  BY <1>3, <1>4, <1>7, <1>8 DEF all

\* A line that is within the limit and not empty is one that decode_frame takes.
LEMMA LinesType ==
  ASSUME NEW p \in Parts1, NoneEmpty(p), ~TooLong(p)
  PROVE  Complete(p) \in Seq(1..MaxLine) /\ p[Len(p)] \in 0..MaxLine
<1>1. p \in Seq(Nat) /\ Len(p) \in Nat \ {0} /\ MaxLine \in Nat
  BY FramesAssumption DEF Parts1
<1>2. \A i \in 1..Len(p) : p[i] \in 0..MaxLine
  BY <1>1 DEF TooLong
<1>3. \A i \in 1..(Len(p) - 1) : p[i] \in 1..MaxLine
  BY <1>1, <1>2 DEF NoneEmpty
<1>4. Complete(p) \in Seq(1..MaxLine)
  BY <1>1, <1>3 DEF Complete
<1> QED
  BY <1>1, <1>2, <1>4

LEMMA FramesStep == FramesInv /\ [FramesNext]_framesVars => FramesInv'
<1> SUFFICES ASSUME FramesInv, [FramesNext]_framesVars PROVE FramesInv'
  OBVIOUS
<1> USE DEF FramesInv
<1>1. CASE UNCHANGED framesVars
  BY <1>1 DEF framesVars, FramesTypeOK, LinesAreWhole
<1>2. ASSUME NEW data \in Chunks, Feed(data) PROVE FramesInv'
  <2> DEFINE whole == Split(received)
             parts == Split(Letters(buffered) \o data)
             all == Split(received \o data)
  <2>1. data \in Seq(Bytes) /\ received \in Seq(Bytes) /\ received \o data \in Seq(Bytes)
    BY DEF FramesTypeOK, Chunks
  <2>2. /\ connected /\ received' = received \o data /\ Len(received \o data) <= MaxBytes
        /\ lines = Complete(whole) /\ buffered = whole[Len(whole)]
        /\ buffered \in Nat /\ lines \in Seq(Nat)
    <3>1. connected /\ received' = received \o data /\ Len(received) + Len(data) <= MaxBytes
      BY <1>2 DEF Feed
    <3>2. lines = Complete(whole) /\ buffered = whole[Len(whole)]
      BY <3>1
    <3>3. whole \in Parts1
      BY <2>1, SplitType
    <3> HIDE DEF whole
    <3>4. buffered \in Nat /\ lines \in Seq(Nat)
      BY <3>2, <3>3, PartsOf
    <3> QED
      BY <2>1, <3>1, <3>2, <3>4
  <2>3. Letters(buffered) \o data \in Seq(Bytes)
    BY <2>1, <2>2 DEF Letters, Bytes
  <2>4. parts \in Parts1 /\ NoneEmpty(parts)
    BY <2>3, SplitType, SplitNoneEmpty
  <2>5. all = lines \o parts
    BY <2>1, <2>2, SplitGoesOn
  <2>6. IF TooLong(parts)
          THEN connected' = FALSE /\ lines' = lines /\ buffered' = buffered
          ELSE /\ lines' = lines \o Complete(parts)
               /\ buffered' = parts[Len(parts)]
               /\ connected' = connected
    BY <1>2 DEF Feed
  <2> HIDE DEF parts, whole
  <2>7. /\ all[Len(all)] = parts[Len(parts)]
        /\ Complete(all) = lines \o Complete(parts)
        /\ SubSeq(Complete(all), 1, Len(lines)) = lines
        /\ TooLong(parts) => TooLong(all)
    BY <2>2, <2>4, <2>5, PartsAfter
  <2>8. Split(received') = all
    BY <2>2
  <2> HIDE DEF all
  <2>9. CASE TooLong(parts)
    BY <2>1, <2>2, <2>6, <2>7, <2>8, <2>9 DEF FramesTypeOK, LinesAreWhole
  <2>10. CASE ~TooLong(parts)
    <3>1. Complete(parts) \in Seq(1..MaxLine) /\ parts[Len(parts)] \in 0..MaxLine
      BY <2>4, <2>10, LinesType
    <3>2. lines' \in Seq(1..MaxLine)
      <4>1. lines \in Seq(1..MaxLine)
        BY DEF FramesTypeOK
      <4> QED
        BY <2>6, <2>10, <3>1, <4>1, ConcatProperties
    <3>3. FramesTypeOK'
      BY <2>1, <2>2, <2>6, <2>10, <3>1, <3>2 DEF FramesTypeOK
    <3>4. connected' /\ lines' = Complete(all) /\ buffered' = all[Len(all)]
      BY <2>2, <2>6, <2>7, <2>10
    <3>5. buffered' <= MaxLine
      BY <2>6, <2>10, <3>1, FramesAssumption
    <3> QED
      BY <2>8, <3>3, <3>4, <3>5 DEF LinesAreWhole
  <2> QED
    BY <2>9, <2>10
<1> QED
  BY <1>1, <1>2 DEF FramesNext

LEMMA FramesInvAlways == FramesSpec => []FramesInv
  BY FramesInitInv, FramesStep, PTL DEF FramesSpec

\* LineBuffer keeps no more than a line of the permitted length, and hands over none that
\* is empty or longer.
THEOREM FramesTypeAlways == FramesSpec => []FramesTypeOK
  BY FramesInvAlways, PTL DEF FramesInv

\* However recv cuts the bytes, the lines decode_frame gets are those of the whole stream,
\* none twice and none in two pieces, up to the line over the limit that ends it.
THEOREM LinesAreWholeAlways == FramesSpec => []LinesAreWhole
  BY FramesInvAlways, PTL DEF FramesInv

-----------------------------------------------------------------------------
(* The types of the chain of hops *)

\* Commands are numbered as they begin, so that what a message answers has a smaller
\* number; a chain is no longer than the number of its last message, and no message with
\* more hops than decode_frame takes is on its way.
Numbered(m) ==
  /\ sending[m].pc # "free" => \A n \in 1..(m - 1) : sending[n].pc # "free"
  /\ chain[m] <= m
  /\ Len(arrived[m].hops) <= ChainLimit

RelayInv == ChainInv /\ \A m \in Sends : Numbered(m)

LEMMA RelayInitInv == RelayInit => RelayInv
BY ChainInitInv, RelayAssumption DEF RelayInit, RelayInv, Numbered, NotSent, NotArrived, Sends

\* A step that begins no command.
LEMMA NumbersStay ==
  ASSUME RelayInv, UNCHANGED chain,
         \A k \in Sends : (sending'[k].pc = "free" <=> sending[k].pc = "free"),
         \A k \in Sends : Len(arrived'[k].hops) <= ChainLimit, NEW k \in Sends
  PROVE  Numbered(k)'
<1>1. \A n \in 1..(k - 1) : n \in Sends
  BY RelayAssumption DEF Sends
<1> QED
  BY <1>1 DEF RelayInv, Numbered

\* A command that begins.
LEMMA NumbersGoOn ==
  ASSUME RelayInv, NEW m \in Sends, IsNext(m), UNCHANGED arrived, sending'[m].pc # "free",
         \A k \in Sends \ {m} : sending'[k] = sending[k] /\ chain'[k] = chain[k],
         chain'[m] <= m, NEW k \in Sends
  PROVE  Numbered(k)'
<1>1. \A n \in 1..(k - 1) : n \in Sends
  BY RelayAssumption DEF Sends
<1>2. CASE k = m
  BY <1>1, <1>2 DEF RelayInv, Numbered, IsNext
<1>3. CASE k # m
  <2>1. sending'[k].pc # "free" => \A n \in 1..(k - 1) : sending'[n].pc # "free"
    BY <1>1, <1>3 DEF RelayInv, Numbered
  <2> QED
    BY <1>3, <2>1 DEF RelayInv, Numbered
<1> QED
  BY <1>2, <1>3

LEMMA RelayStep == ASSUME RelayInv, [RelayNext]_relayVars PROVE RelayInv'
<1>0. ChainInv /\ RelayTypes /\ MaxSends \in Nat
  BY RelayAssumption DEF RelayInv, ChainInv
<1>1. ASSUME NEW m \in Sends, NEW a \in Bridges, NEW b \in Bridges, SendsNew(m, a, b),
             NEW k \in Sends
      PROVE  Numbered(k)'
  <2>1. /\ IsNext(m) /\ UNCHANGED arrived /\ sending'[m].pc # "free" /\ chain'[m] = 1
        /\ \A i \in Sends \ {m} : sending'[i] = sending[i] /\ chain'[i] = chain[i]
    BY <1>0, <1>1 DEF SendsNew, RelayTypes
  <2> QED
    BY <2>1, NumbersGoOn DEF Sends
<1>2. ASSUME NEW m \in Sends, NEW n \in Sends, Answers(m, n), NEW k \in Sends PROVE Numbered(k)'
  <2>1. /\ IsNext(m) /\ UNCHANGED arrived /\ sending'[m].pc # "free" /\ chain'[m] = chain[n] + 1
        /\ \A i \in Sends \ {m} : sending'[i] = sending[i] /\ chain'[i] = chain[i]
        /\ arrived[n].status = "offered"
    BY <1>0, <1>2 DEF Answers, RelayTypes
  <2>2. sending[n].pc = "done" /\ Numbered(n)
    BY <1>0, <2>1 DEF RelayInv, ChainInv, Chained
  <2>3. n < m
    BY <2>1, <2>2 DEF IsNext, Numbered, Sends
  <2>4. chain'[m] <= m
    BY <1>0, <2>1, <2>2, <2>3 DEF Numbered, RelayTypes, Sends
  <2> QED
    BY <2>1, <2>4, NumbersGoOn
<1>3. ASSUME NEW m \in Sends, Notes(m) \/ Queues(m) \/ SendFails(m), NEW k \in Sends PROVE Numbered(k)'
  <2>1. /\ UNCHANGED <<chain, arrived>>
        /\ \A i \in Sends : (sending'[i].pc = "free" <=> sending[i].pc = "free")
    BY <1>0, <1>3 DEF Notes, Queues, SendFails, RelayTypes
  <2>2. \A i \in Sends : Len(arrived'[i].hops) <= ChainLimit
    BY <2>1 DEF RelayInv, Numbered
  <2> QED
    BY <2>1, <2>2, NumbersStay
<1>4. ASSUME NEW m \in Sends, NEW arrives \in BOOLEAN, Dispatches(m, arrives), NEW k \in Sends
      PROVE  Numbered(k)'
  <2>1. UNCHANGED chain /\ \A i \in Sends : (sending'[i].pc = "free" <=> sending[i].pc = "free")
    BY <1>0, <1>4 DEF Dispatches, RelayTypes
  <2>2. \A i \in Sends : Len(arrived'[i].hops) <= ChainLimit
    BY <1>0, <1>4 DEF Dispatches, RelayTypes, RelayInv, Numbered
  <2> QED
    BY <2>1, <2>2, NumbersStay
<1>5. ASSUME NEW m \in Sends, Guarded(m), NEW k \in Sends PROVE Numbered(k)'
  <2>1. UNCHANGED <<chain, sending>> /\ \A i \in Sends : arrived'[i].hops = arrived[i].hops
    BY <1>0, <1>5 DEF Guarded, RelayTypes
  <2>2. \A i \in Sends : Len(arrived'[i].hops) <= ChainLimit
    BY <2>1 DEF RelayInv, Numbered
  <2> QED
    BY <2>1, <2>2, NumbersStay
<1>6. ASSUME UNCHANGED relayVars, NEW k \in Sends PROVE Numbered(k)'
  BY <1>6 DEF relayVars, RelayInv, Numbered
<1>7. ChainInv'
  BY <1>0, ChainStep
<1>8. \A k \in Sends : Numbered(k)'
  BY <1>1, <1>2, <1>3, <1>4, <1>5, <1>6 DEF RelayNext
<1> QED
  BY <1>7, <1>8 DEF RelayInv

LEMMA RelayTyped == RelayInv => RelayTypeOK
<1> SUFFICES ASSUME RelayInv PROVE RelayTypeOK
  OBVIOUS
<1>1. RelayTypes
  BY DEF RelayInv, ChainInv
<1>2. \A m \in Sends : chain[m] \in 0..MaxSends
  BY <1>1, RelayAssumption DEF RelayInv, Numbered, RelayTypes, Sends
<1>3. chain \in [Sends -> 0..MaxSends]
  BY <1>1, <1>2 DEF RelayTypes
<1>4. \A m \in Sends : arrived[m].status \in {"none", "received", "offered", "held"}
                       /\ Len(arrived[m].hops) <= ChainLimit
  BY <1>1 DEF RelayInv, Numbered, RelayTypes
<1> QED
  BY <1>1, <1>3, <1>4 DEF RelayTypes, RelayTypeOK

\* No message arrives with more hops than the receiver's decode_frame takes, and no chain
\* of answers is longer than the messages sent so far.
THEOREM RelayTypeAlways == RelaySpec => []RelayTypeOK
<1>1. RelayInv /\ [RelayNext]_relayVars => RelayInv'
  BY RelayStep
<1> QED
  BY RelayInitInv, <1>1, RelayTyped, PTL DEF RelaySpec

-----------------------------------------------------------------------------
(* The types of the listener's connections, and its places *)

Clients == [connect : Connects, key : ChatPeers, old : BOOLEAN]

ServerTypes ==
  /\ started \in 0..MaxProcess /\ connects \in 0..MaxConnects
  /\ snapshotOf \in SUBSET ChatPeers
  /\ backlog \in SUBSET Connects /\ clients \in SUBSET Clients
  /\ senderKeys \in [Pids -> {{p} : p \in ChatPeers} \cup {{}}]
  /\ IsFiniteSet(clients) /\ Cardinality(clients) <= MaxClients

ServerInv == ConnectionsInv /\ ServerTypes

LEMMA ServerInitInv == ConnectionsInit => ServerInv
BY ConnectionsInitInv, ConnectionsAssumption, FS_EmptySet DEF ConnectionsInit, ServerInv, ServerTypes

LEMMA ServerTypesStep == ASSUME ServerInv, [ConnectionsNext]_connectionsVars PROVE ServerTypes'
<1>0. /\ ConnectionsInv /\ ConnectionTypes /\ ServerTypes
      /\ MaxProcess \in Nat /\ MaxClients \in Nat /\ MaxConnects \in Nat
  BY ConnectionsAssumption DEF ServerInv, ConnectionsInv
<1> DEFINE Remembered == {{p} : p \in ChatPeers} \cup {{}}
<1>1. ASSUME UNCHANGED serverVars, started' \in 0..MaxProcess, connects' \in 0..MaxConnects,
             backlog' \in SUBSET Connects
      PROVE  ServerTypes'
  BY <1>0, <1>1 DEF serverVars, ServerTypes
<1>2. ASSUME NEW p \in ChatPeers, NEW i \in Pids, Spawns(p, i) \/ Publishes(p, i)
      PROVE  ServerTypes'
  BY <1>0, <1>1, <1>2 DEF Spawns, Publishes, ServerTypes
<1>3. ASSUME NEW i \in Pids, NEW retracts \in BOOLEAN, Exits(i, retracts) PROVE ServerTypes'
  BY <1>0, <1>1, <1>3 DEF Exits, ServerTypes
<1>4. ASSUME NEW p \in ChatPeers, Enrolls(p) PROVE ServerTypes'
  BY <1>0, <1>1, <1>4 DEF Enrolls, ServerTypes
<1>5. ASSUME NEW i \in Pids, ConnectsFrom(i) PROVE ServerTypes'
  <2>1. PICK p \in process[i].who :
          /\ connects < MaxConnects /\ connects' = connects + 1
          /\ backlog' = backlog \cup {[pid |-> i, by |-> p, number |-> process[i].number,
                                       id |-> connects + 1]}
          /\ UNCHANGED <<machineVars, serverVars>>
    BY <1>5 DEF ConnectsFrom
  <2>2. process[i] \in Processes
    <3>1. p \notin Nobody.who
      BY DEF Nobody
    <3> QED
      BY <1>0, <2>1, <3>1 DEF ConnectionTypes
  <2>3. p \in ChatPeers /\ process[i].number \in 1..MaxProcess
    BY <2>1, <2>2 DEF Processes
  <2>4. connects + 1 \in 1..MaxConnects
    BY <1>0, <2>1 DEF ServerTypes
  <2>5. [pid |-> i, by |-> p, number |-> process[i].number, id |-> connects + 1] \in Connects
    BY <2>3, <2>4 DEF Connects
  <2> QED
    BY <1>0, <1>1, <2>1, <2>4, <2>5 DEF machineVars, ServerTypes
<1>6. ASSUME NEW c \in backlog, Accepts(c) PROVE ServerTypes'
  <2> DEFINE found == Matches(c.pid)
             room == Cardinality(clients) < MaxClients
  <2>1. c \in Connects /\ c.pid \in Pids
    BY <1>0 DEF ServerTypes, Connects
  <2>2. found \in SUBSET ChatPeers
    BY <1>0 DEF Matches, ConnectionTypes
  <2>3. Hints \in [Pids -> Remembered]
    BY <1>0 DEF Hints, ServerTypes
  <2>4. /\ backlog' = backlog \ {c} /\ UNCHANGED <<machineVars, known, connects>>
        /\ snapshotOf' = IF room THEN known ELSE snapshotOf
    BY <1>6 DEF Accepts, HasRoom
  <2>5. CASE room /\ Cardinality(found) = 1
    <3>1. PICK p \in ChatPeers : found = {p}
      BY <1>0, <2>2, <2>5, FoundIsOne
    <3> DEFINE new == [connect |-> c, key |-> p, old |-> FALSE]
    <3>2. clients' = clients \cup {new} /\ senderKeys' = [Hints EXCEPT ![c.pid] = {p}]
      BY <1>6, <2>5, <3>1 DEF Accepts, HasRoom
    <3>3. new \in Clients
      BY <2>1 DEF Clients
    <3>4. senderKeys' \in [Pids -> Remembered]
      BY <2>1, <2>3, <3>2
    <3> HIDE DEF new
    <3>5. IsFiniteSet(clients) /\ Cardinality(clients) \in Nat
      BY <1>0, FS_CardinalityType DEF ServerTypes
    <3>6. IsFiniteSet(clients') /\ Cardinality(clients') <= Cardinality(clients) + 1
          /\ Cardinality(clients') \in Nat
      <4>1. /\ IsFiniteSet(clients \cup {new})
            /\ Cardinality(clients \cup {new}) = IF new \in clients THEN Cardinality(clients)
                                                  ELSE Cardinality(clients) + 1
        BY <3>5, FS_AddElement
      <4>2. clients' = clients \cup {new}
        BY <3>2
      <4> QED
        BY <3>5, <4>1, <4>2
    <3>7. Cardinality(clients') <= MaxClients
      BY <1>0, <2>5, <3>5, <3>6
    <3>8. clients' \in SUBSET Clients /\ snapshotOf' \in SUBSET ChatPeers
      BY <1>0, <2>4, <2>5, <3>2, <3>3 DEF ServerTypes, ConnectionTypes
    <3> QED
      BY <1>0, <2>4, <3>4, <3>6, <3>7, <3>8 DEF machineVars, ServerTypes
  <2>6. CASE ~(room /\ Cardinality(found) = 1)
    <3>1. UNCHANGED clients /\ senderKeys' = IF room THEN [Hints EXCEPT ![c.pid] = {}] ELSE senderKeys
      BY <1>6, <2>6 DEF Accepts, HasRoom
    <3>2. senderKeys' \in [Pids -> Remembered]
      BY <1>0, <2>1, <2>3, <3>1 DEF ServerTypes
    <3> QED
      BY <1>0, <2>4, <3>1, <3>2 DEF machineVars, ServerTypes, ConnectionTypes
  <2> QED
    BY <2>5, <2>6
<1>7. ASSUME UNCHANGED <<machineVars, backlog, connects, senderKeys, snapshotOf>>,
             clients' \in SUBSET Clients, IsFiniteSet(clients'),
             Cardinality(clients') <= Cardinality(clients)
      PROVE  ServerTypes'
  <2>1. Cardinality(clients') \in Nat /\ Cardinality(clients) \in Nat
    BY <1>0, <1>7, FS_CardinalityType DEF ServerTypes
  <2> QED
    BY <1>0, <1>7, <2>1 DEF machineVars, ServerTypes
<1>8. ASSUME NEW c \in clients, Closes(c) PROVE ServerTypes'
  <2>1. clients' \in SUBSET clients
    BY <1>8 DEF Closes
  <2>2. IsFiniteSet(clients') /\ Cardinality(clients') <= Cardinality(clients)
    BY <1>0, <2>1, FS_Subset DEF ServerTypes
  <2> QED
    BY <1>0, <1>7, <1>8, <2>1, <2>2 DEF Closes, ServerTypes
<1>9. CASE TimePasses
  <2>1. PICK c \in clients : GrowsOld(c)
    BY <1>9 DEF TimePasses
  <2> DEFINE d == [c EXCEPT !.old = TRUE]
             rest == clients \ {c}
  <2>2. clients' = rest \cup {d}
    BY <2>1 DEF GrowsOld
  <2>3. d \in Clients
    BY <1>0 DEF ServerTypes, Clients
  <2> HIDE DEF d
  <2>4. IsFiniteSet(rest) /\ Cardinality(rest) = Cardinality(clients) - 1
    BY <1>0, FS_RemoveElement DEF ServerTypes
  <2>5. IsFiniteSet(clients') /\ Cardinality(clients') <= Cardinality(rest) + 1
    BY <2>2, <2>4, FS_AddElement, FS_CardinalityType
  <2>6. Cardinality(clients') <= Cardinality(clients)
    BY <1>0, <2>4, <2>5, FS_CardinalityType DEF ServerTypes
  <2>7. clients' \in SUBSET Clients
    BY <1>0, <2>2, <2>3 DEF ServerTypes
  <2> QED
    BY <1>7, <2>1, <2>5, <2>6, <2>7 DEF GrowsOld
<1>10. CASE ClosesOld
  <2>1. clients' \in SUBSET clients
    BY <1>10 DEF ClosesOld
  <2>2. IsFiniteSet(clients') /\ Cardinality(clients') <= Cardinality(clients)
    BY <1>0, <2>1, FS_Subset DEF ServerTypes
  <2> QED
    BY <1>0, <1>7, <1>10, <2>1, <2>2 DEF ClosesOld, ServerTypes
<1>11. CASE RoundBegins \/ UNCHANGED connectionsVars
  BY <1>0, <1>11 DEF RoundBegins, connectionsVars, machineVars, ServerTypes
<1> QED
  BY <1>2, <1>3, <1>4, <1>5, <1>6, <1>8, <1>9, <1>10, <1>11 DEF ConnectionsNext

LEMMA ServerStep == ASSUME ServerInv, [ConnectionsNext]_connectionsVars PROVE ServerInv'
BY ConnectionsStep, ServerTypesStep DEF ServerInv

LEMMA ServerTyped == ServerInv => ConnectionsTypeOK
BY DEF ServerInv, ConnectionsInv, ServerTypes, ConnectionTypes, ConnectionsTypeOK, Clients

\* serve never has more than MAX_CLIENTS connections, whatever order it accepts and closes
\* them in.
THEOREM ConnectionsTypeAlways == ConnectionsSpec => []ConnectionsTypeOK
<1>1. ServerInv /\ [ConnectionsNext]_connectionsVars => ServerInv'
  BY ServerStep
<1> QED
  BY ServerInitInv, <1>1, ServerTyped, PTL DEF ConnectionsSpec

-----------------------------------------------------------------------------
(* The types of the registry *)

OneHook == \A r, q \in registrar : r = q

LEMMA OneHookStep == ASSUME OneHook, [RegistryNext]_registryVars PROVE OneHook'
<1>1. ASSUME UNCHANGED registrar PROVE OneHook'
  BY <1>1 DEF OneHook
<1>2. ASSUME NEW p \in Tabs, HookLooks(p) PROVE OneHook'
  BY <1>2 DEF HookLooks, OneHook
<1>3. ASSUME NEW p \in Tabs, GivesName(p) PROVE OneHook'
  <2>1. PICK s : registrar' = {IF r.thread = s THEN [r EXCEPT !.late = TRUE] ELSE r : r \in registrar}
    BY <1>3 DEF GivesName
  <2> SUFFICES ASSUME NEW r \in registrar', NEW q \in registrar' PROVE r = q
    BY DEF OneHook
  <2>2. PICK a \in registrar : r = IF a.thread = s THEN [a EXCEPT !.late = TRUE] ELSE a
    BY <2>1
  <2>3. PICK b \in registrar : q = IF b.thread = s THEN [b EXCEPT !.late = TRUE] ELSE b
    BY <2>1
  <2>4. a = b
    BY DEF OneHook
  <2> QED
    BY <2>2, <2>3, <2>4
<1>4. CASE HookRegisters \/ HookCutShort
  BY <1>4 DEF HookRegisters, HookCutShort, OneHook
<1>5. CASE \/ \E s \in Sessions : TabStarts(s)
           \/ \E p \in Tabs, S \in {{}} \cup {{s} : s \in Sessions} : TabLeaves(p, S)
           \/ \E p \in Tabs : TabEnds(p) \/ BridgeStarts(p)
  BY <1>1, <1>5 DEF TabStarts, TabLeaves, TabEnds, BridgeStarts
<1>6. CASE \/ ListsHomes \/ ListsLocks \/ ListsRecords \/ ListsBridges \/ ListsRest
           \/ UNCHANGED registryVars
  BY <1>1, <1>6 DEF ListsHomes, ListsLocks, ListsRecords, ListsBridges, ListsRest, registryVars
<1> QED
  BY <1>2, <1>3, <1>4, <1>5, <1>6 DEF RegistryNext

\* What has no two members has none or one.
LEMMA AtMostOne ==
  ASSUME NEW S, \A r, q \in S : r = q PROVE Cardinality(S) <= 1
<1>1. CASE S = {}
  BY <1>1, FS_EmptySet
<1>2. CASE S # {}
  <2>1. PICK r : S = {r}
    BY <1>2
  <2> QED
    BY <2>1, FS_Singleton
<1> QED
  BY <1>1, <1>2

LEMMA RegistryTyped == RegistryInv /\ OneHook => RegistryTypeOK
<1> SUFFICES ASSUME RegistryInv, OneHook PROVE RegistryTypeOK
  OBVIOUS
<1>1. RegistryShape /\ Labels
  BY DEF RegistryInv
<1>2. \A s \in Sessions : Cardinality(registration[s]) <= 1
  BY <1>1, AtMostOne DEF Labels
<1>3. Cardinality(registrar) <= 1
  BY AtMostOne DEF OneHook
<1>4. /\ lister.pc \in {"homes", "locks", "records", "bridges", "rest", "done"}
      /\ lister.locks \subseteq ListedRows /\ lister.rows \subseteq ListedRows
      /\ lister.steady \subseteq Sessions /\ lister.scanned \subseteq Sessions
  BY <1>1 DEF RegistryShape, Listers
<1> QED
  BY <1>1, <1>2, <1>3, <1>4 DEF RegistryShape, RegistryTypeOK

\* A thread has one record and a list is made of rows (register, sessions).
THEOREM RegistryTypeAlways == RegistrySpec => []RegistryTypeOK
<1>1. RegistryInit => OneHook
  BY DEF RegistryInit, OneHook
<1>2. OneHook /\ [RegistryNext]_registryVars => OneHook'
  BY OneHookStep
<1> QED
  BY <1>1, <1>2, RegistryIsInv, RegistryTyped, PTL DEF RegistrySpec

-----------------------------------------------------------------------------
(* The parts together *)

PartsInv ==
  /\ part \in Parts
  /\ IInv /\ EnrollmentInv /\ LifecycleInv /\ AdvisedInv /\ NoticesInv
  /\ ServerInv /\ RelayInv /\ FramesInv /\ StatusTypeOK
  /\ RegistryInv /\ OneHook

LEMMA PartsInitInv == PartsInit => PartsInv
<1>1. RegistryInit => OneHook
  BY DEF RegistryInit, OneHook
<1> QED
  BY <1>1, InitIInv, EnrollmentInitInv, LifecycleInitInv, AdvisedInitInv, NoticesInitInv,
     ServerInitInv, RelayInitInv, FramesInitInv, StatusInitType, RegistryInitInv
     DEF PartsInit, PartsInv

\* A step of the composition is one of each part, or leaves it as it is.
LEMMA PartsSteps ==
  ASSUME [PartsNext]_partsVars
  PROVE  /\ [Next]_vars /\ [EnrollmentNext]_enrollmentVars /\ [LifecycleNext]_lifecycleVars
         /\ [AdvisoryNext]_advisoryVars /\ [NoticesNext]_noticesVars
         /\ [ConnectionsNext]_connectionsVars /\ [RelayNext]_relayVars
         /\ [FramesNext]_framesVars /\ [StatusNext]_statusVars /\ [RegistryNext]_registryVars
         /\ part' = part
<1>1. CASE UNCHANGED partsVars
  BY <1>1 DEF partsVars
<1>2. CASE PartsNext
  <2>1. PICK p \in Parts :
          /\ part' = part /\ RestOf(p)
          /\ p = "outgoing" => Next
          /\ p = "enrollment" => EnrollmentNext
          /\ p = "lifecycle" => LifecycleNext
          /\ p = "advisory" => AdvisoryNext
          /\ p = "notices" => NoticesNext
          /\ p = "connections" => ConnectionsNext
          /\ p = "relay" => RelayNext
          /\ p = "frames" => FramesNext
          /\ p = "status" => StatusNext
          /\ p = "registry" => RegistryNext
    BY <1>2, Zenon DEF PartsNext, Moves, Parts
  <2> QED
    BY <2>1 DEF RestOf
<1> QED
  BY <1>1, <1>2

LEMMA PartsStep == ASSUME PartsInv, [PartsNext]_partsVars PROVE PartsInv'
<1>1. part' \in Parts /\ IInv' /\ EnrollmentInv' /\ LifecycleInv' /\ AdvisedInv' /\ NoticesInv'
  BY PartsSteps, NextIInv, EnrollmentStepInv, LifecycleStep, AdvisedStep, NoticesStep
     DEF PartsInv
<1>2. ServerInv' /\ RelayInv' /\ FramesInv' /\ StatusTypeOK' /\ RegistryInv' /\ OneHook'
  BY PartsSteps, ServerStep, RelayStep, FramesStep, StatusTypeStep, RegistryStep, OneHookStep
     DEF PartsInv
<1> QED
  BY <1>1, <1>2 DEF PartsInv

LEMMA PartsInvAlways == PartsSpec => []PartsInv
<1>1. PartsInv /\ [PartsNext]_partsVars => PartsInv'
  BY PartsStep
<1> QED
  BY <1>1, PartsInitInv, PTL DEF PartsSpec

\* Every variable of every part has its type, and with it the bounds on what the code
\* keeps: connections, hops, the line buffer, one record for a thread.
THEOREM PartsTypeAlways == PartsSpec => []PartsTypeOK
<1>1. PartsInv => PartsTypeOK
  BY ServerTyped, RelayTyped, RegistryTyped
     DEF PartsInv, PartsTypeOK, IInv, EnrollmentInv, LifecycleInv, AdvisedInv, NoticesInv, FramesInv
<1> QED
  BY <1>1, PartsInvAlways, PTL

-----------------------------------------------------------------------------
(* Liveness.  That a fair action can be taken where its guard holds is a hypothesis: the  *)
(* provers know nothing of ENABLED, but take WF for what it says of it.                   *)

SomeOld == \E c \in clients : c.old
SomeNew == \E c \in clients : ~c.old

LEMMA GrownIsOld == ASSUME ServerInv, TimePasses PROVE SomeOld'
<1>1. PICK c \in clients : GrowsOld(c)
  BY DEF TimePasses
<1> DEFINE d == [c EXCEPT !.old = TRUE]
<1>2. d \in clients'
  BY <1>1 DEF GrowsOld
<1>3. d.old
  BY DEF ServerInv, ServerTypes, Clients
<1> QED
  BY <1>2, <1>3 DEF SomeOld

LEMMA OldAreClosed == ASSUME ServerInv, ClosesOld PROVE Cardinality(clients') < MaxClients
<1>1. PICK c \in clients : c.old
  BY DEF ClosesOld
<1>2. clients' \in SUBSET clients /\ clients' # clients
  BY <1>1 DEF ClosesOld
<1>3. IsFiniteSet(clients) /\ Cardinality(clients) <= MaxClients /\ MaxClients \in Nat
  BY ConnectionsAssumption DEF ServerInv, ServerTypes
<1>4. /\ Cardinality(clients') \in Nat /\ Cardinality(clients) \in Nat
      /\ Cardinality(clients') <= Cardinality(clients)
      /\ Cardinality(clients') # Cardinality(clients)
  BY <1>2, <1>3, FS_Subset, FS_CardinalityType
<1> QED
  BY <1>3, <1>4

\* In a full listener an old connection stays, or a place becomes free.
LEMMA OldStays ==
  ASSUME ServerInv, Cardinality(clients) >= MaxClients, SomeOld, [ConnectionsNext]_connectionsVars
  PROVE  SomeOld' \/ Cardinality(clients') < MaxClients
<1>0. IsFiniteSet(clients) /\ Cardinality(clients) <= MaxClients /\ MaxClients \in Nat
      /\ Cardinality(clients) \in Nat
  BY ConnectionsAssumption, FS_CardinalityType DEF ServerInv, ServerTypes
<1>1. ASSUME UNCHANGED clients PROVE SomeOld'
  BY <1>1 DEF SomeOld
<1>2. ASSUME NEW c \in clients, Closes(c) PROVE Cardinality(clients') < MaxClients
  <2>1. clients' = clients \ {c}
    BY <1>2 DEF Closes
  <2>2. Cardinality(clients \ {c}) = Cardinality(clients) - 1
    BY <1>0, FS_RemoveElement
  <2> QED
    BY <1>0, <2>1, <2>2
<1>3. ASSUME NEW c \in backlog, Accepts(c) PROVE UNCHANGED clients
  BY <1>0, <1>3 DEF Accepts, HasRoom
<1>4. CASE \/ \E p \in ChatPeers, i \in Pids : Spawns(p, i) \/ Publishes(p, i)
           \/ \E i \in Pids : ConnectsFrom(i) \/ \E retracts \in BOOLEAN : Exits(i, retracts)
           \/ \E p \in ChatPeers : Enrolls(p)
           \/ RoundBegins \/ UNCHANGED connectionsVars
  BY <1>1, <1>4 DEF Spawns, Publishes, ConnectsFrom, Exits, Enrolls, RoundBegins, serverVars,
     connectionsVars
<1> QED
  BY <1>1, <1>2, <1>3, <1>4, GrownIsOld, OldAreClosed DEF ConnectionsNext

\* A listener without a place left gets one back: while it is full, some connection is old
\* and closed at the end of the round (serve), or one of them grows old.
THEOREM PlacesComeFreeByFairness ==
  /\ [](SomeNew => ENABLED <<TimePasses>>_connectionsVars)
  /\ [](SomeOld => ENABLED <<ClosesOld>>_connectionsVars)
  /\ ConnectionsSpec
  => PlacesComeFree
<1> DEFINE Full == Cardinality(clients) >= MaxClients
           Place == Cardinality(clients) < MaxClients
<1>1. ServerInv => (Place <=> ~Full)
  BY ConnectionsAssumption, FS_CardinalityType DEF ServerInv, ServerTypes
<1>2. ServerInv /\ Full /\ ~SomeOld => SomeNew
  <2> SUFFICES ASSUME ServerInv, Full PROVE clients # {}
    BY DEF SomeOld, SomeNew
  <2> QED
    BY FS_EmptySet, ConnectionsAssumption DEF ServerInv, ServerTypes
<1>3. ServerInv /\ <<TimePasses>>_connectionsVars => SomeOld'
  BY GrownIsOld
<1>4. ServerInv /\ Full /\ SomeOld /\ [ConnectionsNext]_connectionsVars => SomeOld' \/ Place'
  BY OldStays
<1>5. ServerInv /\ <<ClosesOld>>_connectionsVars => Place'
  BY OldAreClosed
<1>6. ServerInv /\ [ConnectionsNext]_connectionsVars => ServerInv'
  BY ServerStep
<1> HIDE DEF Full, Place
<1>7. (/\ [](SomeNew => ENABLED <<TimePasses>>_connectionsVars)
       /\ [](SomeOld => ENABLED <<ClosesOld>>_connectionsVars)
       /\ ConnectionsSpec) => (Full ~> Place)
  BY <1>1, <1>2, <1>3, <1>4, <1>5, <1>6, ServerInitInv, PTL DEF ConnectionsSpec
<1> QED
  BY <1>7 DEF Full, Place, PlacesComeFree
=============================================================================
