--------------------------- MODULE SequenceLemmas ---------------------------
(***************************************************************************)
(* Induction on numbers, for a set of numbers instead of a predicate, and  *)
(* what it says of FlattenSeq, with which the models put the parts of a    *)
(* transfer or of a call together.                                         *)
(***************************************************************************)
EXTENDS Integers, Sequences, SequencesExt, SequenceTheorems, WellFoundedInduction, TLAPS

(* Smaller is a well-founded relation. *)
LEMMA SmallerIsWellFounded ==
    IsWellFoundedOn({ss \in Nat \X Nat : ss[1] < ss[2]}, Nat)
BY NatLessThanWellFounded, Zenon DEF OpToRel

(* A set that has 0 and with every number below n the next one has all       *)
(* numbers up to n: else there would be a smallest one that it has not.      *)
LEMMA Induction ==
    ASSUME NEW n \in Nat, NEW T,
           0 \in T,
           \A m \in 0 .. n - 1 : m \in T => m + 1 \in T
    PROVE  \A m \in 0 .. n : m \in T
<1> DEFINE Bad == {m \in 0 .. n : m \notin T}
           Smaller == {ss \in Nat \X Nat : ss[1] < ss[2]}
<1> SUFFICES ASSUME NEW k \in Bad PROVE FALSE
  OBVIOUS
<1>1. Bad \subseteq Nat /\ Bad # {}
  OBVIOUS
<1>2. PICK m \in Bad : \A j \in Bad : <<j, m>> \notin Smaller
  <2>1. IsWellFoundedOn(Smaller, Nat)
    BY SmallerIsWellFounded
  <2> HIDE DEF Bad, Smaller
  <2> QED
    BY <1>1, <2>1, WFMin, Zenon
<1>3. ASSUME NEW j \in Bad
      PROVE  m <= j
  <2>1. <<j, m>> \in Nat \X Nat /\ <<j, m>>[1] = j /\ <<j, m>>[2] = m
    OBVIOUS
  <2>2. ~ (j < m)
    <3> HIDE DEF Bad
    <3> QED
      BY <1>2, <2>1, Zenon
  <2> QED
    BY <2>2
<1>4. m \in 0 .. n /\ m \notin T /\ m # 0
  OBVIOUS
<1>5. m - 1 \in 0 .. n - 1 /\ m - 1 \in T
  BY <1>3, <1>4
<1> QED
  BY <1>4, <1>5

-----------------------------------------------------------------------------

(* The recursion by which FlattenSeq is defined has a solution. *)
LEMMA Flattens ==
    ASSUME NEW n \in Nat, NEW seqs, Len(seqs) = n, n > 0
    PROVE  \E flat : /\ flat[1] = seqs[1]
                     /\ \A i \in 2 .. n : flat[i] = flat[i - 1] \o seqs[i]
                     /\ FlattenSeq(seqs) = flat[n]
<1> DEFINE Def(g, i) == IF i = 1 THEN seqs[i] ELSE g[i - 1] \o seqs[i]
           Some(m)   == \E g : g = [i \in 1 .. m |-> Def(g, i)]
           T         == {m \in 0 .. n : Some(m)}
           flat      == CHOOSE g : g = [i \in 1 .. Len(seqs) |-> Def(g, i)]
<1>1. 0 \in T
  <2> DEFINE g == [i \in 1 .. 0 |-> <<>>]
  <2>1. g = [i \in 1 .. 0 |-> Def(g, i)]
    OBVIOUS
  <2>2. Some(0)
    <3> HIDE DEF g
    <3> QED
      BY <2>1, Zenon
  <2> HIDE DEF Some
  <2> QED
    BY <2>2
<1>2. ASSUME NEW m \in 0 .. n - 1, m \in T
      PROVE  m + 1 \in T
  <2>1. PICK g : g = [i \in 1 .. m |-> Def(g, i)]
    <3>1. Some(m)
      <4> HIDE DEF Some
      <4> QED
        BY <1>2
    <3> QED
      BY <3>1, Zenon
  <2> DEFINE h == [i \in 1 .. m + 1 |-> IF i <= m THEN g[i] ELSE Def(g, i)]
  <2>2. ASSUME NEW i \in 1 .. m + 1
        PROVE  h[i] = Def(h, i)
    <3>1. i = 1 \/ (i - 1 \in 1 .. m /\ h[i - 1] = g[i - 1])
      OBVIOUS
    <3>2. h[i] = Def(g, i)
      <4>1. CASE i <= m
        <5>1. i \in 1 .. m /\ h[i] = g[i]
          BY <4>1
        <5>2. g[i] = Def(g, i)
          <6> HIDE DEF Def, h
          <6> QED
            BY <2>1, <5>1, Zenon
        <5> QED
          BY <5>1, <5>2
      <4> QED
        BY <4>1
    <3> QED
      BY <3>1, <3>2
  <2>3. h = [i \in 1 .. m + 1 |-> Def(h, i)]
    BY <2>2
  <2>4. Some(m + 1)
    <3> HIDE DEF h
    <3> QED
      BY <2>3, Zenon
  <2> HIDE DEF Some
  <2> QED
    BY <2>4
<1>3. n \in T
  <2> HIDE DEF T
  <2>1. \A m \in 0 .. n : m \in T
    BY <1>1, <1>2, Induction, Zenon
  <2> QED
    BY <2>1
<1>4. flat = [i \in 1 .. n |-> Def(flat, i)]
  <2>1. Some(Len(seqs))
    <3> HIDE DEF Some
    <3> QED
      BY <1>3
  <2>2. flat = [i \in 1 .. Len(seqs) |-> Def(flat, i)]
    <3> HIDE DEF Def
    <3> QED
      BY <2>1, Zenon
  <2> HIDE DEF flat
  <2> QED
    BY <2>2
<1>5. FlattenSeq(seqs) = flat[n]
  <2>1. Len(seqs) # 0
    OBVIOUS
  <2> QED
    BY ONLY <2>1, Len(seqs) = n, Zenon DEF FlattenSeq, flat, Def
<1> HIDE DEF flat
<1>6. flat[1] = seqs[1]
  BY <1>4
<1>7. ASSUME NEW i \in 2 .. n
      PROVE  flat[i] = flat[i - 1] \o seqs[i]
  <2>1. i \in 1 .. n /\ i # 1
    OBVIOUS
  <2>2. flat[i] = Def(flat, i)
    <3> HIDE DEF Def
    <3> QED
      BY <1>4, <2>1, Zenon
  <2> QED
    BY <2>1, <2>2
<1> QED
  BY <1>5, <1>6, <1>7

(* Sequences over S make one over S. *)
LEMMA FlattenSeqIsASeq ==
    ASSUME NEW S, NEW n \in Nat, NEW seqs \in [1 .. n -> Seq(S)]
    PROVE  FlattenSeq(seqs) \in Seq(S)
<1>1. Len(seqs) = n /\ (n = 0 => seqs = <<>>)
  OBVIOUS
<1>2. CASE n = 0
  BY <1>1, <1>2 DEF FlattenSeq
<1>3. CASE n > 0
  <2>1. PICK flat : /\ flat[1] = seqs[1]
                    /\ \A i \in 2 .. n : flat[i] = flat[i - 1] \o seqs[i]
                    /\ FlattenSeq(seqs) = flat[n]
    <3> DEFINE Flat(s) ==
           \E flat : /\ flat[1] = s[1]
                     /\ \A i \in 2 .. n : flat[i] = flat[i - 1] \o s[i]
                     /\ FlattenSeq(s) = flat[n]
    <3>1. \A s : Len(s) = n => Flat(s)
      BY <1>3, Flattens, Zenon
    <3> HIDE DEF Flat
    <3>2. Flat(seqs)
      BY <3>1, <1>1
    <3> QED
      BY <3>2 DEF Flat
  <2> DEFINE T == {m \in 0 .. n : m = 0 \/ flat[m] \in Seq(S)}
  <2>2. 0 \in T
    OBVIOUS
  <2>3. ASSUME NEW m \in 0 .. n - 1, m \in T
        PROVE  m + 1 \in T
    <3>1. seqs[m + 1] \in Seq(S)
      OBVIOUS
    <3>2. CASE m = 0
      BY <2>1, <3>1, <3>2
    <3>3. CASE m # 0
      <4>1. m + 1 \in 2 .. n /\ (m + 1) - 1 = m /\ flat[m] \in Seq(S)
        BY <2>3, <3>3
      <4>2. flat[m + 1] = flat[m] \o seqs[m + 1]
        BY <2>1, <4>1
      <4>3. flat[m + 1] \in Seq(S)
        BY <4>1, <4>2, <3>1, ConcatProperties
      <4> QED
        BY <4>3
    <3> QED
      BY <3>2, <3>3
  <2>4. n \in T
    <3> HIDE DEF T
    <3>1. \A m \in 0 .. n : m \in T
      BY <2>2, <2>3, Induction, Zenon
    <3> QED
      BY <3>1
  <2> QED
    BY <2>1, <2>4, <1>3
<1> QED
  BY <1>2, <1>3

-----------------------------------------------------------------------------
(* A function on the first numbers is a sequence.                             *)
LEMMA FunctionIsSeq ==
    ASSUME NEW S, NEW n \in Nat, NEW f \in [1 .. n -> S]
    PROVE  f \in Seq(S) /\ Len(f) = n
OBVIOUS

(* And the other way round.                                                  *)
LEMMA SeqIsFunction ==
    ASSUME NEW S, NEW n \in Nat, NEW s \in Seq(S), Len(s) = n
    PROVE  s \in [1 .. n -> S] /\ DOMAIN s = 1 .. n
OBVIOUS

(* Two sequences joined.                                                     *)
LEMMA JoinedIsSeq ==
    ASSUME NEW S, NEW s \in Seq(S), NEW t \in Seq(S), NEW n \in Nat, NEW k \in Nat,
           Len(s) = n, Len(t) = k
    PROVE  s \o t \in Seq(S) /\ Len(s \o t) = n + k /\ n + k \in Nat
<1>1. s \o t \in Seq(S)
  OBVIOUS
<1>2. Len(s \o t) = n + k
  OBVIOUS
<1>3. n + k \in Nat
  OBVIOUS
<1> QED
  BY <1>1, <1>2, <1>3

(* Where their elements are then.                                            *)
LEMMA JoinedAt ==
    ASSUME NEW S, NEW s \in Seq(S), NEW t \in Seq(S), NEW n \in Nat, NEW k \in Nat,
           Len(s) = n, Len(t) = k
    PROVE  /\ \A i \in 1 .. n : (s \o t)[i] = s[i]
           /\ \A i \in 1 .. k : (s \o t)[n + i] = t[i]
<1>1. \A i \in 1 .. n : (s \o t)[i] = s[i]
  OBVIOUS
<1>2. \A i \in 1 .. k : (s \o t)[n + i] = t[i]
  OBVIOUS
<1> QED
  BY <1>1, <1>2

(* So are the joined ones functions.                                         *)
LEMMA JoinedIsFunction ==
    ASSUME NEW S, NEW n \in Nat, NEW k \in Nat,
           NEW f \in [1 .. n -> S], NEW g \in [1 .. k -> S]
    PROVE  f \o g \in [1 .. n + k -> S]
<1>1. f \in Seq(S) /\ Len(f) = n /\ g \in Seq(S) /\ Len(g) = k
  BY FunctionIsSeq
<1>2. f \o g \in Seq(S) /\ Len(f \o g) = n + k /\ n + k \in Nat
  BY <1>1, JoinedIsSeq
<1> QED
  BY <1>2, SeqIsFunction

(* The last element of two joined ones is the last of the second.            *)
LEMMA JoinedLast ==
    ASSUME NEW S, NEW n \in Nat, NEW k \in Nat \ {0},
           NEW f \in [1 .. n -> S], NEW g \in [1 .. k -> S]
    PROVE  (f \o g)[n + k] = g[k]
<1>1. f \in Seq(S) /\ Len(f) = n /\ g \in Seq(S) /\ Len(g) = k
  BY FunctionIsSeq
<1>2. \A s, t \in Seq(S) : Len(s) = n /\ Len(t) = k => (s \o t)[n + k] = t[k]
  OBVIOUS
<1> QED
  BY <1>1, <1>2, Zenon

(* What is left of a sequence when its first two elements are dropped.       *)
LEMMA DropTwo ==
    ASSUME NEW S, NEW s \in Seq(S), NEW a, NEW b, NEW l, l = <<a, b>> \o s
    PROVE  SubSeq(l, 3, Len(l)) = s
OBVIOUS

-----------------------------------------------------------------------------
(* The first step of a list, and what follows it.                            *)

(* A sequence with one more in front.                                        *)
LEMMA OneMore ==
    ASSUME NEW S, NEW s \in Seq(S), NEW a \in S
    PROVE  <<a>> \o s \in Seq(S) /\ Len(<<a>> \o s) = 1 + Len(s)
OBVIOUS

(* Lists of one to four elements, taken off one by one.                      *)
LEMMA Lead1 ==
    ASSUME NEW S, NEW s \in Seq(S), NEW a
    PROVE  /\ <<a>> \o s # <<>>
           /\ Head(<<a>> \o s) = a
           /\ Tail(<<a>> \o s) = s
<1> DEFINE T == S \cup {a}
<1>1. s \in Seq(T)
  BY SeqMonotonic
<1>2. a \in T
  OBVIOUS
<1> HIDE DEF T
<1> QED
  BY <1>1, <1>2

LEMMA Lead2 ==
    ASSUME NEW S, NEW s \in Seq(S), NEW a, NEW b
    PROVE  /\ <<a, b>> \o s # <<>>
           /\ Head(<<a, b>> \o s) = a
           /\ Tail(<<a, b>> \o s) = <<b>> \o s
<1> DEFINE T == S \cup {a, b}
<1>1. s \in Seq(T)
  BY SeqMonotonic
<1>2. a \in T /\ b \in T
  OBVIOUS
<1> HIDE DEF T
<1> QED
  BY <1>1, <1>2

LEMMA Lead3 ==
    ASSUME NEW S, NEW s \in Seq(S), NEW a, NEW b, NEW c
    PROVE  /\ <<a, b, c>> \o s # <<>>
           /\ Head(<<a, b, c>> \o s) = a
           /\ Tail(<<a, b, c>> \o s) = <<b, c>> \o s
<1> DEFINE T == S \cup {a, b, c}
<1>1. s \in Seq(T)
  BY SeqMonotonic
<1>2. a \in T /\ b \in T /\ c \in T
  OBVIOUS
<1> HIDE DEF T
<1> QED
  BY <1>1, <1>2

LEMMA Lead4 ==
    ASSUME NEW S, NEW s \in Seq(S), NEW a, NEW b, NEW c, NEW d
    PROVE  /\ <<a, b, c, d>> \o s # <<>>
           /\ Head(<<a, b, c, d>> \o s) = a
           /\ Tail(<<a, b, c, d>> \o s) = <<b, c, d>> \o s
<1> DEFINE T == S \cup {a, b, c, d}
<1>1. s \in Seq(T)
  BY SeqMonotonic
<1>2. a \in T /\ b \in T /\ c \in T /\ d \in T
  OBVIOUS
<1> HIDE DEF T
<1> QED
  BY <1>1, <1>2

-----------------------------------------------------------------------------
(* Short lists put together, as the models put the steps of a call together. *)

(* Concatenations of short lists, written out.                               *)
LEMMA Join11 ==
    ASSUME NEW a, NEW b
    PROVE  <<a>> \o <<b>> = <<a, b>>
<1> DEFINE l == <<a>> \o <<b>>
           u == <<a, b>>
           T == {a, b}
<1>1. l \in Seq(T) /\ Len(l) = 2 /\ l[1] = a /\ l[2] = b
  OBVIOUS
<1>2. u \in Seq(T) /\ Len(u) = 2 /\ u[1] = a /\ u[2] = b
  OBVIOUS
<1> HIDE DEF l, u
<1>3. l = u
  BY <1>1, <1>2, SeqEqual
<1> QED
  BY <1>3 DEF l, u

LEMMA Join12 ==
    ASSUME NEW a, NEW b, NEW c
    PROVE  <<a>> \o <<b, c>> = <<a, b, c>>
<1> DEFINE l == <<a>> \o <<b, c>>
           u == <<a, b, c>>
           T == {a, b, c}
<1>1. l \in Seq(T) /\ Len(l) = 3 /\ l[1] = a /\ l[2] = b /\ l[3] = c
  OBVIOUS
<1>2. u \in Seq(T) /\ Len(u) = 3 /\ u[1] = a /\ u[2] = b /\ u[3] = c
  OBVIOUS
<1> HIDE DEF l, u
<1>3. l = u
  BY <1>1, <1>2, SeqEqual
<1> QED
  BY <1>3 DEF l, u

LEMMA Join13 ==
    ASSUME NEW a, NEW b, NEW c, NEW d
    PROVE  <<a>> \o <<b, c, d>> = <<a, b, c, d>>
<1> DEFINE l == <<a>> \o <<b, c, d>>
           u == <<a, b, c, d>>
           T == {a, b, c, d}
<1>1. l \in Seq(T) /\ Len(l) = 4 /\ l[1] = a /\ l[2] = b /\ l[3] = c /\ l[4] = d
  OBVIOUS
<1>2. u \in Seq(T) /\ Len(u) = 4 /\ u[1] = a /\ u[2] = b /\ u[3] = c /\ u[4] = d
  OBVIOUS
<1> HIDE DEF l, u
<1>3. l = u
  BY <1>1, <1>2, SeqEqual
<1> QED
  BY <1>3 DEF l, u

LEMMA Join14 ==
    ASSUME NEW a, NEW b, NEW c, NEW d, NEW e
    PROVE  <<a>> \o <<b, c, d, e>> = <<a, b, c, d, e>>
<1> DEFINE l == <<a>> \o <<b, c, d, e>>
           u == <<a, b, c, d, e>>
           T == {a, b, c, d, e}
<1>1. l \in Seq(T) /\ Len(l) = 5 /\ l[1] = a /\ l[2] = b /\ l[3] = c /\ l[4] = d /\ l[5] = e
  OBVIOUS
<1>2. u \in Seq(T) /\ Len(u) = 5 /\ u[1] = a /\ u[2] = b /\ u[3] = c /\ u[4] = d /\ u[5] = e
  OBVIOUS
<1> HIDE DEF l, u
<1>3. l = u
  BY <1>1, <1>2, SeqEqual
<1> QED
  BY <1>3 DEF l, u

LEMMA Join21 ==
    ASSUME NEW a, NEW b, NEW c
    PROVE  <<a, b>> \o <<c>> = <<a, b, c>>
<1> DEFINE l == <<a, b>> \o <<c>>
           u == <<a, b, c>>
           T == {a, b, c}
<1>1. l \in Seq(T) /\ Len(l) = 3 /\ l[1] = a /\ l[2] = b /\ l[3] = c
  OBVIOUS
<1>2. u \in Seq(T) /\ Len(u) = 3 /\ u[1] = a /\ u[2] = b /\ u[3] = c
  OBVIOUS
<1> HIDE DEF l, u
<1>3. l = u
  BY <1>1, <1>2, SeqEqual
<1> QED
  BY <1>3 DEF l, u

LEMMA Join22 ==
    ASSUME NEW a, NEW b, NEW c, NEW d
    PROVE  <<a, b>> \o <<c, d>> = <<a, b, c, d>>
<1> DEFINE l == <<a, b>> \o <<c, d>>
           u == <<a, b, c, d>>
           T == {a, b, c, d}
<1>1. l \in Seq(T) /\ Len(l) = 4 /\ l[1] = a /\ l[2] = b /\ l[3] = c /\ l[4] = d
  OBVIOUS
<1>2. u \in Seq(T) /\ Len(u) = 4 /\ u[1] = a /\ u[2] = b /\ u[3] = c /\ u[4] = d
  OBVIOUS
<1> HIDE DEF l, u
<1>3. l = u
  BY <1>1, <1>2, SeqEqual
<1> QED
  BY <1>3 DEF l, u

LEMMA Join32 ==
    ASSUME NEW a, NEW b, NEW c, NEW d, NEW e
    PROVE  <<a, b, c>> \o <<d, e>> = <<a, b, c, d, e>>
<1> DEFINE l == <<a, b, c>> \o <<d, e>>
           u == <<a, b, c, d, e>>
           T == {a, b, c, d, e}
<1>1. l \in Seq(T) /\ Len(l) = 5 /\ l[1] = a /\ l[2] = b /\ l[3] = c /\ l[4] = d /\ l[5] = e
  OBVIOUS
<1>2. u \in Seq(T) /\ Len(u) = 5 /\ u[1] = a /\ u[2] = b /\ u[3] = c /\ u[4] = d /\ u[5] = e
  OBVIOUS
<1> HIDE DEF l, u
<1>3. l = u
  BY <1>1, <1>2, SeqEqual
<1> QED
  BY <1>3 DEF l, u

LEMMA Join42 ==
    ASSUME NEW a, NEW b, NEW c, NEW d, NEW e, NEW f
    PROVE  <<a, b, c, d>> \o <<e, f>> = <<a, b, c, d, e, f>>
<1> DEFINE l == <<a, b, c, d>> \o <<e, f>>
           u == <<a, b, c, d, e, f>>
           T == {a, b, c, d, e, f}
<1>1. l \in Seq(T) /\ Len(l) = 6 /\ l[1] = a /\ l[2] = b /\ l[3] = c /\ l[4] = d /\ l[5] = e /\ l[6] = f
  OBVIOUS
<1>2. u \in Seq(T) /\ Len(u) = 6 /\ u[1] = a /\ u[2] = b /\ u[3] = c /\ u[4] = d /\ u[5] = e /\ u[6] = f
  OBVIOUS
<1> HIDE DEF l, u
<1>3. l = u
  BY <1>1, <1>2, SeqEqual
<1> QED
  BY <1>3 DEF l, u

LEMMA Join41 ==
    ASSUME NEW a, NEW b, NEW c, NEW d, NEW e
    PROVE  <<a, b, c, d>> \o <<e>> = <<a, b, c, d, e>>
<1> DEFINE l == <<a, b, c, d>> \o <<e>>
           u == <<a, b, c, d, e>>
           T == {a, b, c, d, e}
<1>1. l \in Seq(T) /\ Len(l) = 5 /\ l[1] = a /\ l[2] = b /\ l[3] = c /\ l[4] = d /\ l[5] = e
  OBVIOUS
<1>2. u \in Seq(T) /\ Len(u) = 5 /\ u[1] = a /\ u[2] = b /\ u[3] = c /\ u[4] = d /\ u[5] = e
  OBVIOUS
<1> HIDE DEF l, u
<1>3. l = u
  BY <1>1, <1>2, SeqEqual
<1> QED
  BY <1>3 DEF l, u

LEMMA Join51 ==
    ASSUME NEW a, NEW b, NEW c, NEW d, NEW e, NEW f
    PROVE  <<a, b, c, d, e>> \o <<f>> = <<a, b, c, d, e, f>>
<1> DEFINE l == <<a, b, c, d, e>> \o <<f>>
           u == <<a, b, c, d, e, f>>
           T == {a, b, c, d, e, f}
<1>1. l \in Seq(T) /\ Len(l) = 6 /\ l[1] = a /\ l[2] = b /\ l[3] = c /\ l[4] = d /\ l[5] = e /\ l[6] = f
  OBVIOUS
<1>2. u \in Seq(T) /\ Len(u) = 6 /\ u[1] = a /\ u[2] = b /\ u[3] = c /\ u[4] = d /\ u[5] = e /\ u[6] = f
  OBVIOUS
<1> HIDE DEF l, u
<1>3. l = u
  BY <1>1, <1>2, SeqEqual
<1> QED
  BY <1>3 DEF l, u

LEMMA Join61 ==
    ASSUME NEW a, NEW b, NEW c, NEW d, NEW e, NEW f, NEW g
    PROVE  <<a, b, c, d, e, f>> \o <<g>> = <<a, b, c, d, e, f, g>>
<1> DEFINE l == <<a, b, c, d, e, f>> \o <<g>>
           u == <<a, b, c, d, e, f, g>>
           T == {a, b, c, d, e, f, g}
<1>1. l \in Seq(T) /\ Len(l) = 7 /\ l[1] = a /\ l[2] = b /\ l[3] = c /\ l[4] = d /\ l[5] = e /\ l[6] = f /\ l[7] = g
  OBVIOUS
<1>2. u \in Seq(T) /\ Len(u) = 7 /\ u[1] = a /\ u[2] = b /\ u[3] = c /\ u[4] = d /\ u[5] = e /\ u[6] = f /\ u[7] = g
  OBVIOUS
<1> HIDE DEF l, u
<1>3. l = u
  BY <1>1, <1>2, SeqEqual
<1> QED
  BY <1>3 DEF l, u

LEMMA Join71 ==
    ASSUME NEW a, NEW b, NEW c, NEW d, NEW e, NEW f, NEW g, NEW h
    PROVE  <<a, b, c, d, e, f, g>> \o <<h>> = <<a, b, c, d, e, f, g, h>>
<1> DEFINE l == <<a, b, c, d, e, f, g>> \o <<h>>
           u == <<a, b, c, d, e, f, g, h>>
           T == {a, b, c, d, e, f, g, h}
<1>1. l \in Seq(T) /\ Len(l) = 8 /\ l[1] = a /\ l[2] = b /\ l[3] = c /\ l[4] = d /\ l[5] = e /\ l[6] = f /\ l[7] = g /\ l[8] = h
  OBVIOUS
<1>2. u \in Seq(T) /\ Len(u) = 8 /\ u[1] = a /\ u[2] = b /\ u[3] = c /\ u[4] = d /\ u[5] = e /\ u[6] = f /\ u[7] = g /\ u[8] = h
  OBVIOUS
<1> HIDE DEF l, u
<1>3. l = u
  BY <1>1, <1>2, SeqEqual
<1> QED
  BY <1>3 DEF l, u

LEMMA Part41 ==
    ASSUME NEW S, NEW s \in Seq(S), NEW a \in S, NEW b \in S, NEW c \in S, NEW d \in S, NEW e \in S
    PROVE  <<a, b, c, d, e>> \o s = <<a, b, c, d>> \o (<<e>> \o s)
<1>1. <<a, b, c, d>> \in Seq(S) /\ <<e>> \in Seq(S)
  OBVIOUS
<1>2. (<<a, b, c, d>> \o <<e>>) \o s = <<a, b, c, d>> \o (<<e>> \o s)
  BY <1>1, ConcatAssociative
<1>3. <<a, b, c, d>> \o <<e>> = <<a, b, c, d, e>>
  BY Join41, Zenon
<1> QED
  BY <1>2, <1>3, Zenon

-----------------------------------------------------------------------------
(* A sequence of sequences is put together one after the other: what holds   *)
(* of nothing, and goes from the first m put together to the first m + 1,    *)
(* holds of all.  Fit[m] is the set of the sequences it holds of after m.    *)
LEMMA FlattenBuilds ==
    ASSUME NEW S, NEW n \in Nat, NEW seqs \in [1 .. n -> Seq(S)], NEW Fit,
           <<>> \in Fit[0],
           \A m \in 0 .. n - 1 : \A s \in Fit[m] \cap Seq(S) : s \o seqs[m + 1] \in Fit[m + 1]
    PROVE  FlattenSeq(seqs) \in Fit[n]
<1>1. Len(seqs) = n /\ (n = 0 => seqs = <<>>)
  OBVIOUS
<1>2. CASE n = 0
  BY <1>1, <1>2 DEF FlattenSeq
<1>3. CASE n > 0
  <2>1. PICK flat : /\ flat[1] = seqs[1]
                    /\ \A i \in 2 .. n : flat[i] = flat[i - 1] \o seqs[i]
                    /\ FlattenSeq(seqs) = flat[n]
    <3> DEFINE Flat(s) ==
           \E flat : /\ flat[1] = s[1]
                     /\ \A i \in 2 .. n : flat[i] = flat[i - 1] \o s[i]
                     /\ FlattenSeq(s) = flat[n]
    <3>1. \A s : Len(s) = n => Flat(s)
      BY <1>3, Flattens, Zenon
    <3> HIDE DEF Flat
    <3>2. Flat(seqs)
      BY <3>1, <1>1
    <3> QED
      BY <3>2 DEF Flat
  <2> DEFINE T == {m \in 0 .. n : m = 0 \/ (flat[m] \in Seq(S) /\ flat[m] \in Fit[m])}
  <2>2. 0 \in T
    OBVIOUS
  <2>3. ASSUME NEW m \in 0 .. n - 1, m \in T
        PROVE  m + 1 \in T
    <3>1. seqs[m + 1] \in Seq(S)
      OBVIOUS
    <3>2. CASE m = 0
      <4>1. <<>> \o seqs[1] = seqs[1] /\ seqs[1] \in Seq(S) /\ <<>> \in Seq(S)
        BY <3>1, <3>2
      <4>2. <<>> \in Fit[0] /\ 0 \in 0 .. n - 1
        BY <3>2
      <4>3. <<>> \o seqs[0 + 1] \in Fit[0 + 1]
        BY <4>1, <4>2
      <4>4. seqs[1] \in Fit[1]
        BY <4>1, <4>3
      <4> QED
        BY <2>1, <3>2, <4>1, <4>4
    <3>3. CASE m # 0
      <4>1. m + 1 \in 2 .. n /\ (m + 1) - 1 = m /\ flat[m] \in Seq(S) /\ flat[m] \in Fit[m]
        BY <2>3, <3>3
      <4>2. flat[m + 1] = flat[m] \o seqs[m + 1]
        BY <2>1, <4>1
      <4>3. flat[m + 1] \in Seq(S)
        BY <4>1, <4>2, <3>1, ConcatProperties
      <4>4. flat[m + 1] \in Fit[m + 1]
        BY <4>1, <4>2
      <4> QED
        BY <4>3, <4>4
    <3> QED
      BY <3>2, <3>3
  <2>4. n \in T
    <3> HIDE DEF T
    <3>1. \A m \in 0 .. n : m \in T
      BY <2>2, <2>3, Induction, Zenon
    <3> QED
      BY <3>1
  <2> QED
    BY <2>1, <2>4, <1>3
<1> QED
  BY <1>2, <1>3

(* What is in it is what is in its parts. *)
LEMMA RangeOfFlattened ==
    ASSUME NEW S, NEW n \in Nat, NEW seqs \in [1 .. n -> Seq(S)]
    PROVE  Range(FlattenSeq(seqs)) = UNION {Range(seqs[i]) : i \in 1 .. n}
<1> DEFINE Fit == [m \in 0 .. n |->
                     {s \in Seq(S) : Range(s) = UNION {Range(seqs[i]) : i \in 1 .. m}}]
<1>1. <<>> \in Fit[0]
  <2>1. Range(<<>>) = {}
    BY DEF Range
  <2> QED
    BY <2>1
<1>2. ASSUME NEW m \in 0 .. n - 1, NEW s \in Fit[m] \cap Seq(S)
      PROVE  s \o seqs[m + 1] \in Fit[m + 1]
  <2>1. s \in Seq(S) /\ seqs[m + 1] \in Seq(S) /\ m + 1 \in 0 .. n
    OBVIOUS
  <2>2. s \o seqs[m + 1] \in Seq(S)
    BY <2>1, ConcatProperties
  <2>3. Range(s \o seqs[m + 1]) = Range(s) \cup Range(seqs[m + 1])
    BY <2>1, RangeConcatenation
  <2>4. Range(s) = UNION {Range(seqs[i]) : i \in 1 .. m}
    OBVIOUS
  <2>5. 1 .. m + 1 = (1 .. m) \cup {m + 1}
    OBVIOUS
  <2>6. Range(s \o seqs[m + 1]) = UNION {Range(seqs[i]) : i \in 1 .. m + 1}
    BY <2>3, <2>4, <2>5
  <2> QED
    BY <2>1, <2>2, <2>6
<1>3. FlattenSeq(seqs) \in Fit[n]
  <2> HIDE DEF Fit
  <2> QED
    BY <1>1, <1>2, FlattenBuilds
<1> QED
  BY <1>3

-----------------------------------------------------------------------------
(* FlattenSeq, one sequence at a time.                                       *)

(* The last of the sequences comes after all the others.                     *)
LEMMA FlattenMore ==
    ASSUME NEW S, NEW n \in Nat, NEW seqs \in [1 .. n + 1 -> Seq(S)]
    PROVE  FlattenSeq(seqs) = FlattenSeq([i \in 1 .. n |-> seqs[i]]) \o seqs[n + 1]
<1> DEFINE less == [i \in 1 .. n |-> seqs[i]]
<1>1. Len(seqs) = n + 1 /\ n + 1 \in Nat /\ n + 1 > 0
  <2> DEFINE k == n + 1
  <2>1. k \in Nat /\ k > 0
    OBVIOUS
  <2> HIDE DEF k
  <2>2. Len(seqs) = k
    BY <2>1, FunctionIsSeq DEF k
  <2> QED
    BY <2>1, <2>2 DEF k
<1>2. PICK f : /\ f[1] = seqs[1]
               /\ \A i \in 2 .. n + 1 : f[i] = f[i - 1] \o seqs[i]
               /\ FlattenSeq(seqs) = f[n + 1]
  <2> DEFINE k == n + 1
             Flat(s) ==
                \E g : /\ g[1] = s[1]
                       /\ \A i \in 2 .. k : g[i] = g[i - 1] \o s[i]
                       /\ FlattenSeq(s) = g[k]
  <2>1. k \in Nat /\ k > 0
    BY <1>1
  <2>2. Len(seqs) = k
    BY <1>1
  <2> HIDE DEF k
  <2>3. \A s : Len(s) = k => Flat(s)
    BY <2>1, Flattens, Zenon
  <2> HIDE DEF Flat
  <2>4. Flat(seqs)
    BY <2>2, <2>3
  <2> QED
    BY <2>4 DEF Flat, k
<1>3. CASE n = 0
  <2>1. FlattenSeq(less) = <<>>
    BY <1>3 DEF FlattenSeq
  <2>2. seqs[1] \in Seq(S) /\ f[n + 1] = seqs[1]
    BY <1>2, <1>3
  <2> QED
    BY <1>2, <1>3, <2>1, <2>2, ConcatEmptySeq
<1>4. CASE n > 0
  <2>1. Len(less) = n /\ \A i \in 1 .. n : less[i] = seqs[i]
    OBVIOUS
  <2> HIDE DEF less
  <2>2. PICK g : /\ g[1] = less[1]
                 /\ \A i \in 2 .. n : g[i] = g[i - 1] \o less[i]
                 /\ FlattenSeq(less) = g[n]
    <3> DEFINE Flat(s) ==
           \E g : /\ g[1] = s[1]
                  /\ \A i \in 2 .. n : g[i] = g[i - 1] \o s[i]
                  /\ FlattenSeq(s) = g[n]
    <3>1. \A s : Len(s) = n => Flat(s)
      BY <1>4, Flattens, Zenon
    <3> HIDE DEF Flat
    <3>2. Flat(less)
      BY <2>1, <3>1
    <3> QED
      BY <3>2 DEF Flat
  <2> DEFINE T == {m \in 0 .. n : m = 0 \/ f[m] = g[m]}
  <2>3. 0 \in T
    OBVIOUS
  <2>4. ASSUME NEW m \in 0 .. n - 1, m \in T
        PROVE  m + 1 \in T
    <3>1. CASE m = 0
      <4>1. f[1] = g[1]
        BY <1>2, <1>4, <2>1, <2>2
      <4> QED
        BY <3>1, <4>1
    <3>2. CASE m # 0
      <4>1. m + 1 \in 2 .. n /\ m + 1 \in 2 .. n + 1 /\ m + 1 \in 1 .. n /\ (m + 1) - 1 = m
        BY <3>2
      <4>2. f[m] = g[m]
        BY <2>4, <3>2
      <4>3. f[m + 1] = f[m] \o seqs[m + 1] /\ g[m + 1] = g[m] \o less[m + 1]
        BY <1>2, <2>2, <4>1
      <4>4. less[m + 1] = seqs[m + 1]
        BY <2>1, <4>1
      <4>5. f[m + 1] = g[m + 1]
        BY <4>2, <4>3, <4>4
      <4> QED
        BY <4>5
    <3> QED
      BY <3>1, <3>2
  <2>5. n \in T
    <3> HIDE DEF T
    <3>1. \A m \in 0 .. n : m \in T
      BY <2>3, <2>4, Induction, Zenon
    <3> QED
      BY <3>1
  <2>6. f[n] = g[n]
    BY <1>4, <2>5
  <2>7. f[n + 1] = f[n] \o seqs[n + 1]
    <3>1. n + 1 \in 2 .. n + 1 /\ (n + 1) - 1 = n
      BY <1>4
    <3> QED
      BY <1>2, <3>1
  <2> QED
    BY <1>2, <2>2, <2>6, <2>7 DEF less
<1> QED
  BY <1>3, <1>4

(* Elements one by one make the sequence of them.                            *)
LEMMA FlattenSingles ==
    ASSUME NEW S, NEW n \in Nat, NEW e \in [1 .. n -> S]
    PROVE  FlattenSeq([i \in 1 .. n |-> <<e[i]>>]) = e
<1> DEFINE seqs == [i \in 1 .. n |-> <<e[i]>>]
           Fit == [m \in 0 .. n |-> {[i \in 1 .. m |-> e[i]]}]
<1>1. <<>> \in Fit[0]
  <2>1. [i \in 1 .. 0 |-> e[i]] = <<>>
    OBVIOUS
  <2> QED
    BY <2>1
<1>2. ASSUME NEW m \in 0 .. n - 1, NEW s \in Fit[m] \cap Seq(S)
      PROVE  s \o seqs[m + 1] \in Fit[m + 1]
  <2>1. s = [i \in 1 .. m |-> e[i]] /\ s \in Seq(S) /\ Len(s) = m
    OBVIOUS
  <2>2. e[m + 1] \in S /\ seqs[m + 1] = <<e[m + 1]>>
    OBVIOUS
  <2>3. s \o <<e[m + 1]>> = [i \in 1 .. m + 1 |-> e[i]]
    BY <2>1, <2>2
  <2>4. m + 1 \in 0 .. n /\ Fit[m + 1] = {[i \in 1 .. m + 1 |-> e[i]]}
    OBVIOUS
  <2> HIDE DEF Fit, seqs
  <2> QED
    BY <2>2, <2>3, <2>4
<1>3. seqs \in [1 .. n -> Seq(S)]
  OBVIOUS
<1>4. FlattenSeq(seqs) \in Fit[n]
  <2> HIDE DEF seqs, Fit
  <2> QED
    BY <1>1, <1>2, <1>3, FlattenBuilds
<1>5. [i \in 1 .. n |-> e[i]] = e
  OBVIOUS
<1> QED
  BY <1>4, <1>5

(* Sequences of at most k elements make one of at most n times k.            *)
LEMMA FlattenedLength ==
    ASSUME NEW S, NEW n \in Nat, NEW k \in Nat, NEW seqs \in [1 .. n -> Seq(S)],
           \A i \in 1 .. n : Len(seqs[i]) <= k
    PROVE  Len(FlattenSeq(seqs)) <= n * k
<1> DEFINE Fit == [m \in 0 .. n |-> {s \in Seq(S) : Len(s) <= m * k}]
<1>1. <<>> \in Fit[0]
  BY EmptySeq
<1>2. ASSUME NEW m \in 0 .. n - 1, NEW s \in Fit[m] \cap Seq(S)
      PROVE  s \o seqs[m + 1] \in Fit[m + 1]
  <2>1. s \in Seq(S) /\ Len(s) <= m * k
    OBVIOUS
  <2>2. seqs[m + 1] \in Seq(S) /\ Len(seqs[m + 1]) <= k
    OBVIOUS
  <2>3. s \o seqs[m + 1] \in Seq(S) /\ Len(s \o seqs[m + 1]) = Len(s) + Len(seqs[m + 1])
    BY <2>1, <2>2, ConcatProperties
  <2>4. m * k + k = (m + 1) * k /\ m * k \in Nat
    OBVIOUS
  <2>5. Len(s) + Len(seqs[m + 1]) <= m * k + k
    BY <2>1, <2>2, <2>4
  <2>6. /\ m + 1 \in 0 .. n
        /\ Fit[m + 1] = {z \in Seq(S) : Len(z) <= (m + 1) * k}
    OBVIOUS
  <2> HIDE DEF Fit
  <2> QED
    BY <2>3, <2>4, <2>5, <2>6
<1>3. FlattenSeq(seqs) \in Fit[n]
  <2> HIDE DEF Fit
  <2> QED
    BY <1>1, <1>2, FlattenBuilds
<1> QED
  BY <1>3
=============================================================================
