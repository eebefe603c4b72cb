--------------------------- MODULE PtxLife_proofs ---------------------------
(***************************************************************************)
(* Attach and detach leave nothing behind and use nothing that is not      *)
(* there, for every number of tuners, rings and pages and any number of    *)
(* attachments: NothingRemains and OnlyWhatIsThere hold in every behaviour *)
(* of PtxLife.                                                             *)
(*                                                                         *)
(* What the invariant says of the steps to come is kept by every step,     *)
(* because todo only ever loses its head.  That it holds of the sequences  *)
(* attach and detach begin with is shown part by part, along the operators *)
(* that put them together.                                                 *)
(***************************************************************************)
EXTENDS PtxLife, SequenceLemmas

(* There may be any number of tuners, rings and pages, also none             *)
(* (PtxLifeAssumption).                                                      *)
Sizes == Tuners \in Nat /\ Rings \in Nat /\ Pages \in Nat

-----------------------------------------------------------------------------
(* Things and steps.                                                         *)

Pairs(kinds, n) == {<<k, i>> : k \in kinds, i \in 1 .. n}

(* All that attach makes. *)
Universe(c) ==
    IF c = "PT3"
    THEN {mem, mem3, i2c, lock, dmat, dmat3, nodes}
         \cup Pairs({"tc_s", "qm", "tc_t", "mx"}, Tuners)
         \cup Pairs({"channel", "dma", "dma lock", "ts_info", "desc_info", "dev", "drv"},
                    Streams)
         \cup Blocks("data", Streams, Pages) \cup Blocks("ring", Streams, Rings)
    ELSE {mem, lock, dmat, nodes}
         \cup Pairs({"buf", "stream lock", "dev", "drv"}, Streams)
         \cup {<<"ring", r>> : r \in 1 .. Rings} \cup Blocks("data", Rings, Pages)

Things(c) == Universe(c) \cup {<<>>}

IsPage(x) == x[1] \in {"ring", "data"}

(* What a step makes, whether it may be passed over when it fails, what it   *)
(* needs to find, and what it takes away.                                    *)
MadeBy(step)  == IF step.do \in {"make", "set", "alloc"} THEN {step.x} ELSE {}
SureBy(step)  == IF step.err = "none" THEN {} ELSE MadeBy(step)
TriedBy(step) == IF step.do = "try" THEN step.uses ELSE {}

TakenBy(step) ==
    IF step.do = "free"
    THEN IF step.x[1] = "dev" THEN {step.x, <<"drv", step.x[2]>>} ELSE {step.x}
    ELSE IF step.do = "unmap" THEN {step.x} ELSE {}

Made(p)  == UNION {MadeBy(step) : step \in Range(p)}
Sure(p)  == UNION {SureBy(step) : step \in Range(p)}
Tried(p) == UNION {TriedBy(step) : step \in Range(p)}
Taken(p) == UNION {TakenBy(step) : step \in Range(p)}
Used(p)  == UNION {step.uses : step \in Range(p)}

(* The steps of attach. *)
AttachSteps(c) ==
    {step \in [do : {"make", "set", "alloc", "use", "try", "daemon", "run"},
               x : Things(c), uses : SUBSET Universe(c),
               err : {"out", "detach", "none", "i2c", "create", "dma", "never"}] :
        /\ step.do \in {"make", "set", "alloc"} => step.x # <<>>
        /\ step.do = "alloc" => IsPage(step.x) /\ (c = "PT1" => step.uses = {dmat})
        /\ step.do \in {"make", "set"} => ~ IsPage(step.x)
        /\ step.do \in {"make", "alloc", "try", "daemon"} => step.err # "never"
        /\ step.do \in {"alloc", "daemon"} => step.err # "none"
        /\ step.err = "create" => step.x[2] \in 1 .. Streams
        /\ c = "PT1" => step.err \in {"out", "detach", "never"}}

(* All but the first of them. *)
LaterSteps(c) == {step \in AttachSteps(c) : step.err # "out"}

(* Those of detach and of the error paths. *)
TakeSteps(c) ==
    {step \in [do : {"use", "free", "unmap", "stop"},
               x : Things(c), uses : SUBSET Universe(c), err : {"never"}] :
        /\ step.do \in {"free", "unmap"} => step.x # <<>>
        /\ step.do = "unmap" => IsPage(step.x)
        /\ c = "PT1" => step.uses \subseteq {mem} \/ (step.do = "unmap" /\ step.uses = {dmat})}

-----------------------------------------------------------------------------
(* What each has to find there.                                              *)

UserNeeds(c, s) ==
    {mem, lock} \cup
    IF c = "PT3"
    THEN {<<"channel", s>>, <<"dma", s>>, <<"dma lock", s>>}
         \cup {<<"data", s, p>> : p \in 1 .. Pages} \cup Commands(TunerOf(s))
    ELSE {<<"buf", s>>, <<"stream lock", s>>}

SysctlNeeds == {mem, lock} \cup Pairs({"dev", "drv"}, Streams)

DaemonNeeds ==
    {mem} \cup {<<"ring", r>> : r \in 1 .. Rings} \cup Blocks("data", Rings, Pages)
    \cup Pairs({"buf", "stream lock"}, Streams)

(* What there must be when a step is taken: what it uses itself; what those  *)
(* use whom it lets in; and the card's memory, if detach follows when it     *)
(* fails.                                                                    *)
Needs(c, step) ==
    step.uses
    \cup (IF step.do \in {"make", "set"} /\ step.x[1] = "drv" THEN UserNeeds(c, step.x[2]) ELSE {})
    \cup (IF step.do \in {"make", "set"} /\ step.x = nodes THEN SysctlNeeds ELSE {})
    \cup (IF step.do = "daemon" THEN DaemonNeeds ELSE {})
    \cup (IF step.err = "detach" THEN {mem} ELSE {})

(* With the things there are, every step of p will find what it needs: an    *)
(* earlier one has made it; or if that may have failed without notice, and   *)
(* so with all that may be there, one looks in between.                      *)
Closed(c, there, maybe, p) ==
    \A i \in DOMAIN p : \A x \in Needs(c, p[i]) :
        \/ x \in there
        \/ \E j \in 1 .. i - 1 : x \in SureBy(p[j])
        \/ /\ x \in maybe \/ \E j \in 1 .. i - 1 : x \in MadeBy(p[j])
           /\ \E j \in 1 .. i : x \in TriedBy(p[j])

(* Nothing is used after it was taken away. *)
Quiet(p) ==
    \A i \in DOMAIN p : \A j \in 1 .. i - 1 : p[i].uses \cap TakenBy(p[j]) = {}

(* Everything used is there, but the tag of a page that has no address. *)
Found(there, addressed, p) ==
    \A i \in DOMAIN p :
        p[i].uses \subseteq there \/ (p[i].do = "unmap" /\ p[i].x \notin addressed)

-----------------------------------------------------------------------------
(* The invariant.                                                            *)

Takes == phase \in {"failing", "detaching"}

Broken == card = "PT3" /\ failed

(* Where a step may fail without notice, what it was to make may be missing. *)
Maybe == IF Broken THEN Universe(card) ELSE {}

TypeInv ==
    /\ card \in {"PT1", "PT3"}
    /\ phase \in {"out", "attaching", "in", "failing", "detaching", "dead"}
    /\ attached \in Nat /\ daemons \subseteq 0 .. attached
    /\ failed \in BOOLEAN
    /\ made \subseteq Universe(card)
    /\ phase = "attaching" => todo \in Seq(AttachSteps(card))
    /\ Takes => todo \in Seq(TakeSteps(card))
    /\ ~ Takes /\ phase # "attaching" => todo = <<>>

(* Only a page that could not be mapped has no address. *)
PagesInv ==
    /\ \A x \in made : IsPage(x) => x \in mapped \cup lost
    /\ phase = "attaching" => lost = {}

(* All that is left will be taken away. *)
GoneInv ==
    /\ Takes => \A x \in made : Excepted(x) \/ x = nodes \/ x \in Taken(todo)
    /\ phase = "out" => \A x \in made : Excepted(x)
    /\ phase = "attaching" =>
         \A i \in DOMAIN todo : todo[i].err = "out" => i = 1 /\ made = {}

(* Attach finds what it needs, and so does everybody whom it let in. *)
AttachInv ==
    /\ phase = "attaching" => Closed(card, made, Maybe, todo)
    /\ Watched =>
         /\ \A s \in 1 .. Streams : <<"drv", s>> \in made => UserNeeds(card, s) \subseteq made
         /\ nodes \in made => SysctlNeeds \subseteq made
         /\ attached \in daemons => DaemonNeeds \subseteq made
         /\ card = "PT1" => ~ failed /\ (mapped # {} => dmat \in made)
         /\ ~ failed => Universe(card) \subseteq made \cup Made(todo)

(* Detach finds what it uses, and so does attach when it fails at a PT1. *)
DetachInv ==
    Takes /\ ~ Broken => Quiet(todo) /\ Found(made, mapped, todo)

StrayInv == stray = {} \/ (Broken /\ phase = "dead")

LifeInv == TypeInv /\ PagesInv /\ GoneInv /\ AttachInv /\ DetachInv /\ StrayInv


-----------------------------------------------------------------------------
(* Sequences of steps, put together.                                         *)

(* Where in A \o B a step is. *)
LEMMA Where ==
    ASSUME NEW S, NEW A \in Seq(S), NEW B \in Seq(S)
    PROVE  /\ A \o B \in Seq(S)
           /\ DOMAIN (A \o B) = 1 .. Len(A) + Len(B)
           /\ \A i \in 1 .. Len(A) : i \in DOMAIN A /\ (A \o B)[i] = A[i]
           /\ \A i \in Len(A) + 1 .. Len(A) + Len(B) :
                 i - Len(A) \in DOMAIN B /\ (A \o B)[i] = B[i - Len(A)]
           /\ DOMAIN A = 1 .. Len(A) /\ DOMAIN B = 1 .. Len(B)
           /\ Len(A) \in Nat /\ Len(B) \in Nat
OBVIOUS

(* What the steps of two parts gather, both together gather.                 *)
LEMMA GatherConcat ==
    ASSUME NEW S, NEW A \in Seq(S), NEW B \in Seq(S)
    PROVE  /\ Made(A \o B) = Made(A) \cup Made(B)
           /\ Sure(A \o B) = Sure(A) \cup Sure(B)
           /\ Tried(A \o B) = Tried(A) \cup Tried(B)
           /\ Taken(A \o B) = Taken(A) \cup Taken(B)
           /\ Used(A \o B) = Used(A) \cup Used(B)
<1>1. Range(A \o B) = Range(A) \cup Range(B)
  BY RangeConcatenation
<1>2. Made(A \o B) = Made(A) \cup Made(B)
  BY <1>1 DEF Made
<1>3. Sure(A \o B) = Sure(A) \cup Sure(B)
  BY <1>1 DEF Sure
<1>4. Tried(A \o B) = Tried(A) \cup Tried(B)
  BY <1>1 DEF Tried
<1>5. Taken(A \o B) = Taken(A) \cup Taken(B)
  BY <1>1 DEF Taken
<1>6. Used(A \o B) = Used(A) \cup Used(B)
  BY <1>1 DEF Used
<1> QED
  BY <1>2, <1>3, <1>4, <1>5, <1>6

(* The same of any number of parts.                                          *)
LEMMA GatherFlat ==
    ASSUME NEW S, NEW n \in Nat, NEW seqs \in [1 .. n -> Seq(S)]
    PROVE  /\ Made(FlattenSeq(seqs)) = UNION {Made(seqs[i]) : i \in 1 .. n}
           /\ Sure(FlattenSeq(seqs)) = UNION {Sure(seqs[i]) : i \in 1 .. n}
           /\ Taken(FlattenSeq(seqs)) = UNION {Taken(seqs[i]) : i \in 1 .. n}
           /\ Used(FlattenSeq(seqs)) = UNION {Used(seqs[i]) : i \in 1 .. n}
<1>1. Range(FlattenSeq(seqs)) = UNION {Range(seqs[i]) : i \in 1 .. n}
  BY RangeOfFlattened
<1>2. \A step : step \in Range(FlattenSeq(seqs)) <=> \E i \in 1 .. n : step \in Range(seqs[i])
  BY <1>1
<1>3. Made(FlattenSeq(seqs)) = UNION {Made(seqs[i]) : i \in 1 .. n}
  BY <1>2 DEF Made
<1>4. Sure(FlattenSeq(seqs)) = UNION {Sure(seqs[i]) : i \in 1 .. n}
  BY <1>2 DEF Sure
<1>5. Taken(FlattenSeq(seqs)) = UNION {Taken(seqs[i]) : i \in 1 .. n}
  BY <1>2 DEF Taken
<1>6. Used(FlattenSeq(seqs)) = UNION {Used(seqs[i]) : i \in 1 .. n}
  BY <1>2 DEF Used
<1> QED
  BY <1>3, <1>4, <1>5, <1>6

(* What there is to say of p, put together from n parts, or from two. *)
AllOf(S, n, seqs, p) ==
    /\ p \in Seq(S)
    /\ \A x : x \in Made(p) <=> \E i \in 1 .. n : x \in Made(seqs[i])
    /\ \A x : x \in Sure(p) <=> \E i \in 1 .. n : x \in Sure(seqs[i])
    /\ \A x : x \in Taken(p) <=> \E i \in 1 .. n : x \in Taken(seqs[i])
    /\ \A x : x \in Used(p) <=> \E i \in 1 .. n : x \in Used(seqs[i])

BothOf(S, A, B, p) ==
    /\ p \in Seq(S)
    /\ Made(p) = Made(A) \cup Made(B)
    /\ Sure(p) = Sure(A) \cup Sure(B)
    /\ Tried(p) = Tried(A) \cup Tried(B)
    /\ Taken(p) = Taken(A) \cup Taken(B)
    /\ Used(p) = Used(A) \cup Used(B)

(* A part put together from parts: the steps, the things, what is used.      *)
LEMMA Flat ==
    ASSUME NEW S, NEW n \in Nat, NEW seqs \in [1 .. n -> Seq(S)], NEW p, p = FlattenSeq(seqs)
    PROVE  AllOf(S, n, seqs, p)
<1>1. p \in Seq(S)
  BY FlattenSeqIsASeq
<1>2. /\ Made(FlattenSeq(seqs)) = UNION {Made(seqs[i]) : i \in 1 .. n}
      /\ Sure(FlattenSeq(seqs)) = UNION {Sure(seqs[i]) : i \in 1 .. n}
      /\ Taken(FlattenSeq(seqs)) = UNION {Taken(seqs[i]) : i \in 1 .. n}
      /\ Used(FlattenSeq(seqs)) = UNION {Used(seqs[i]) : i \in 1 .. n}
  BY GatherFlat, SMTT(60)
<1>3. /\ Made(p) = UNION {Made(seqs[i]) : i \in 1 .. n}
      /\ Sure(p) = UNION {Sure(seqs[i]) : i \in 1 .. n}
      /\ Taken(p) = UNION {Taken(seqs[i]) : i \in 1 .. n}
      /\ Used(p) = UNION {Used(seqs[i]) : i \in 1 .. n}
  BY <1>2, Zenon
<1> QED
  BY <1>1, <1>3 DEF AllOf

(* The same of two parts.                                                    *)
LEMMA Both ==
    ASSUME NEW S, NEW A \in Seq(S), NEW B \in Seq(S), NEW p, p = A \o B
    PROVE  BothOf(S, A, B, p)
<1>1. p \in Seq(S)
  BY ConcatProperties
<1> QED
  BY <1>1, GatherConcat DEF BothOf

(* Where A takes nothing that B uses, and both are quiet, so are they        *)
(* together.                                                                 *)
LEMMA QuietConcat ==
    ASSUME NEW S, NEW A \in Seq(S), NEW B \in Seq(S),
           Quiet(A), Quiet(B), Taken(A) \cap Used(B) = {}
    PROVE  Quiet(A \o B)
<1> SUFFICES ASSUME NEW i \in DOMAIN (A \o B), NEW j \in 1 .. i - 1
             PROVE  (A \o B)[i].uses \cap TakenBy((A \o B)[j]) = {}
  BY DEF Quiet
<1>1. i \in 1 .. Len(A) + Len(B) /\ Len(A) \in Nat /\ Len(B) \in Nat
  BY Where
<1>2. CASE i \in 1 .. Len(A)
  <2>1. j \in 1 .. Len(A)
    BY <1>2
  <2>2. (A \o B)[i] = A[i] /\ (A \o B)[j] = A[j] /\ i \in DOMAIN A
    BY <1>2, <2>1, Where
  <2> QED
    BY <2>2 DEF Quiet
<1>3. CASE i \in Len(A) + 1 .. Len(A) + Len(B) /\ j \in 1 .. Len(A)
  <2>1. /\ (A \o B)[i] = B[i - Len(A)] /\ (A \o B)[j] = A[j]
        /\ i - Len(A) \in DOMAIN B /\ j \in DOMAIN A
    BY <1>3, Where
  <2>2. B[i - Len(A)] \in Range(B) /\ A[j] \in Range(A)
    BY <2>1 DEF Range
  <2>3. B[i - Len(A)].uses \subseteq Used(B) /\ TakenBy(A[j]) \subseteq Taken(A)
    BY <2>2 DEF Used, Taken
  <2> QED
    BY <2>1, <2>3
<1>4. CASE i \in Len(A) + 1 .. Len(A) + Len(B) /\ j \in Len(A) + 1 .. Len(A) + Len(B)
  <2>1. /\ (A \o B)[i] = B[i - Len(A)] /\ (A \o B)[j] = B[j - Len(A)]
        /\ i - Len(A) \in DOMAIN B
    BY <1>4, Where
  <2>2. j - Len(A) \in 1 .. (i - Len(A)) - 1
    BY <1>1, <1>4
  <2> QED
    BY <2>1, <2>2 DEF Quiet
<1> QED
  BY <1>1, <1>2, <1>3, <1>4

(* Nor is there anything to do where nothing taken is used at all. *)
LEMMA QuietApart ==
    ASSUME NEW S, NEW p \in Seq(S), Taken(p) \cap Used(p) = {}
    PROVE  Quiet(p)
<1> SUFFICES ASSUME NEW i \in DOMAIN p, NEW j \in 1 .. i - 1
             PROVE  p[i].uses \cap TakenBy(p[j]) = {}
  BY DEF Quiet
<1>1. j \in DOMAIN p
  OBVIOUS
<1>2. p[i] \in Range(p) /\ p[j] \in Range(p)
  BY <1>1 DEF Range
<1>3. p[i].uses \subseteq Used(p) /\ TakenBy(p[j]) \subseteq Taken(p)
  BY <1>2 DEF Used, Taken
<1> QED
  BY <1>3

(* Parts that are quiet and do not use what earlier ones took are quiet      *)
(* together.                                                                 *)
LEMMA QuietFlat ==
    ASSUME NEW S, NEW n \in Nat, NEW seqs \in [1 .. n -> Seq(S)],
           \A i \in 1 .. n : Quiet(seqs[i]),
           \A i \in 1 .. n : \A j \in 1 .. i - 1 : Taken(seqs[j]) \cap Used(seqs[i]) = {}
    PROVE  Quiet(FlattenSeq(seqs))
<1> DEFINE Before(m) == UNION {Taken(seqs[i]) : i \in 1 .. m}
           Fit == [m \in 0 .. n |-> {s \in Seq(S) : Quiet(s) /\ Taken(s) \subseteq Before(m)}]
<1>1. <<>> \in Fit[0]
  <2>1. Range(<<>>) = {} /\ <<>> \in Seq(S)
    BY DEF Range
  <2>2. Quiet(<<>>) /\ Taken(<<>>) = {}
    BY <2>1 DEF Quiet, Taken
  <2> QED
    BY <2>1, <2>2
<1>2. ASSUME NEW m \in 0 .. n - 1, NEW s \in Fit[m] \cap Seq(S)
      PROVE  s \o seqs[m + 1] \in Fit[m + 1]
  <2>1. /\ s \in Seq(S) /\ seqs[m + 1] \in Seq(S) /\ m + 1 \in 0 .. n /\ m + 1 \in 1 .. n
        /\ Quiet(s) /\ Taken(s) \subseteq Before(m)
    OBVIOUS
  <2>2. Taken(s) \cap Used(seqs[m + 1]) = {}
    <3>1. \A j \in 1 .. m : Taken(seqs[j]) \cap Used(seqs[m + 1]) = {}
      <4>1. (m + 1) - 1 = m
        OBVIOUS
      <4> QED
        BY <2>1, <4>1
    <3> QED
      BY <2>1, <3>1
  <2>3. Quiet(s \o seqs[m + 1])
    BY <2>1, <2>2, QuietConcat
  <2>4. Taken(s \o seqs[m + 1]) = Taken(s) \cup Taken(seqs[m + 1])
    BY <2>1, GatherConcat
  <2>5. Before(m) \subseteq Before(m + 1) /\ Taken(seqs[m + 1]) \subseteq Before(m + 1)
    <3>1. 1 .. m \subseteq 1 .. m + 1 /\ m + 1 \in 1 .. m + 1
      OBVIOUS
    <3> QED
      BY <3>1
  <2>6. s \o seqs[m + 1] \in Seq(S)
    BY <2>1, ConcatProperties
  <2>7. Taken(s \o seqs[m + 1]) \subseteq Before(m + 1)
    <3> HIDE DEF Before
    <3> QED
      BY <2>1, <2>4, <2>5
  <2> HIDE DEF Before
  <2> QED
    BY <2>1, <2>3, <2>6, <2>7
<1>3. FlattenSeq(seqs) \in Fit[n]
  <2> HIDE DEF Fit
  <2> QED
    BY <1>1, <1>2, FlattenBuilds
<1> QED
  BY <1>3

(* More there, or more that may be there, does no harm. *)
LEMMA ClosedMore ==
    ASSUME NEW c, NEW S, NEW M, NEW p, NEW S1, NEW M1,
           Closed(c, S, M, p), S \subseteq S1, M \subseteq M1
    PROVE  Closed(c, S1, M1, p)
BY DEF Closed

(* What A makes, and what it looks at of what may be there, B finds there. *)
LEMMA ClosedConcat ==
    ASSUME NEW S, NEW A \in Seq(S), NEW B \in Seq(S), NEW c, NEW T, NEW M,
           Closed(c, T, M, A),
           Closed(c, T \cup Sure(A) \cup ((M \cup Made(A)) \cap Tried(A)), M \cup Made(A), B)
    PROVE  Closed(c, T, M, A \o B)
<1> DEFINE p == A \o B
           There(i, x) ==
             \/ x \in T
             \/ \E j \in 1 .. i - 1 : x \in SureBy(p[j])
             \/ /\ x \in M \/ \E j \in 1 .. i - 1 : x \in MadeBy(p[j])
                /\ \E j \in 1 .. i : x \in TriedBy(p[j])
<1> SUFFICES ASSUME NEW i \in DOMAIN p, NEW x \in Needs(c, p[i])
             PROVE  There(i, x)
  BY DEF Closed
<1>1. i \in 1 .. Len(A) + Len(B) /\ Len(A) \in Nat /\ Len(B) \in Nat
  BY Where
<1>2. \A j \in 1 .. Len(A) : j \in DOMAIN A /\ p[j] = A[j]
  BY Where
<1> HIDE DEF p
<1>3. CASE i \in 1 .. Len(A)
  <2>1. /\ i \in DOMAIN A /\ p[i] = A[i]
        /\ \A j \in 1 .. i : p[j] = A[j]
        /\ \A j \in 1 .. i - 1 : p[j] = A[j]
    BY <1>2, <1>3
  <2>2. \/ x \in T
        \/ \E j \in 1 .. i - 1 : x \in SureBy(A[j])
        \/ /\ x \in M \/ \E j \in 1 .. i - 1 : x \in MadeBy(A[j])
           /\ \E j \in 1 .. i : x \in TriedBy(A[j])
    BY <2>1 DEF Closed
  <2> QED
    BY <2>1, <2>2
<1>4. CASE i \in Len(A) + 1 .. Len(A) + Len(B)
  <2> DEFINE k == i - Len(A)
  <2>1. k \in DOMAIN B /\ p[i] = B[k]
    BY <1>4, Where DEF p
  <2>2. \A j \in 1 .. k : /\ j + Len(A) \in 1 .. i /\ (j # k => j + Len(A) \in 1 .. i - 1)
                          /\ p[j + Len(A)] = B[j]
    <3> TAKE j \in 1 .. k
    <3>1. j + Len(A) \in Len(A) + 1 .. Len(A) + Len(B) /\ (j + Len(A)) - Len(A) = j
      BY <1>1, <1>4
    <3>2. p[j + Len(A)] = B[j]
      BY <3>1, Where DEF p
    <3> QED
      BY <1>1, <1>4, <3>2
  <2>3. \A j \in 1 .. Len(A) : j \in 1 .. i - 1 /\ j \in 1 .. i
    BY <1>1, <1>4
  <2>4. \/ x \in T \cup Sure(A) \cup ((M \cup Made(A)) \cap Tried(A))
        \/ \E j \in 1 .. k - 1 : x \in SureBy(B[j])
        \/ /\ x \in M \cup Made(A) \/ \E j \in 1 .. k - 1 : x \in MadeBy(B[j])
           /\ \E j \in 1 .. k : x \in TriedBy(B[j])
    BY <2>1 DEF Closed
  <2>5. \A j \in 1 .. k - 1 : j \in 1 .. k /\ j # k
    BY <1>1, <1>4
  <2> HIDE DEF k
  <2>6. x \in Sure(A) => \E j \in 1 .. i - 1 : x \in SureBy(p[j])
    <3> SUFFICES ASSUME x \in Sure(A) PROVE \E j \in 1 .. i - 1 : x \in SureBy(p[j])
      OBVIOUS
    <3>1. PICK j \in DOMAIN A : x \in SureBy(A[j])
      BY DEF Sure, Range
    <3>2. j \in 1 .. Len(A)
      BY Where
    <3> QED
      BY <1>2, <2>3, <3>1, <3>2
  <2>7. x \in Made(A) => \E j \in 1 .. i - 1 : x \in MadeBy(p[j])
    <3> SUFFICES ASSUME x \in Made(A) PROVE \E j \in 1 .. i - 1 : x \in MadeBy(p[j])
      OBVIOUS
    <3>1. PICK j \in DOMAIN A : x \in MadeBy(A[j])
      BY DEF Made, Range
    <3>2. j \in 1 .. Len(A)
      BY Where
    <3> QED
      BY <1>2, <2>3, <3>1, <3>2
  <2>8. x \in Tried(A) => \E j \in 1 .. i : x \in TriedBy(p[j])
    <3> SUFFICES ASSUME x \in Tried(A) PROVE \E j \in 1 .. i : x \in TriedBy(p[j])
      OBVIOUS
    <3>1. PICK j \in DOMAIN A : x \in TriedBy(A[j])
      BY DEF Tried, Range
    <3>2. j \in 1 .. Len(A)
      BY Where
    <3> QED
      BY <1>2, <2>3, <3>1, <3>2
  <2>9. CASE x \in T \cup Sure(A) \cup ((M \cup Made(A)) \cap Tried(A))
    BY <2>6, <2>7, <2>8, <2>9
  <2>10. CASE \E j \in 1 .. k - 1 : x \in SureBy(B[j])
    <3>1. PICK j \in 1 .. k - 1 : x \in SureBy(B[j])
      BY <2>10
    <3>2. j + Len(A) \in 1 .. i - 1 /\ p[j + Len(A)] = B[j]
      BY <2>2, <2>5
    <3> QED
      BY <3>1, <3>2
  <2>11. CASE /\ x \in M \cup Made(A) \/ \E j \in 1 .. k - 1 : x \in MadeBy(B[j])
              /\ \E j \in 1 .. k : x \in TriedBy(B[j])
    <3>1. x \in M \/ \E j \in 1 .. i - 1 : x \in MadeBy(p[j])
      <4>1. CASE x \in M \cup Made(A)
        BY <2>7, <4>1
      <4>2. CASE \E j \in 1 .. k - 1 : x \in MadeBy(B[j])
        <5>1. PICK j \in 1 .. k - 1 : x \in MadeBy(B[j])
          BY <4>2
        <5>2. j + Len(A) \in 1 .. i - 1 /\ p[j + Len(A)] = B[j]
          BY <2>2, <2>5
        <5> QED
          BY <5>1, <5>2
      <4> QED
        BY <2>11, <4>1, <4>2
    <3>2. \E j \in 1 .. i : x \in TriedBy(p[j])
      <4>1. PICK j \in 1 .. k : x \in TriedBy(B[j])
        BY <2>11
      <4>2. j + Len(A) \in 1 .. i /\ p[j + Len(A)] = B[j]
        BY <2>2
      <4> QED
        BY <4>1, <4>2
    <3> QED
      BY <3>1, <3>2
  <2> QED
    BY <2>4, <2>9, <2>10, <2>11
<1> QED
  BY <1>1, <1>3, <1>4

(* Parts that find what they need in what was there or made by earlier parts *)
(* find it together.                                                         *)
LEMMA ClosedFlat ==
    ASSUME NEW S, NEW n \in Nat, NEW seqs \in [1 .. n -> Seq(S)], NEW c, NEW T,
           \A i \in 1 .. n : Closed(c, T, {}, seqs[i])
    PROVE  Closed(c, T, {}, FlattenSeq(seqs))
<1> DEFINE Fit == [m \in 0 .. n |-> {s \in Seq(S) : Closed(c, T, {}, s)}]
<1>1. <<>> \in Fit[0]
  <2>1. DOMAIN <<>> = {} /\ <<>> \in Seq(S)
    OBVIOUS
  <2>2. Closed(c, T, {}, <<>>)
    BY <2>1 DEF Closed
  <2> QED
    BY <2>1, <2>2
<1>2. ASSUME NEW m \in 0 .. n - 1, NEW s \in Fit[m] \cap Seq(S)
      PROVE  s \o seqs[m + 1] \in Fit[m + 1]
  <2>1. /\ s \in Seq(S) /\ seqs[m + 1] \in Seq(S) /\ m + 1 \in 0 .. n
        /\ Closed(c, T, {}, s) /\ Closed(c, T, {}, seqs[m + 1])
    OBVIOUS
  <2>2. Closed(c, T \cup Sure(s) \cup (({} \cup Made(s)) \cap Tried(s)),
               {} \cup Made(s), seqs[m + 1])
    <3> DEFINE T1 == T \cup Sure(s) \cup (({} \cup Made(s)) \cap Tried(s))
               M1 == {} \cup Made(s)
    <3>1. T \subseteq T1 /\ {} \subseteq M1
      OBVIOUS
    <3> HIDE DEF T1, M1
    <3>2. Closed(c, T1, M1, seqs[m + 1])
      BY <2>1, <3>1 DEF Closed
    <3> QED
      BY <3>2 DEF T1, M1
  <2>3. Closed(c, T, {}, s \o seqs[m + 1])
    BY <2>1, <2>2, ClosedConcat
  <2>4. s \o seqs[m + 1] \in Seq(S)
    BY <2>1, ConcatProperties
  <2> QED
    BY <2>1, <2>3, <2>4
<1>3. FlattenSeq(seqs) \in Fit[n]
  <2> HIDE DEF Fit
  <2> QED
    BY <1>1, <1>2, FlattenBuilds
<1> QED
  BY <1>3

-----------------------------------------------------------------------------
(* Lists of a few steps.                                                     *)

(* p is a list of n steps of S, those of R. *)
ListOf(S, n, R, p) == p \in Seq(S) /\ Range(p) = R /\ DOMAIN p = 1 .. n

(* Lists of one to five steps are sequences of them.                         *)
LEMMA List1 ==
    ASSUME NEW S, NEW a \in S
    PROVE  ListOf(S, 1, {a}, <<a>>)
BY DEF Range, ListOf

LEMMA List2 ==
    ASSUME NEW S, NEW a \in S, NEW b \in S
    PROVE  ListOf(S, 2, {a, b}, <<a, b>>)
BY DEF Range, ListOf

LEMMA List3 ==
    ASSUME NEW S, NEW a \in S, NEW b \in S, NEW c \in S
    PROVE  ListOf(S, 3, {a, b, c}, <<a, b, c>>)
BY DEF Range, ListOf

LEMMA List4 ==
    ASSUME NEW S, NEW a \in S, NEW b \in S, NEW c \in S, NEW d \in S
    PROVE  ListOf(S, 4, {a, b, c, d}, <<a, b, c, d>>)
BY DEF Range, ListOf

LEMMA List5 ==
    ASSUME NEW S, NEW a \in S, NEW b \in S, NEW c \in S, NEW d \in S, NEW e \in S
    PROVE  ListOf(S, 5, {a, b, c, d, e}, <<a, b, c, d, e>>)
BY DEF Range, ListOf

-----------------------------------------------------------------------------
(* Detach of a PT1/PT2.                                                      *)

(* Pairs and blocks by their kinds.                                          *)
LEMMA PairIsIn ==
    ASSUME NEW kinds, NEW k \in kinds, NEW n, NEW i \in 1 .. n
    PROVE  <<k, i>> \in Pairs(kinds, n)
<1>1. \E k1 \in kinds, i1 \in 1 .. n : <<k, i>> = <<k1, i1>>
  BY Zenon
<1> QED
  BY <1>1 DEF Pairs

LEMMA KindsOfPairs ==
    ASSUME NEW kinds, NEW n, NEW x \in Pairs(kinds, n)
    PROVE  x[1] \in kinds /\ x[2] \in 1 .. n /\ x = <<x[1], x[2]>>
<1>1. PICK k \in kinds, i \in 1 .. n : x = <<k, i>>
  BY DEF Pairs
<1> QED
  BY <1>1

LEMMA KindsOfBlocks ==
    ASSUME NEW kind, NEW n, NEW m, NEW x \in Blocks(kind, n, m)
    PROVE  x[1] = kind /\ x[2] \in 1 .. n
<1>1. PICK i \in 1 .. n, j \in 1 .. m : x = <<kind, i, j>>
  BY DEF Blocks
<1> QED
  BY <1>1

LEMMA BlockIsIn ==
    ASSUME NEW kind, NEW n, NEW m, NEW i \in 1 .. n, NEW j \in 1 .. m
    PROVE  <<kind, i, j>> \in Blocks(kind, n, m)
<1>1. \E i1 \in 1 .. n, j1 \in 1 .. m : <<kind, i, j>> = <<kind, i1, j1>>
  BY Zenon
<1> QED
  BY <1>1 DEF Blocks

(* The things of a PT1/PT2.                                                  *)
LEMMA Members12 ==
    /\ mem \in Universe("PT1") /\ lock \in Universe("PT1")
    /\ dmat \in Universe("PT1") /\ nodes \in Universe("PT1")
    /\ \A s \in 1 .. Streams : /\ <<"buf", s>> \in Universe("PT1")
                               /\ <<"stream lock", s>> \in Universe("PT1")
                               /\ <<"dev", s>> \in Universe("PT1")
                               /\ <<"drv", s>> \in Universe("PT1")
    /\ \A r \in 1 .. Rings : /\ <<"ring", r>> \in Universe("PT1")
                             /\ \A d \in 1 .. Pages : <<"data", r, d>> \in Universe("PT1")
<1> DEFINE U == {mem, lock, dmat, nodes}
                \cup Pairs({"buf", "stream lock", "dev", "drv"}, Streams)
                \cup {<<"ring", r>> : r \in 1 .. Rings} \cup Blocks("data", Rings, Pages)
<1>1. Universe("PT1") = U
  BY DEF Universe
<1>2. mem \in U /\ lock \in U /\ dmat \in U /\ nodes \in U
  OBVIOUS
<1>3. ASSUME NEW s \in 1 .. Streams
      PROVE  /\ <<"buf", s>> \in U /\ <<"stream lock", s>> \in U
             /\ <<"dev", s>> \in U /\ <<"drv", s>> \in U
  <2> DEFINE K == {"buf", "stream lock", "dev", "drv"}
  <2>1. "buf" \in K /\ "stream lock" \in K /\ "dev" \in K /\ "drv" \in K
    OBVIOUS
  <2>2. Pairs(K, Streams) \subseteq U
    OBVIOUS
  <2> HIDE DEF K, U
  <2> QED
    BY <2>1, <2>2, PairIsIn
<1>4. ASSUME NEW r \in 1 .. Rings
      PROVE  <<"ring", r>> \in U /\ \A d \in 1 .. Pages : <<"data", r, d>> \in U
  <2>1. Blocks("data", Rings, Pages) \subseteq U /\ <<"ring", r>> \in U
    OBVIOUS
  <2> HIDE DEF U
  <2> QED
    BY <2>1, BlockIsIn
<1> HIDE DEF U
<1> QED
  BY <1>1, <1>2, <1>3, <1>4

LEMMA FreeIsTaking ==
    ASSUME NEW c, NEW x \in Universe(c), x # <<>>
    PROVE  /\ Free(x) \in TakeSteps(c) /\ Free(x).uses = {}
           /\ TakenBy(Free(x)) = IF x[1] = "dev" THEN {x, <<"drv", x[2]>>} ELSE {x}
BY DEF Free, Step, TakeSteps, Things, TakenBy

LEMMA FreePageIsTaking ==
    ASSUME NEW c, NEW x \in Universe(c), x # <<>>, IsPage(x),
           NEW tag \in Universe(c), c = "PT1" => tag = dmat
    PROVE  /\ FreePage(x, tag) \in TakeSteps(c) /\ FreePage(x, tag).uses = {tag}
           /\ TakenBy(FreePage(x, tag)) = {x}
BY DEF FreePage, Step, TakeSteps, Things, TakenBy

LEMMA UseIsTaking ==
    ASSUME NEW c, NEW uses \in SUBSET Universe(c), c = "PT1" => uses \subseteq {mem}
    PROVE  /\ Use(uses) \in TakeSteps(c) /\ Use(uses).uses = uses
           /\ TakenBy(Use(uses)) = {}
BY DEF Use, Step, TakeSteps, Things, TakenBy

LEMMA StopIsTaking ==
    ASSUME NEW c
    PROVE  /\ Proc("stop") \in TakeSteps(c) /\ Proc("stop").uses = {}
           /\ TakenBy(Proc("stop")) = {}
BY DEF Proc, Step, TakeSteps, Things, TakenBy

FreeData12(r) == FlattenSeq([d \in 1 .. Pages |-> << FreePage(<<"data", r, d>>, dmat) >>])

FreeRing12(r) == FreeData12(r) \o << FreePage(<<"ring", r>>, dmat) >>

(* ptx_dma_free, part by part.                                               *)
LEMMA DmaFreeParts ==
    ptx_dma_free = FlattenSeq([r \in 1 .. Rings |-> FreeRing12(r)])
BY DEF ptx_dma_free, For, FreeRing12, FreeData12

(* One step alone. *)
LEMMA Alone ==
    ASSUME NEW S, NEW a \in S
    PROVE  /\ <<a>> \in Seq(S) /\ Quiet(<<a>>)
           /\ Taken(<<a>>) = TakenBy(a) /\ Used(<<a>>) = a.uses
           /\ Made(<<a>>) = MadeBy(a) /\ Sure(<<a>>) = SureBy(a)
<1>1. <<a>> \in Seq(S) /\ Range(<<a>>) = {a} /\ DOMAIN <<a>> = 1 .. 1
  <2>1. ListOf(S, 1, {a}, <<a>>)
    BY List1
  <2> QED
    BY <2>1 DEF ListOf
<1>2. Quiet(<<a>>)
  BY <1>1 DEF Quiet
<1>3. /\ Taken(<<a>>) = TakenBy(a) /\ Used(<<a>>) = a.uses
      /\ Made(<<a>>) = MadeBy(a) /\ Sure(<<a>>) = SureBy(a)
  BY <1>1 DEF Taken, Used, Made, Sure
<1> QED
  BY <1>1, <1>2, <1>3

LEMMA PageFreed12 ==
    ASSUME NEW x \in Universe("PT1"), x # <<>>, IsPage(x)
    PROVE  /\ << FreePage(x, dmat) >> \in Seq(TakeSteps("PT1"))
           /\ Taken(<< FreePage(x, dmat) >>) = {x}
           /\ Used(<< FreePage(x, dmat) >>) = {dmat}
<1>1. /\ FreePage(x, dmat) \in TakeSteps("PT1") /\ FreePage(x, dmat).uses = {dmat}
      /\ TakenBy(FreePage(x, dmat)) = {x}
  BY Members12, FreePageIsTaking
<1> HIDE DEF IsPage
<1> QED
  BY <1>1, Alone

LEMMA DataFreed12 ==
    ASSUME Sizes, NEW r \in 1 .. Rings
    PROVE  /\ FreeRing12(r) \in Seq(TakeSteps("PT1"))
           /\ Taken(FreeRing12(r)) = {<<"ring", r>>} \cup {<<"data", r, d>> : d \in 1 .. Pages}
           /\ Used(FreeRing12(r)) = {dmat}
<1> DEFINE T == TakeSteps("PT1")
           seqs == [d \in 1 .. Pages |-> << FreePage(<<"data", r, d>>, dmat) >>]
<1>1. Pages \in Nat
  BY DEF Sizes
<1>2. ASSUME NEW d \in 1 .. Pages
      PROVE  /\ seqs[d] \in Seq(T) /\ Taken(seqs[d]) = {<<"data", r, d>>}
             /\ Used(seqs[d]) = {dmat}
  <2>1. <<"data", r, d>> \in Universe("PT1")
    BY Members12
  <2>2. <<"data", r, d>> # <<>> /\ IsPage(<<"data", r, d>>)
    BY DEF IsPage
  <2> QED
    BY <2>1, <2>2, PageFreed12
<1>3. seqs \in [1 .. Pages -> Seq(T)]
  BY <1>2
<1>4. FreeData12(r) = FlattenSeq(seqs)
  BY DEF FreeData12
<1> HIDE DEF seqs, T
<1>5. AllOf(T, Pages, seqs, FreeData12(r))
  BY <1>1, <1>3, <1>4, Flat, Zenon
<1>6. /\ Taken(FreeData12(r)) = {<<"data", r, d>> : d \in 1 .. Pages}
      /\ Used(FreeData12(r)) \subseteq {dmat}
  <2>1. \A x : x \in Taken(FreeData12(r)) <=> \E d \in 1 .. Pages : x = <<"data", r, d>>
    BY <1>2, <1>5 DEF AllOf
  <2>2. Used(FreeData12(r)) \subseteq {dmat}
    BY <1>2, <1>5 DEF AllOf
  <2> QED
    BY <2>1, <2>2
<1>7. /\ << FreePage(<<"ring", r>>, dmat) >> \in Seq(T)
      /\ Taken(<< FreePage(<<"ring", r>>, dmat) >>) = {<<"ring", r>>}
      /\ Used(<< FreePage(<<"ring", r>>, dmat) >>) = {dmat}
  <2>1. <<"ring", r>> \in Universe("PT1")
    BY Members12
  <2>2. <<"ring", r>> # <<>> /\ IsPage(<<"ring", r>>)
    BY DEF IsPage
  <2> QED
    BY <2>1, <2>2, PageFreed12 DEF T
<1>8. FreeData12(r) \in Seq(T)
  BY <1>5 DEF AllOf
<1>9. BothOf(T, FreeData12(r), << FreePage(<<"ring", r>>, dmat) >>, FreeRing12(r))
  BY <1>7, <1>8, Both, Zenon DEF FreeRing12
<1> QED
  BY <1>6, <1>7, <1>9 DEF T, BothOf

(* ptx_dma_free takes all the rings and pages.                               *)
LEMMA DmaFreed12 ==
    ASSUME Sizes
    PROVE  /\ ptx_dma_free \in Seq(TakeSteps("PT1"))
           /\ Taken(ptx_dma_free) =
                {<<"ring", r>> : r \in 1 .. Rings} \cup Blocks("data", Rings, Pages)
           /\ Used(ptx_dma_free) \subseteq {dmat}
<1> DEFINE T == TakeSteps("PT1")
           seqs == [r \in 1 .. Rings |-> FreeRing12(r)]
<1>1. Rings \in Nat
  BY DEF Sizes
<1>2. seqs \in [1 .. Rings -> Seq(T)]
  BY DataFreed12
<1>3. \A r \in 1 .. Rings :
        /\ Taken(seqs[r]) = {<<"ring", r>>} \cup {<<"data", r, d>> : d \in 1 .. Pages}
        /\ Used(seqs[r]) = {dmat}
  BY DataFreed12
<1>4. ptx_dma_free = FlattenSeq(seqs)
  BY DmaFreeParts
<1> HIDE DEF seqs, T
<1>5. AllOf(T, Rings, seqs, ptx_dma_free)
  BY <1>1, <1>2, <1>4, Flat, Zenon
<1>6. Used(ptx_dma_free) \subseteq {dmat}
  BY <1>3, <1>5 DEF AllOf
<1>7. Taken(ptx_dma_free) =
        {<<"ring", r>> : r \in 1 .. Rings} \cup Blocks("data", Rings, Pages)
  <2>1. \A x : x \in Taken(ptx_dma_free) <=>
                 \E r \in 1 .. Rings : x = <<"ring", r>> \/ \E d \in 1 .. Pages : x = <<"data", r, d>>
    BY <1>3, <1>5 DEF AllOf
  <2> QED
    BY <2>1 DEF Blocks
<1> QED
  BY <1>5, <1>6, <1>7 DEF T, AllOf

FreeStream12(s) == << Free(<<"stream lock", s>>), Free(<<"buf", s>>), Free(<<"dev", s>>) >>

FreeStreams12 == FlattenSeq([s \in 1 .. Streams |-> FreeStream12(s)])

EndOfDetach12 == << Use({mem}), Free(dmat), Free(lock), Free(mem) >>

(* ptx_detach, part by part.                                                 *)
LEMMA DetachParts12 ==
    detach12 = ((<< Proc("stop"), Use({mem}) >> \o ptx_dma_free) \o FreeStreams12)
               \o EndOfDetach12
BY DEF detach12, For, FreeStreams12, FreeStream12, EndOfDetach12

LEMMA StreamsType == ASSUME Sizes PROVE Streams \in Nat
BY DEF Sizes, Streams

LEMMA StreamFreed12 ==
    ASSUME NEW s \in 1 .. Streams
    PROVE  /\ FreeStream12(s) \in Seq(TakeSteps("PT1"))
           /\ Taken(FreeStream12(s)) =
                {<<"stream lock", s>>, <<"buf", s>>, <<"dev", s>>, <<"drv", s>>}
           /\ Used(FreeStream12(s)) = {}
<1> DEFINE a == Free(<<"stream lock", s>>)
           b == Free(<<"buf", s>>)
           c == Free(<<"dev", s>>)
           T == TakeSteps("PT1")
<1>1. a \in T /\ a.uses = {} /\ TakenBy(a) = {<<"stream lock", s>>}
  <2> DEFINE x == <<"stream lock", s>>
  <2>1. x \in Universe("PT1") /\ x # <<>> /\ x[1] # "dev"
    BY Members12
  <2> HIDE DEF x
  <2> QED
    BY <2>1, FreeIsTaking DEF x
<1>2. b \in T /\ b.uses = {} /\ TakenBy(b) = {<<"buf", s>>}
  <2> DEFINE x == <<"buf", s>>
  <2>1. x \in Universe("PT1") /\ x # <<>> /\ x[1] # "dev"
    BY Members12
  <2> HIDE DEF x
  <2> QED
    BY <2>1, FreeIsTaking DEF x
<1>3. c \in T /\ c.uses = {} /\ TakenBy(c) = {<<"dev", s>>, <<"drv", s>>}
  <2> DEFINE x == <<"dev", s>>
  <2>1. x \in Universe("PT1") /\ x # <<>> /\ x[1] = "dev" /\ x[2] = s
    BY Members12
  <2> HIDE DEF x
  <2> QED
    BY <2>1, FreeIsTaking DEF x
<1>4. FreeStream12(s) = <<a, b, c>>
  BY DEF FreeStream12
<1> HIDE DEF a, b, c, T
<1>5. <<a, b, c>> \in Seq(T) /\ Range(<<a, b, c>>) = {a, b, c}
  <2>1. ListOf(T, 3, {a, b, c}, <<a, b, c>>)
    BY <1>1, <1>2, <1>3, List3, Zenon
  <2> QED
    BY <2>1 DEF ListOf
<1>6. Taken(<<a, b, c>>) = {<<"stream lock", s>>, <<"buf", s>>, <<"dev", s>>, <<"drv", s>>}
  <2>1. Taken(<<a, b, c>>) = UNION {TakenBy(step) : step \in {a, b, c}}
    BY <1>5, Zenon DEF Taken
  <2>2. UNION {TakenBy(step) : step \in {a, b, c}} = TakenBy(a) \cup TakenBy(b) \cup TakenBy(c)
    OBVIOUS
  <2> QED
    BY <1>1, <1>2, <1>3, <2>1, <2>2
<1>7. Used(<<a, b, c>>) = {}
  BY <1>1, <1>2, <1>3, <1>5 DEF Used
<1> QED
  BY <1>4, <1>5, <1>6, <1>7 DEF T

(* The buffers, locks and devices of all streams are taken.                  *)
LEMMA StreamsFreed12 ==
    ASSUME Sizes
    PROVE  /\ FreeStreams12 \in Seq(TakeSteps("PT1"))
           /\ Taken(FreeStreams12) = Pairs({"buf", "stream lock", "dev", "drv"}, Streams)
           /\ Used(FreeStreams12) = {}
<1> DEFINE T == TakeSteps("PT1")
           seqs == [s \in 1 .. Streams |-> FreeStream12(s)]
<1>1. seqs \in [1 .. Streams -> Seq(T)]
  BY StreamFreed12
<1>2. \A s \in 1 .. Streams :
        /\ Taken(seqs[s]) = {<<"stream lock", s>>, <<"buf", s>>, <<"dev", s>>, <<"drv", s>>}
        /\ Used(seqs[s]) = {}
  BY StreamFreed12
<1>3. FreeStreams12 = FlattenSeq(seqs)
  BY DEF FreeStreams12
<1> HIDE DEF seqs, T
<1>4. AllOf(T, Streams, seqs, FreeStreams12)
  BY <1>1, <1>3, StreamsType, Flat, Zenon
<1>5. Used(FreeStreams12) = {}
  BY <1>2, <1>4 DEF AllOf
<1>6. Taken(FreeStreams12) = Pairs({"buf", "stream lock", "dev", "drv"}, Streams)
  <2> DEFINE K == {"buf", "stream lock", "dev", "drv"}
             Own(s) == {<<"stream lock", s>>, <<"buf", s>>, <<"dev", s>>, <<"drv", s>>}
  <2>1. \A s \in 1 .. Streams : \A x : x \in Own(s) <=> \E k \in K : x = <<k, s>>
    OBVIOUS
  <2>2. \A s \in 1 .. Streams : Taken(seqs[s]) = Own(s)
    BY <1>2
  <2> HIDE DEF Own, K
  <2>3. \A x : x \in Taken(FreeStreams12) <=> \E s \in 1 .. Streams : x \in Own(s)
    BY <1>4, <2>2 DEF AllOf
  <2>4. \A x : x \in Taken(FreeStreams12) <=> \E k \in K, s \in 1 .. Streams : x = <<k, s>>
    BY <2>1, <2>3
  <2>5. Taken(FreeStreams12) = Pairs(K, Streams)
    BY <2>4 DEF Pairs
  <2> QED
    BY <2>5 DEF K
<1> QED
  BY <1>4, <1>5, <1>6 DEF T, AllOf

(* Detach takes all there is, uses nothing but the card's memory and the     *)
(* tag of the pages, and those only before they are gone.                    *)
LEMMA DetachIsRight12 ==
    ASSUME Sizes
    PROVE  /\ detach12 \in Seq(TakeSteps("PT1"))
           /\ Universe("PT1") \subseteq Taken(detach12) \cup {nodes}
           /\ Quiet(detach12)
<1> DEFINE T == TakeSteps("PT1")
           first == << Proc("stop"), Use({mem}) >>
           P1 == first \o ptx_dma_free
           P2 == P1 \o FreeStreams12
<1>1. /\ Proc("stop") \in T /\ Proc("stop").uses = {} /\ TakenBy(Proc("stop")) = {}
      /\ Use({mem}) \in T /\ Use({mem}).uses = {mem} /\ TakenBy(Use({mem})) = {}
  <2>1. {mem} \in SUBSET Universe("PT1")
    BY Members12
  <2>2. /\ Proc("stop") \in TakeSteps("PT1") /\ Proc("stop").uses = {}
        /\ TakenBy(Proc("stop")) = {}
    BY StopIsTaking
  <2>3. /\ Use({mem}) \in TakeSteps("PT1") /\ Use({mem}).uses = {mem}
        /\ TakenBy(Use({mem})) = {}
    BY <2>1, UseIsTaking
  <2> QED
    BY <2>2, <2>3
<1>2. first \in Seq(T) /\ Taken(first) = {} /\ Used(first) = {mem}
  <2>1. first \in Seq(T) /\ Range(first) = {Proc("stop"), Use({mem})}
    <3>1. ListOf(T, 2, {Proc("stop"), Use({mem})}, first)
      BY <1>1, List2, Zenon
    <3> QED
      BY <3>1 DEF ListOf
  <2> HIDE DEF first
  <2> QED
    BY <1>1, <2>1 DEF Taken, Used
<1>3. /\ \A x \in {dmat, lock, mem} : /\ x \in Universe("PT1") /\ x # <<>>
                                      /\ x[1] \notin {"dev", "ring", "data", "buf", "stream lock", "drv"}
      /\ dmat # lock /\ mem # lock /\ mem # dmat
  <2>1. dmat[1] = "dmat" /\ lock[1] = "lock" /\ mem[1] = "res_memory"
    BY DEF dmat, lock, mem
  <2>2. dmat # <<>> /\ lock # <<>> /\ mem # <<>>
    BY DEF dmat, lock, mem
  <2> QED
    BY <2>1, <2>2, Members12
<1>4. \A x \in {dmat, lock, mem} : /\ Free(x) \in T /\ Free(x).uses = {}
                                   /\ TakenBy(Free(x)) = {x}
  BY <1>3, FreeIsTaking
<1>5. EndOfDetach12 \in Seq(T) /\ Taken(EndOfDetach12) = {dmat, lock, mem}
      /\ Used(EndOfDetach12) = {mem} /\ Quiet(EndOfDetach12)
  <2> DEFINE a == Use({mem})
             b == Free(dmat)
             c == Free(lock)
             d == Free(mem)
             p == <<a, b, c, d>>
  <2>1. /\ a \in T /\ b \in T /\ c \in T /\ d \in T
        /\ a.uses = {mem} /\ b.uses = {} /\ c.uses = {} /\ d.uses = {}
        /\ TakenBy(a) = {} /\ TakenBy(b) = {dmat} /\ TakenBy(c) = {lock} /\ TakenBy(d) = {mem}
    BY <1>1, <1>4
  <2>2. EndOfDetach12 = p
    BY DEF EndOfDetach12
  <2> HIDE DEF a, b, c, d, T
  <2>3. /\ p \in Seq(T) /\ Range(p) = {a, b, c, d} /\ DOMAIN p = 1 .. 4
        /\ p[1] = a /\ p[2] = b /\ p[3] = c /\ p[4] = d
    <3>1. ListOf(T, 4, {a, b, c, d}, p)
      BY <2>1, List4, Zenon
    <3> QED
      BY <3>1 DEF ListOf
  <2> HIDE DEF p
  <2>4. Taken(p) = {dmat, lock, mem} /\ Used(p) = {mem}
    BY <2>1, <2>3 DEF Taken, Used
  <2>5. Quiet(p)
    <3>1. \A i \in DOMAIN p : i = 1 \/ p[i].uses = {}
      BY <2>1, <2>3
    <3>2. \A j \in 1 .. 1 - 1 : FALSE
      OBVIOUS
    <3> QED
      BY <3>1, <3>2 DEF Quiet
  <2> QED
    BY <2>2, <2>3, <2>4, <2>5
<1> HIDE DEF first, T, P1, P2
<1>6. ptx_dma_free \in Seq(T) /\ FreeStreams12 \in Seq(T)
  BY DmaFreed12, StreamsFreed12 DEF T
<1>7. BothOf(T, first, ptx_dma_free, P1)
  BY <1>2, <1>6, Both, Zenon DEF P1
<1>8. P1 \in Seq(T)
  BY <1>7 DEF BothOf
<1>9. BothOf(T, P1, FreeStreams12, P2)
  BY <1>6, <1>8, Both, Zenon DEF P2
<1>10. P2 \in Seq(T)
  BY <1>9 DEF BothOf
<1>11. detach12 = P2 \o EndOfDetach12
  BY DetachParts12 DEF P2, P1, first
<1>12. BothOf(T, P2, EndOfDetach12, detach12)
  BY <1>5, <1>10, <1>11, Both, Zenon
<1>13. /\ Taken(P2) = {<<"ring", r>> : r \in 1 .. Rings} \cup Blocks("data", Rings, Pages)
                      \cup Pairs({"buf", "stream lock", "dev", "drv"}, Streams)
       /\ Used(P2) \subseteq {mem, dmat}
  BY <1>2, <1>7, <1>9, DmaFreed12, StreamsFreed12 DEF BothOf
<1>14. Universe("PT1") \subseteq Taken(detach12) \cup {nodes}
  <2>1. Taken(detach12) = Taken(P2) \cup {dmat, lock, mem}
    BY <1>5, <1>12 DEF BothOf
  <2> QED
    BY <1>13, <2>1 DEF Universe
<1>15. \A x \in Taken(P2) : x[1] \in {"ring", "data", "buf", "stream lock", "dev", "drv"}
  <2> TAKE x \in Taken(P2)
  <2>1. CASE x \in {<<"ring", r>> : r \in 1 .. Rings}
    <3>1. PICK r \in 1 .. Rings : x = <<"ring", r>>
      BY <2>1
    <3> QED
      BY <3>1
  <2>2. CASE x \in Blocks("data", Rings, Pages)
    <3>1. x[1] = "data"
      BY <2>2, KindsOfBlocks, Zenon
    <3> QED
      BY <3>1
  <2>3. CASE x \in Pairs({"buf", "stream lock", "dev", "drv"}, Streams)
    <3>1. x[1] \in {"buf", "stream lock", "dev", "drv"}
      BY <2>3, KindsOfPairs, Zenon
    <3> QED
      BY <3>1
  <2> QED
    BY <1>13, <2>1, <2>2, <2>3
<1>16. Quiet(P2)
  <2>1. Taken(P2) \cap Used(P2) = {}
    BY <1>3, <1>13, <1>15
  <2> QED
    BY <1>10, <2>1, QuietApart
<1>17. Quiet(detach12)
  <2>1. Taken(P2) \cap Used(EndOfDetach12) = {}
    BY <1>3, <1>5, <1>15
  <2> QED
    BY <1>5, <1>10, <1>11, <1>16, <2>1, QuietConcat
<1> QED
  BY <1>12, <1>14, <1>17 DEF BothOf, T

-----------------------------------------------------------------------------
(* Detach of a PT3.                                                          *)

Kinds3 == {"channel", "dma", "dma lock", "ts_info", "desc_info", "dev", "drv"}

(* The things of a PT3.                                                      *)
LEMMA Members3 ==
    /\ \A x \in {mem, mem3, i2c, lock, dmat, dmat3, nodes} : x \in Universe("PT3")
    /\ \A t \in 1 .. Tuners : Parts(t) \subseteq Universe("PT3")
    /\ \A c \in 1 .. Streams : /\ \A k \in Kinds3 : <<k, c>> \in Universe("PT3")
                               /\ \A p \in 1 .. Pages : <<"data", c, p>> \in Universe("PT3")
                               /\ \A r \in 1 .. Rings : <<"ring", c, r>> \in Universe("PT3")
<1> DEFINE K == {"tc_s", "qm", "tc_t", "mx"}
           M == {mem, mem3, i2c, lock, dmat, dmat3, nodes}
           U == M \cup Pairs(K, Tuners) \cup Pairs(Kinds3, Streams)
                \cup Blocks("data", Streams, Pages) \cup Blocks("ring", Streams, Rings)
<1>1. Universe("PT3") = U
  BY DEF Universe, Kinds3
<1>2. \A x \in M : x \in U
  OBVIOUS
<1>3. /\ Pairs(K, Tuners) \subseteq U /\ Pairs(Kinds3, Streams) \subseteq U
      /\ Blocks("data", Streams, Pages) \subseteq U /\ Blocks("ring", Streams, Rings) \subseteq U
  OBVIOUS
<1>4. ASSUME NEW t \in 1 .. Tuners
      PROVE  Parts(t) \subseteq U
  <2>1. "tc_s" \in K /\ "qm" \in K /\ "tc_t" \in K /\ "mx" \in K
    OBVIOUS
  <2> HIDE DEF K, U
  <2> QED
    BY <1>3, <2>1, PairIsIn DEF Parts
<1>5. ASSUME NEW c \in 1 .. Streams
      PROVE  /\ \A k \in Kinds3 : <<k, c>> \in U
             /\ \A p \in 1 .. Pages : <<"data", c, p>> \in U
             /\ \A r \in 1 .. Rings : <<"ring", c, r>> \in U
  <2> HIDE DEF U
  <2> QED
    BY <1>3, PairIsIn, BlockIsIn
<1> HIDE DEF U
<1> QED
  BY <1>1, <1>2, <1>4, <1>5

LEMMA TunerOfChannel ==
    ASSUME Sizes, NEW c \in 1 .. Streams
    PROVE  TunerOf(c) \in 1 .. Tuners
<1>1. Tuners \in Nat /\ Tuners > 0
  BY DEF Sizes, Streams
<1>2. c - 1 \in Int
  OBVIOUS
<1>3. (c - 1) % Tuners \in 0 .. Tuners - 1
  BY <1>1, <1>2
<1> QED
  BY <1>1, <1>3 DEF TunerOf

LEMMA FreeOne ==
    ASSUME NEW c, NEW k, NEW i, <<k, i>> \in Universe(c), k # "dev"
    PROVE  /\ Free(<<k, i>>) \in TakeSteps(c) /\ Free(<<k, i>>).uses = {}
           /\ TakenBy(Free(<<k, i>>)) = {<<k, i>>}
<1> DEFINE x == <<k, i>>
<1>1. x \in Universe(c) /\ x # <<>> /\ x[1] # "dev"
  OBVIOUS
<1> HIDE DEF x
<1>2. Free(x) \in TakeSteps(c) /\ Free(x).uses = {} /\ TakenBy(Free(x)) = {x}
  BY <1>1, FreeIsTaking
<1> QED
  BY <1>2 DEF x

LEMMA FreeDev ==
    ASSUME NEW c, NEW i, <<"dev", i>> \in Universe(c)
    PROVE  /\ Free(<<"dev", i>>) \in TakeSteps(c) /\ Free(<<"dev", i>>).uses = {}
           /\ TakenBy(Free(<<"dev", i>>)) = {<<"dev", i>>, <<"drv", i>>}
<1> DEFINE x == <<"dev", i>>
<1>1. x \in Universe(c) /\ x # <<>> /\ x[1] = "dev" /\ x[2] = i
  OBVIOUS
<1> HIDE DEF x
<1>2. Free(x) \in TakeSteps(c) /\ Free(x).uses = {} /\ TakenBy(Free(x)) = {x, <<"drv", i>>}
  BY <1>1, FreeIsTaking
<1> QED
  BY <1>2 DEF x

(* The blocks of a channel's buffer, or its pages of descriptors. *)
FreeBlocks3(kind, c, n, tag) ==
    FlattenSeq([p \in 1 .. n |-> << FreePage(<<kind, c, p>>, tag) >>])

LEMMA BlocksFreed3 ==
    ASSUME NEW n \in Nat, NEW kind \in {"data", "ring"}, NEW c, NEW tag \in Universe("PT3"),
           \A p \in 1 .. n : <<kind, c, p>> \in Universe("PT3")
    PROVE  /\ FreeBlocks3(kind, c, n, tag) \in Seq(TakeSteps("PT3"))
           /\ Taken(FreeBlocks3(kind, c, n, tag)) = {<<kind, c, p>> : p \in 1 .. n}
           /\ Used(FreeBlocks3(kind, c, n, tag)) \subseteq {tag}
<1> DEFINE T == TakeSteps("PT3")
           seqs == [p \in 1 .. n |-> << FreePage(<<kind, c, p>>, tag) >>]
<1>1. ASSUME NEW p \in 1 .. n
      PROVE  /\ seqs[p] \in Seq(T) /\ Taken(seqs[p]) = {<<kind, c, p>>}
             /\ Used(seqs[p]) = {tag}
  <2> DEFINE x == <<kind, c, p>>
             a == FreePage(x, tag)
  <2>1. x \in Universe("PT3") /\ x # <<>> /\ IsPage(x)
    BY DEF IsPage
  <2>2. seqs[p] = <<a>>
    OBVIOUS
  <2> HIDE DEF x, seqs
  <2>3. a \in T /\ a.uses = {tag} /\ TakenBy(a) = {x}
    BY <2>1, FreePageIsTaking
  <2> HIDE DEF a, T
  <2>4. <<a>> \in Seq(T) /\ Taken(<<a>>) = TakenBy(a) /\ Used(<<a>>) = a.uses
    BY <2>3, Alone
  <2> QED
    BY <2>2, <2>3, <2>4 DEF x
<1>2. seqs \in [1 .. n -> Seq(T)]
  BY <1>1
<1>3. FreeBlocks3(kind, c, n, tag) = FlattenSeq(seqs)
  BY DEF FreeBlocks3
<1> HIDE DEF seqs, T
<1>4. AllOf(T, n, seqs, FreeBlocks3(kind, c, n, tag))
  BY <1>2, <1>3, Flat, Zenon
<1>5. \A x : x \in Taken(FreeBlocks3(kind, c, n, tag)) <=> \E p \in 1 .. n : x = <<kind, c, p>>
  BY <1>1, <1>4 DEF AllOf
<1>6. Used(FreeBlocks3(kind, c, n, tag)) \subseteq {tag}
  BY <1>1, <1>4 DEF AllOf
<1> QED
  BY <1>4, <1>5, <1>6 DEF T, AllOf

FreedInfo3(c) == << Free(<<"desc_info", c>>), Free(<<"dma", c>>) >>

(* free_pt3_dma, part by part.                                               *)
LEMMA FreeDmaParts ==
    ASSUME NEW c
    PROVE  free_pt3_dma(c) =
             ((FreeBlocks3("data", c, Pages, dmat3) \o << Free(<<"ts_info", c>>) >>)
              \o FreeBlocks3("ring", c, Rings, dmat)) \o FreedInfo3(c)
BY DEF free_pt3_dma, For, FreeBlocks3, FreedInfo3

OfBuffer(c) ==
    {<<"data", c, p>> : p \in 1 .. Pages} \cup {<<"ring", c, r>> : r \in 1 .. Rings}
    \cup {<<"ts_info", c>>, <<"desc_info", c>>, <<"dma", c>>}

(* free_pt3_dma takes the blocks and the descriptors of one channel.         *)
LEMMA DmaFreed3 ==
    ASSUME Sizes, NEW c \in 1 .. Streams
    PROVE  /\ free_pt3_dma(c) \in Seq(TakeSteps("PT3"))
           /\ Taken(free_pt3_dma(c)) = OfBuffer(c)
           /\ Used(free_pt3_dma(c)) \subseteq {dmat, dmat3}
<1> DEFINE T == TakeSteps("PT3")
           A == FreeBlocks3("data", c, Pages, dmat3)
           b == Free(<<"ts_info", c>>)
           C == FreeBlocks3("ring", c, Rings, dmat)
           d == Free(<<"desc_info", c>>)
           e == Free(<<"dma", c>>)
           P1 == A \o <<b>>
           P2 == P1 \o C
<1>1. /\ A \in Seq(T) /\ Taken(A) = {<<"data", c, p>> : p \in 1 .. Pages}
      /\ Used(A) \subseteq {dmat3}
  <2>1. Pages \in Nat /\ dmat3 \in Universe("PT3") /\ "data" \in {"data", "ring"}
    BY Members3 DEF Sizes
  <2>2. \A p \in 1 .. Pages : <<"data", c, p>> \in Universe("PT3")
    BY Members3
  <2> QED
    BY <2>1, <2>2, BlocksFreed3
<1>2. /\ C \in Seq(T) /\ Taken(C) = {<<"ring", c, r>> : r \in 1 .. Rings}
      /\ Used(C) \subseteq {dmat}
  <2>1. Rings \in Nat /\ dmat \in Universe("PT3") /\ "ring" \in {"data", "ring"}
    BY Members3 DEF Sizes
  <2>2. \A p \in 1 .. Rings : <<"ring", c, p>> \in Universe("PT3")
    BY Members3
  <2> QED
    BY <2>1, <2>2, BlocksFreed3
<1>3. /\ b \in T /\ b.uses = {} /\ TakenBy(b) = {<<"ts_info", c>>}
      /\ d \in T /\ d.uses = {} /\ TakenBy(d) = {<<"desc_info", c>>}
      /\ e \in T /\ e.uses = {} /\ TakenBy(e) = {<<"dma", c>>}
  <2>1. /\ <<"ts_info", c>> \in Universe("PT3") /\ <<"desc_info", c>> \in Universe("PT3")
        /\ <<"dma", c>> \in Universe("PT3")
    BY Members3 DEF Kinds3
  <2> QED
    BY <2>1, FreeOne
<1>4. free_pt3_dma(c) = P2 \o <<d, e>>
  BY FreeDmaParts DEF FreedInfo3
<1> HIDE DEF T, A, b, C, d, e, P1, P2
<1>5. <<b>> \in Seq(T) /\ Taken(<<b>>) = {<<"ts_info", c>>} /\ Used(<<b>>) = {}
  BY <1>3, Alone
<1>6. /\ <<d, e>> \in Seq(T) /\ Taken(<<d, e>>) = {<<"desc_info", c>>, <<"dma", c>>}
      /\ Used(<<d, e>>) = {}
  <2>1. ListOf(T, 2, {d, e}, <<d, e>>)
    BY <1>3, List2, Zenon
  <2> QED
    BY <1>3, <2>1 DEF ListOf, Taken, Used
<1>7. BothOf(T, A, <<b>>, P1) /\ P1 \in Seq(T)
  <2>1. BothOf(T, A, <<b>>, P1)
    BY <1>1, <1>5, Both, Zenon DEF P1
  <2> QED
    BY <2>1 DEF BothOf
<1>8. BothOf(T, P1, C, P2) /\ P2 \in Seq(T)
  <2>1. BothOf(T, P1, C, P2)
    BY <1>2, <1>7, Both, Zenon DEF P2
  <2> QED
    BY <2>1 DEF BothOf
<1>9. BothOf(T, P2, <<d, e>>, free_pt3_dma(c))
  BY <1>4, <1>6, <1>8, Both, Zenon
<1>10. Taken(free_pt3_dma(c)) = OfBuffer(c)
  BY <1>1, <1>2, <1>5, <1>6, <1>7, <1>8, <1>9 DEF BothOf, OfBuffer
<1>11. Used(free_pt3_dma(c)) \subseteq {dmat, dmat3}
  BY <1>1, <1>2, <1>5, <1>6, <1>7, <1>8, <1>9 DEF BothOf
<1> QED
  BY <1>9, <1>10, <1>11 DEF BothOf, T

(* What belongs to no channel and to no tuner. *)
Common == {mem, mem3, i2c, lock, dmat, dmat3}

LEMMA KindsOfCommon ==
    /\ mem[1] = "res_memory" /\ mem3[1] = "pt3_res_memory" /\ i2c[1] = "i2c"
    /\ lock[1] = "lock" /\ dmat[1] = "dmat" /\ dmat3[1] = "pt3_dmat"
    /\ \A x \in Common : x # <<>>
BY DEF mem, mem3, i2c, lock, dmat, dmat3, Common

LEMMA KindsOfBuffer ==
    ASSUME NEW c, NEW x \in OfBuffer(c)
    PROVE  x[1] \in {"data", "ring", "ts_info", "desc_info", "dma"} /\ x[2] = c
<1>1. CASE x \in {<<"data", c, p>> : p \in 1 .. Pages}
  <2>1. PICK p \in 1 .. Pages : x = <<"data", c, p>>
    BY <1>1
  <2> QED
    BY <2>1
<1>2. CASE x \in {<<"ring", c, r>> : r \in 1 .. Rings}
  <2>1. PICK r \in 1 .. Rings : x = <<"ring", c, r>>
    BY <1>2
  <2> QED
    BY <2>1
<1>3. CASE x \in {<<"ts_info", c>>, <<"desc_info", c>>, <<"dma", c>>}
  BY <1>3
<1> QED
  BY <1>1, <1>2, <1>3 DEF OfBuffer

LEMMA KindsOfParts ==
    ASSUME NEW t, NEW x \in Parts(t)
    PROVE  x[1] \in {"tc_s", "qm", "tc_t", "mx"} /\ x[2] = t
BY DEF Parts

(* Sleep of a channel's tuner: nothing is taken. *)
QuietOne3(c) ==
    << Use({<<"dev", c>>, <<"drv", c>>, lock, <<"channel", c>>, <<"dma", c>>, mem}),
       Use(Commands(TunerOf(c))) >>

LEMMA QuietenedOne3 ==
    ASSUME Sizes, NEW c \in 1 .. Streams
    PROVE  QuietOne3(c) \in Seq(TakeSteps("PT3")) /\ Taken(QuietOne3(c)) = {}
<1> DEFINE u == {<<"dev", c>>, <<"drv", c>>, lock, <<"channel", c>>, <<"dma", c>>, mem}
           v == Commands(TunerOf(c))
           T == TakeSteps("PT3")
<1>1. u \in SUBSET Universe("PT3")
  BY Members3 DEF Kinds3
<1>2. v \in SUBSET Universe("PT3")
  BY Members3, TunerOfChannel DEF Commands
<1>3. QuietOne3(c) = <<Use(u), Use(v)>>
  BY DEF QuietOne3
<1> HIDE DEF u, v
<1>4. Use(u) \in T /\ Use(v) \in T /\ TakenBy(Use(u)) = {} /\ TakenBy(Use(v)) = {}
  BY <1>1, <1>2, UseIsTaking
<1> HIDE DEF T
<1>5. ListOf(T, 2, {Use(u), Use(v)}, <<Use(u), Use(v)>>)
  BY <1>4, List2, Zenon
<1> QED
  BY <1>3, <1>4, <1>5 DEF ListOf, Taken, T

QuietAll3 == FlattenSeq([c \in 1 .. Streams |-> QuietOne3(c)])

(* pt3_exit first only uses the channels.                                    *)
LEMMA QuietenedAll3 ==
    ASSUME Sizes
    PROVE  QuietAll3 \in Seq(TakeSteps("PT3")) /\ Taken(QuietAll3) = {} /\ Quiet(QuietAll3)
<1> DEFINE T == TakeSteps("PT3")
           seqs == [c \in 1 .. Streams |-> QuietOne3(c)]
<1>1. seqs \in [1 .. Streams -> Seq(T)] /\ \A c \in 1 .. Streams : Taken(seqs[c]) = {}
  BY QuietenedOne3
<1>2. QuietAll3 = FlattenSeq(seqs)
  BY DEF QuietAll3
<1> HIDE DEF seqs, T
<1>3. AllOf(T, Streams, seqs, QuietAll3)
  BY <1>1, <1>2, StreamsType, Flat, Zenon
<1>4. QuietAll3 \in Seq(T) /\ Taken(QuietAll3) = {}
  BY <1>1, <1>3 DEF AllOf
<1>5. Quiet(QuietAll3)
  BY <1>4, QuietApart
<1> QED
  BY <1>4, <1>5 DEF T

(* What drives a tuner is taken down. *)
FreeTuner3(t) ==
    << Free(<<"tc_s", t>>), Use({<<"tc_t", t>>, i2c, mem, mem3, lock}),
       Free(<<"tc_t", t>>), Free(<<"qm", t>>), Free(<<"mx", t>>) >>

LEMMA TunerFreed3 ==
    ASSUME NEW t \in 1 .. Tuners
    PROVE  /\ FreeTuner3(t) \in Seq(TakeSteps("PT3")) /\ Quiet(FreeTuner3(t))
           /\ Taken(FreeTuner3(t)) = Parts(t)
           /\ Used(FreeTuner3(t)) = {<<"tc_t", t>>, i2c, mem, mem3, lock}
<1> DEFINE T == TakeSteps("PT3")
           u == {<<"tc_t", t>>, i2c, mem, mem3, lock}
           a == Free(<<"tc_s", t>>)
           b == Use(u)
           c == Free(<<"tc_t", t>>)
           d == Free(<<"qm", t>>)
           e == Free(<<"mx", t>>)
           p == <<a, b, c, d, e>>
<1>1. /\ a \in T /\ a.uses = {} /\ TakenBy(a) = {<<"tc_s", t>>}
      /\ c \in T /\ c.uses = {} /\ TakenBy(c) = {<<"tc_t", t>>}
      /\ d \in T /\ d.uses = {} /\ TakenBy(d) = {<<"qm", t>>}
      /\ e \in T /\ e.uses = {} /\ TakenBy(e) = {<<"mx", t>>}
  <2>1. /\ <<"tc_s", t>> \in Universe("PT3") /\ <<"tc_t", t>> \in Universe("PT3")
        /\ <<"qm", t>> \in Universe("PT3") /\ <<"mx", t>> \in Universe("PT3")
    BY Members3 DEF Parts
  <2> QED
    BY <2>1, FreeOne
<1>2. b \in T /\ b.uses = u /\ TakenBy(b) = {}
  <2>1. u \in SUBSET Universe("PT3")
    BY Members3 DEF Parts
  <2> HIDE DEF u
  <2> QED
    BY <2>1, UseIsTaking
<1>3. FreeTuner3(t) = p
  BY DEF FreeTuner3
<1>4. <<"tc_s", t>> \notin u
  <2>1. <<"tc_s", t>>[1] = "tc_s" /\ <<"tc_t", t>>[1] = "tc_t"
    OBVIOUS
  <2> QED
    BY <2>1, KindsOfCommon
<1> HIDE DEF T, a, b, c, d, e
<1>5. p \in Seq(T) /\ Range(p) = {a, b, c, d, e} /\ DOMAIN p = 1 .. 5
  <2>1. ListOf(T, 5, {a, b, c, d, e}, p)
    BY <1>1, <1>2, List5, Zenon
  <2> QED
    BY <2>1 DEF ListOf
<1>6. p[1] = a /\ p[2] = b /\ p[3] = c /\ p[4] = d /\ p[5] = e
  OBVIOUS
<1> HIDE DEF p, u
<1>7. Taken(p) = Parts(t)
  BY <1>1, <1>2, <1>5 DEF Taken, Parts
<1>8. Used(p) = u
  BY <1>1, <1>2, <1>5 DEF Used
<1>9. Quiet(p)
  <2> SUFFICES ASSUME NEW i \in DOMAIN p, NEW j \in 1 .. i - 1
               PROVE  p[i].uses \cap TakenBy(p[j]) = {}
    BY DEF Quiet
  <2>1. i \in 1 .. 5
    BY <1>5
  <2>2. i = 2 \/ p[i].uses = {}
    BY <1>1, <1>6, <2>1
  <2>3. i = 2 => j = 1
    OBVIOUS
  <2> QED
    BY <1>1, <1>2, <1>4, <1>6, <2>2, <2>3
<1> QED
  BY <1>3, <1>5, <1>7, <1>8, <1>9 DEF T, u

FreeTuners3 == FlattenSeq([t \in 1 .. Tuners |-> FreeTuner3(t)])

(* The parts of all tuners are taken.                                        *)
LEMMA TunersFreed3 ==
    ASSUME Sizes
    PROVE  /\ FreeTuners3 \in Seq(TakeSteps("PT3")) /\ Quiet(FreeTuners3)
           /\ Taken(FreeTuners3) = UNION {Parts(t) : t \in 1 .. Tuners}
<1> DEFINE T == TakeSteps("PT3")
           seqs == [t \in 1 .. Tuners |-> FreeTuner3(t)]
<1>1. /\ seqs \in [1 .. Tuners -> Seq(T)]
      /\ \A t \in 1 .. Tuners : /\ Taken(seqs[t]) = Parts(t) /\ Quiet(seqs[t])
                                /\ Used(seqs[t]) = {<<"tc_t", t>>, i2c, mem, mem3, lock}
  BY TunerFreed3
<1>2. FreeTuners3 = FlattenSeq(seqs)
  BY DEF FreeTuners3
<1>3. Tuners \in Nat
  BY DEF Sizes
<1> HIDE DEF seqs, T
<1>4. AllOf(T, Tuners, seqs, FreeTuners3)
  BY <1>1, <1>2, <1>3, Flat, Zenon
<1>5. ASSUME NEW t \in 1 .. Tuners, NEW s \in 1 .. t - 1
      PROVE  Taken(seqs[s]) \cap Used(seqs[t]) = {}
  <2>1. s \in 1 .. Tuners /\ s # t
    BY <1>3
  <2> SUFFICES ASSUME NEW x \in Parts(s), x \in {<<"tc_t", t>>, i2c, mem, mem3, lock}
               PROVE  FALSE
    BY <1>1, <2>1
  <2>2. x[1] \in {"tc_s", "qm", "tc_t", "mx"} /\ x[2] = s
    BY KindsOfParts
  <2>3. <<"tc_t", t>>[2] = t
    OBVIOUS
  <2> QED
    BY <2>1, <2>2, <2>3, KindsOfCommon
<1>6. Quiet(FreeTuners3)
  BY <1>1, <1>2, <1>3, <1>5, QuietFlat
<1>7. \A x : x \in Taken(FreeTuners3) <=> \E t \in 1 .. Tuners : x \in Parts(t)
  BY <1>1, <1>4 DEF AllOf
<1> QED
  BY <1>4, <1>6, <1>7 DEF T, AllOf

(* A channel is taken down, up to its structure and the lock of its buffer. *)
FreeChannel3(c) ==
    << Use({<<"dev", c>>, <<"drv", c>>, <<"channel", c>>}) >>
    \o free_pt3_dma(c) \o << Free(<<"dev", c>>) >>

LEMMA ChannelFreed3 ==
    ASSUME Sizes, NEW c \in 1 .. Streams
    PROVE  /\ FreeChannel3(c) \in Seq(TakeSteps("PT3")) /\ Quiet(FreeChannel3(c))
           /\ Taken(FreeChannel3(c)) = OfBuffer(c) \cup {<<"dev", c>>, <<"drv", c>>}
           /\ Used(FreeChannel3(c)) \subseteq
                {<<"dev", c>>, <<"drv", c>>, <<"channel", c>>, dmat, dmat3}
<1> DEFINE T == TakeSteps("PT3")
           u == {<<"dev", c>>, <<"drv", c>>, <<"channel", c>>}
           a == Use(u)
           B == free_pt3_dma(c)
           d == Free(<<"dev", c>>)
           P1 == <<a>> \o B
<1>1. a \in T /\ a.uses = u /\ TakenBy(a) = {}
  <2>1. u \in SUBSET Universe("PT3")
    BY Members3 DEF Kinds3
  <2> HIDE DEF u
  <2> QED
    BY <2>1, UseIsTaking
<1>2. d \in T /\ d.uses = {} /\ TakenBy(d) = {<<"dev", c>>, <<"drv", c>>}
  BY Members3, FreeDev DEF Kinds3
<1>3. B \in Seq(T) /\ Taken(B) = OfBuffer(c) /\ Used(B) \subseteq {dmat, dmat3}
  BY DmaFreed3
<1>4. FreeChannel3(c) = P1 \o <<d>>
  BY DEF FreeChannel3
<1> HIDE DEF T, u, a, B, d, P1
<1>5. /\ <<a>> \in Seq(T) /\ Quiet(<<a>>) /\ Taken(<<a>>) = {} /\ Used(<<a>>) = u
      /\ <<d>> \in Seq(T) /\ Quiet(<<d>>) /\ Used(<<d>>) = {}
      /\ Taken(<<d>>) = {<<"dev", c>>, <<"drv", c>>}
  BY <1>1, <1>2, Alone
<1>6. BothOf(T, <<a>>, B, P1) /\ P1 \in Seq(T)
  <2>1. BothOf(T, <<a>>, B, P1)
    BY <1>3, <1>5, Both, Zenon DEF P1
  <2> QED
    BY <2>1 DEF BothOf
<1>7. BothOf(T, P1, <<d>>, FreeChannel3(c))
  BY <1>4, <1>5, <1>6, Both, Zenon
<1>8. Quiet(B)
  <2>1. Taken(B) \cap Used(B) = {}
    BY <1>3, KindsOfBuffer, KindsOfCommon
  <2> QED
    BY <1>3, <2>1, QuietApart
<1>9. Quiet(P1)
  BY <1>3, <1>5, <1>8, QuietConcat DEF P1
<1>10. Quiet(FreeChannel3(c))
  <2>1. Taken(P1) \cap Used(<<d>>) = {}
    BY <1>5
  <2> QED
    BY <1>4, <1>5, <1>6, <1>9, <2>1, QuietConcat
<1>11. /\ Taken(FreeChannel3(c)) = OfBuffer(c) \cup {<<"dev", c>>, <<"drv", c>>}
       /\ Used(FreeChannel3(c)) \subseteq u \cup {dmat, dmat3}
  BY <1>3, <1>5, <1>6, <1>7, SMTT(60) DEF BothOf
<1> QED
  BY <1>7, <1>10, <1>11 DEF BothOf, T, u

FreeChannels3 == FlattenSeq([c \in 1 .. Streams |-> FreeChannel3(c)])

(* So are the devices and the DMA of all channels.                           *)
LEMMA ChannelsFreed3 ==
    ASSUME Sizes
    PROVE  /\ FreeChannels3 \in Seq(TakeSteps("PT3")) /\ Quiet(FreeChannels3)
           /\ \A x : x \in Taken(FreeChannels3) <=>
                \E c \in 1 .. Streams : x \in OfBuffer(c) \cup {<<"dev", c>>, <<"drv", c>>}
           /\ \A x \in Used(FreeChannels3) :
                x \in {dmat, dmat3} \/ x[1] \in {"dev", "drv", "channel"}
<1> DEFINE T == TakeSteps("PT3")
           seqs == [c \in 1 .. Streams |-> FreeChannel3(c)]
           Own(c) == OfBuffer(c) \cup {<<"dev", c>>, <<"drv", c>>}
           u(c) == {<<"dev", c>>, <<"drv", c>>, <<"channel", c>>, dmat, dmat3}
<1>1. /\ seqs \in [1 .. Streams -> Seq(T)]
      /\ \A c \in 1 .. Streams : /\ Taken(seqs[c]) = Own(c) /\ Quiet(seqs[c])
                                 /\ Used(seqs[c]) \subseteq u(c)
  BY ChannelFreed3
<1>2. FreeChannels3 = FlattenSeq(seqs)
  BY DEF FreeChannels3
<1>3. Streams \in Nat
  BY StreamsType
<1>4. \A c : \A x \in Own(c) :
        x[1] \in {"data", "ring", "ts_info", "desc_info", "dma", "dev", "drv"} /\ x[2] = c
  BY KindsOfBuffer
<1>5. \A c : \A x \in u(c) :
        x \in {dmat, dmat3} \/ (x[1] \in {"dev", "drv", "channel"} /\ x[2] = c)
  OBVIOUS
<1> HIDE DEF seqs, T, Own, u
<1>6. AllOf(T, Streams, seqs, FreeChannels3)
  BY <1>1, <1>2, <1>3, Flat, Zenon
<1>7. ASSUME NEW c \in 1 .. Streams, NEW d \in 1 .. c - 1
      PROVE  Taken(seqs[d]) \cap Used(seqs[c]) = {}
  <2>1. d \in 1 .. Streams /\ d # c
    BY <1>3
  <2> SUFFICES ASSUME NEW x \in Own(d), x \in u(c)
               PROVE  FALSE
    BY <1>1, <2>1
  <2> QED
    BY <1>4, <1>5, <2>1, KindsOfCommon
<1>8. Quiet(FreeChannels3)
  BY <1>1, <1>2, <1>3, <1>7, QuietFlat
<1>9. \A x : x \in Taken(FreeChannels3) <=> \E c \in 1 .. Streams : x \in Own(c)
  BY <1>1, <1>6 DEF AllOf
<1>10. \A x \in Used(FreeChannels3) :
         x \in {dmat, dmat3} \/ x[1] \in {"dev", "drv", "channel"}
  <2> TAKE x \in Used(FreeChannels3)
  <2>1. PICK c \in 1 .. Streams : x \in Used(seqs[c])
    BY <1>6 DEF AllOf
  <2> QED
    BY <1>1, <1>5, <2>1
<1> QED
  BY <1>6, <1>8, <1>9, <1>10 DEF T, AllOf, Own

(* Freeing one of what belongs to no channel and to no tuner. *)
LEMMA FreeCommon ==
    ASSUME NEW x \in Common
    PROVE  /\ Free(x) \in TakeSteps("PT3") /\ Free(x).uses = {} /\ TakenBy(Free(x)) = {x}
<1>1. x \in Universe("PT3") /\ x # <<>> /\ x[1] # "dev"
  BY Members3, KindsOfCommon DEF Common
<1> QED
  BY <1>1, FreeIsTaking

EndOfExit3 == << Use({i2c, mem}), Free(i2c), Free(lock) >>
EndOfDetach3 == << Free(mem), Free(mem3), Free(dmat), Free(dmat3) >>

LEMMA EndsFreed3 ==
    /\ EndOfExit3 \in Seq(TakeSteps("PT3")) /\ Quiet(EndOfExit3)
    /\ Taken(EndOfExit3) = {i2c, lock} /\ Used(EndOfExit3) = {i2c, mem}
    /\ EndOfDetach3 \in Seq(TakeSteps("PT3")) /\ Quiet(EndOfDetach3)
    /\ Taken(EndOfDetach3) = {mem, mem3, dmat, dmat3} /\ Used(EndOfDetach3) = {}
<1> DEFINE T == TakeSteps("PT3")
           a == Use({i2c, mem})
           b == Free(i2c)
           c == Free(lock)
           d == Free(mem)
           e == Free(mem3)
           f == Free(dmat)
           g == Free(dmat3)
           p == <<a, b, c>>
           q == <<d, e, f, g>>
<1>1. /\ b \in T /\ b.uses = {} /\ TakenBy(b) = {i2c}
      /\ c \in T /\ c.uses = {} /\ TakenBy(c) = {lock}
      /\ d \in T /\ d.uses = {} /\ TakenBy(d) = {mem}
      /\ e \in T /\ e.uses = {} /\ TakenBy(e) = {mem3}
      /\ f \in T /\ f.uses = {} /\ TakenBy(f) = {dmat}
      /\ g \in T /\ g.uses = {} /\ TakenBy(g) = {dmat3}
  BY FreeCommon DEF Common
<1>2. a \in T /\ a.uses = {i2c, mem} /\ TakenBy(a) = {}
  <2>1. {i2c, mem} \in SUBSET Universe("PT3")
    BY Members3
  <2> QED
    BY <2>1, UseIsTaking
<1>3. EndOfExit3 = p /\ EndOfDetach3 = q
  BY DEF EndOfExit3, EndOfDetach3
<1> HIDE DEF T, a, b, c, d, e, f, g
<1>4. p \in Seq(T) /\ Range(p) = {a, b, c} /\ DOMAIN p = 1 .. 3
  <2>1. ListOf(T, 3, {a, b, c}, p)
    BY <1>1, <1>2, List3, Zenon
  <2> QED
    BY <2>1 DEF ListOf
<1>5. q \in Seq(T) /\ Range(q) = {d, e, f, g}
  <2>1. ListOf(T, 4, {d, e, f, g}, q)
    BY <1>1, List4, Zenon
  <2> QED
    BY <2>1 DEF ListOf
<1>6. p[1] = a /\ p[2] = b /\ p[3] = c
  OBVIOUS
<1> HIDE DEF p, q
<1>7. Taken(p) = {i2c, lock} /\ Used(p) = {i2c, mem}
  BY <1>1, <1>2, <1>4 DEF Taken, Used
<1>8. Taken(q) = {mem, mem3, dmat, dmat3} /\ Used(q) = {}
  BY <1>1, <1>5 DEF Taken, Used
<1>9. Quiet(p)
  <2>1. \A i \in DOMAIN p : i = 1 \/ p[i].uses = {}
    BY <1>1, <1>4, <1>6
  <2>2. \A j \in 1 .. 1 - 1 : FALSE
    OBVIOUS
  <2> QED
    BY <2>1, <2>2 DEF Quiet
<1>10. Quiet(q)
  BY <1>5, <1>8, QuietApart
<1> QED
  BY <1>3, <1>4, <1>5, <1>7, <1>8, <1>9, <1>10 DEF T

(* pt3_exit, part by part.                                                   *)
LEMMA ExitParts3 ==
    pt3_exit = (((QuietAll3 \o << Use({mem}) >>) \o FreeTuners3) \o FreeChannels3) \o EndOfExit3
BY DEF pt3_exit, For, QuietAll3, QuietOne3, FreeTuners3, FreeTuner3, FreeChannels3,
       FreeChannel3, EndOfExit3

(* The kinds a PT3 never frees. *)
Kept(x) == x[1] \in {"channel", "dma lock"}

detach3 == pt3_exit \o EndOfDetach3

(* Detach takes all there is but what is never freed, and uses nothing of it *)
(* after it is gone.                                                         *)
LEMMA DetachIsRight3 ==
    ASSUME Sizes
    PROVE  /\ detach3 \in Seq(TakeSteps("PT3")) /\ Quiet(detach3)
           /\ \A x \in Universe("PT3") : x \in Taken(detach3) \/ x = nodes \/ Kept(x)
<1> DEFINE T == TakeSteps("PT3")
           u == << Use({mem}) >>
           P1 == QuietAll3 \o u
           P2 == P1 \o FreeTuners3
           P3 == P2 \o FreeChannels3
           P4 == P3 \o EndOfExit3
<1>1. u \in Seq(T) /\ Quiet(u) /\ Taken(u) = {} /\ Used(u) = {mem}
  <2>1. {mem} \in SUBSET Universe("PT3")
    BY Members3
  <2>2. Use({mem}) \in T /\ Use({mem}).uses = {mem} /\ TakenBy(Use({mem})) = {}
    BY <2>1, UseIsTaking
  <2> QED
    BY <2>2, Alone
<1>2. QuietAll3 \in Seq(T) /\ Taken(QuietAll3) = {} /\ Quiet(QuietAll3)
  BY QuietenedAll3
<1>3. FreeTuners3 \in Seq(T) /\ Quiet(FreeTuners3)
      /\ Taken(FreeTuners3) = UNION {Parts(t) : t \in 1 .. Tuners}
  BY TunersFreed3
<1>4. FreeChannels3 \in Seq(T) /\ Quiet(FreeChannels3)
  BY ChannelsFreed3
<1>5. /\ EndOfExit3 \in Seq(T) /\ Quiet(EndOfExit3)
      /\ Taken(EndOfExit3) = {i2c, lock} /\ Used(EndOfExit3) = {i2c, mem}
      /\ EndOfDetach3 \in Seq(T) /\ Quiet(EndOfDetach3)
      /\ Taken(EndOfDetach3) = {mem, mem3, dmat, dmat3} /\ Used(EndOfDetach3) = {}
  BY EndsFreed3
<1>6. pt3_exit = P4
  BY ExitParts3
<1> HIDE DEF T, u, P1, P2, P3, P4
<1>7. BothOf(T, QuietAll3, u, P1) /\ P1 \in Seq(T)
  <2>1. BothOf(T, QuietAll3, u, P1)
    BY <1>1, <1>2, Both, Zenon DEF P1
  <2> QED
    BY <2>1 DEF BothOf
<1>8. BothOf(T, P1, FreeTuners3, P2) /\ P2 \in Seq(T)
  <2>1. BothOf(T, P1, FreeTuners3, P2)
    BY <1>3, <1>7, Both, Zenon DEF P2
  <2> QED
    BY <2>1 DEF BothOf
<1>9. BothOf(T, P2, FreeChannels3, P3) /\ P3 \in Seq(T)
  <2>1. BothOf(T, P2, FreeChannels3, P3)
    BY <1>4, <1>8, Both, Zenon DEF P3
  <2> QED
    BY <2>1 DEF BothOf
<1>10. BothOf(T, P3, EndOfExit3, P4) /\ P4 \in Seq(T)
  <2>1. BothOf(T, P3, EndOfExit3, P4)
    BY <1>5, <1>9, Both, Zenon DEF P4
  <2> QED
    BY <2>1 DEF BothOf
<1>11. detach3 = P4 \o EndOfDetach3
  BY <1>6 DEF detach3
<1>12. BothOf(T, P4, EndOfDetach3, detach3)
  BY <1>5, <1>10, <1>11, Both, Zenon
<1>13. Taken(P1) = {} /\ Taken(P2) = UNION {Parts(t) : t \in 1 .. Tuners}
       /\ Taken(P3) = Taken(P2) \cup Taken(FreeChannels3)
       /\ Taken(P4) = Taken(P3) \cup {i2c, lock}
       /\ Taken(detach3) = Taken(P4) \cup {mem, mem3, dmat, dmat3}
  BY <1>1, <1>2, <1>3, <1>5, <1>7, <1>8, <1>9, <1>10, <1>12 DEF BothOf
<1>14. \A x \in Taken(P2) : x[1] \in {"tc_s", "qm", "tc_t", "mx"}
  BY <1>13, KindsOfParts
<1>15. \A x \in Taken(FreeChannels3) :
         x[1] \in {"data", "ring", "ts_info", "desc_info", "dma", "dev", "drv"}
  <2> TAKE x \in Taken(FreeChannels3)
  <2>1. PICK c \in 1 .. Streams : x \in OfBuffer(c) \cup {<<"dev", c>>, <<"drv", c>>}
    BY ChannelsFreed3
  <2> QED
    BY <2>1, KindsOfBuffer
<1>16. Quiet(P1)
  BY <1>1, <1>2, QuietConcat DEF P1
<1>17. Quiet(P2)
  <2>1. Taken(P1) \cap Used(FreeTuners3) = {}
    BY <1>13
  <2> QED
    BY <1>3, <1>7, <1>16, <2>1, QuietConcat DEF P2
<1>18. Quiet(P3)
  <2>1. Taken(P2) \cap Used(FreeChannels3) = {}
    <3>1. \A x \in Used(FreeChannels3) :
            x \in {dmat, dmat3} \/ x[1] \in {"dev", "drv", "channel"}
      BY ChannelsFreed3
    <3> QED
      BY <1>14, <3>1, KindsOfCommon
  <2> QED
    BY <1>4, <1>8, <1>17, <2>1, QuietConcat DEF P3
<1>19. Quiet(P4)
  <2>1. Taken(P3) \cap Used(EndOfExit3) = {}
    BY <1>5, <1>13, <1>14, <1>15, KindsOfCommon
  <2> QED
    BY <1>5, <1>9, <1>18, <2>1, QuietConcat DEF P4
<1>20. Quiet(detach3)
  <2>1. Taken(P4) \cap Used(EndOfDetach3) = {}
    BY <1>5
  <2> QED
    BY <1>5, <1>10, <1>11, <1>19, <2>1, QuietConcat
<1>21. ASSUME NEW x \in Universe("PT3")
       PROVE  x \in Taken(detach3) \/ x = nodes \/ Kept(x)
  <2>1. CASE x \in {mem, mem3, i2c, lock, dmat, dmat3, nodes}
    BY <1>13, <2>1
  <2>2. CASE x \in Pairs({"tc_s", "qm", "tc_t", "mx"}, Tuners)
    <3>1. x[1] \in {"tc_s", "qm", "tc_t", "mx"} /\ x[2] \in 1 .. Tuners /\ x = <<x[1], x[2]>>
      BY <2>2, KindsOfPairs, Zenon
    <3>2. x \in Parts(x[2])
      BY <3>1 DEF Parts
    <3> QED
      BY <1>13, <3>1, <3>2
  <2>3. CASE x \in Pairs(Kinds3, Streams)
    <3>1. x[1] \in Kinds3 /\ x[2] \in 1 .. Streams /\ x = <<x[1], x[2]>>
      BY <2>3, KindsOfPairs, Zenon
    <3>2. CASE x[1] \in {"channel", "dma lock"}
      BY <3>2 DEF Kept
    <3>3. CASE x[1] \notin {"channel", "dma lock"}
      <4>1. x \in OfBuffer(x[2]) \cup {<<"dev", x[2]>>, <<"drv", x[2]>>}
        BY <3>1, <3>3 DEF OfBuffer, Kinds3
      <4> QED
        BY <1>13, <3>1, <4>1, ChannelsFreed3
    <3> QED
      BY <3>2, <3>3
  <2>4. CASE x \in Blocks("data", Streams, Pages)
    <3>1. PICK i \in 1 .. Streams, j \in 1 .. Pages : x = <<"data", i, j>>
      BY <2>4 DEF Blocks
    <3>2. x \in OfBuffer(i)
      BY <3>1 DEF OfBuffer
    <3> QED
      BY <1>13, <3>2, ChannelsFreed3
  <2>5. CASE x \in Blocks("ring", Streams, Rings)
    <3>1. PICK i \in 1 .. Streams, j \in 1 .. Rings : x = <<"ring", i, j>>
      BY <2>5 DEF Blocks
    <3>2. x \in OfBuffer(i)
      BY <3>1 DEF OfBuffer
    <3> QED
      BY <1>13, <3>2, ChannelsFreed3
  <2> QED
    BY <2>1, <2>2, <2>3, <2>4, <2>5 DEF Universe, Kinds3
<1> QED
  BY <1>12, <1>20, <1>21 DEF BothOf, T

-----------------------------------------------------------------------------
(* The error paths of pt3_init.                                              *)

ErrTuner3(t) == << Free(<<"tc_s", t>>), Free(<<"qm", t>>),
                   Free(<<"tc_t", t>>), Free(<<"mx", t>>) >>

ErrChannel3(c) == << Use({<<"dev", c>>, <<"drv", c>>, <<"channel", c>>}) >>
                  \o free_pt3_dma(c) \o << Free(<<"channel", c>>) >>

ErrTuners3 == FlattenSeq([t \in 1 .. Tuners |-> ErrTuner3(t)])
ErrChannels3 == FlattenSeq([c \in 1 .. Streams |-> ErrChannel3(c)])

(* The error paths of pt3_init.                                              *)
LEMMA ErrParts3 ==
    /\ out_err_i2c = ErrTuners3 \o << Free(i2c) >>
    /\ out_err_dma = ErrChannels3 \o out_err_i2c
BY DEF out_err_i2c, out_err_dma, For, ErrTuners3, ErrTuner3, ErrChannels3, ErrChannel3

LEMMA ErrPathsType ==
    ASSUME Sizes
    PROVE  out_err_i2c \in Seq(TakeSteps("PT3")) /\ out_err_dma \in Seq(TakeSteps("PT3"))
<1> DEFINE T == TakeSteps("PT3")
<1>1. ASSUME NEW t \in 1 .. Tuners
      PROVE  ErrTuner3(t) \in Seq(T)
  <2> DEFINE a == Free(<<"tc_s", t>>)
             b == Free(<<"qm", t>>)
             c == Free(<<"tc_t", t>>)
             d == Free(<<"mx", t>>)
  <2>1. /\ <<"tc_s", t>> \in Universe("PT3") /\ <<"tc_t", t>> \in Universe("PT3")
        /\ <<"qm", t>> \in Universe("PT3") /\ <<"mx", t>> \in Universe("PT3")
    BY Members3 DEF Parts
  <2>2. a \in T /\ b \in T /\ c \in T /\ d \in T
    BY <2>1, FreeOne
  <2>3. ErrTuner3(t) = <<a, b, c, d>>
    BY DEF ErrTuner3
  <2> HIDE DEF a, b, c, d, T
  <2>4. <<a, b, c, d>> \in Seq(T)
    BY <2>2
  <2> QED
    BY <2>3, <2>4
<1>2. ASSUME NEW c \in 1 .. Streams
      PROVE  ErrChannel3(c) \in Seq(T)
  <2> DEFINE u == {<<"dev", c>>, <<"drv", c>>, <<"channel", c>>}
             a == Use(u)
             b == Free(<<"channel", c>>)
  <2>1. a \in T
    <3>1. u \in SUBSET Universe("PT3")
      BY Members3 DEF Kinds3
    <3> HIDE DEF u
    <3> QED
      BY <3>1, UseIsTaking
  <2>2. b \in T
    BY Members3, FreeOne DEF Kinds3
  <2>3. free_pt3_dma(c) \in Seq(T)
    BY DmaFreed3
  <2>4. ErrChannel3(c) = << a >> \o free_pt3_dma(c) \o << b >>
    BY DEF ErrChannel3
  <2> HIDE DEF a, b, T
  <2>5. <<a>> \in Seq(T) /\ <<b>> \in Seq(T)
    BY <2>1, <2>2
  <2>6. << a >> \o free_pt3_dma(c) \o << b >> \in Seq(T)
    BY <2>3, <2>5, ConcatProperties
  <2> QED
    BY <2>4, <2>6
<1>3. Free(i2c) \in T
  BY FreeCommon DEF Common
<1> HIDE DEF T
<1>4. ErrTuners3 \in Seq(T)
  <2> DEFINE seqs == [t \in 1 .. Tuners |-> ErrTuner3(t)]
  <2>1. seqs \in [1 .. Tuners -> Seq(T)] /\ Tuners \in Nat
    BY <1>1 DEF Sizes
  <2>2. ErrTuners3 = FlattenSeq(seqs)
    BY DEF ErrTuners3
  <2> HIDE DEF seqs
  <2> QED
    BY <2>1, <2>2, FlattenSeqIsASeq
<1>5. ErrChannels3 \in Seq(T)
  <2> DEFINE seqs == [c \in 1 .. Streams |-> ErrChannel3(c)]
  <2>1. seqs \in [1 .. Streams -> Seq(T)] /\ Streams \in Nat
    BY <1>2, StreamsType
  <2>2. ErrChannels3 = FlattenSeq(seqs)
    BY DEF ErrChannels3
  <2> HIDE DEF seqs
  <2> QED
    BY <2>1, <2>2, FlattenSeqIsASeq
<1>6. << Free(i2c) >> \in Seq(T)
  BY <1>3
<1> QED
  BY <1>4, <1>5, <1>6, ErrParts3, ConcatProperties DEF T

-----------------------------------------------------------------------------
(* ptx_detach, and what follows a step that failed.                          *)

(* Detach, and both error paths, take all that is to be taken and use        *)
(* nothing that was taken before.                                            *)
LEMMA DetachIsRight ==
    ASSUME Sizes, card \in {"PT1", "PT3"}
    PROVE  /\ ptx_detach \in Seq(TakeSteps(card)) /\ Quiet(ptx_detach)
           /\ \A x \in Universe(card) :
                x \in Taken(ptx_detach) \/ x = nodes \/ Kept(x)
<1>1. CASE card = "PT3"
  <2>1. ptx_detach = detach3
    BY <1>1 DEF ptx_detach, detach3, EndOfDetach3
  <2> QED
    BY <1>1, <2>1, DetachIsRight3
<1>2. CASE card = "PT1"
  <2>1. ptx_detach = detach12
    BY <1>2 DEF ptx_detach
  <2> QED
    BY <1>2, <2>1, DetachIsRight12
<1> QED
  BY <1>1, <1>2

(* Whatever failed, what follows ends with all that detach does. *)
LEMMA AfterIsRight ==
    ASSUME Sizes, card \in {"PT1", "PT3"},
           NEW err \in {"detach", "i2c", "dma", "create"}, NEW x,
           card = "PT1" => err = "detach",
           err = "create" => x[2] \in 1 .. Streams
    PROVE  /\ After(err, x) \in Seq(TakeSteps(card))
           /\ \A y \in Universe(card) :
                y \in Taken(After(err, x)) \/ y = nodes \/ Kept(y)
           /\ card = "PT1" => After(err, x) = ptx_detach
<1> DEFINE T == TakeSteps(card)
<1>1. /\ ptx_detach \in Seq(T)
      /\ \A y \in Universe(card) : y \in Taken(ptx_detach) \/ y = nodes \/ Kept(y)
  BY DetachIsRight
<1>2. ASSUME NEW A \in Seq(T), After(err, x) = A \o ptx_detach
      PROVE  /\ After(err, x) \in Seq(T)
             /\ \A y \in Universe(card) :
                  y \in Taken(After(err, x)) \/ y = nodes \/ Kept(y)
  <2> HIDE DEF T
  <2>1. BothOf(T, A, ptx_detach, After(err, x))
    BY <1>1, <1>2, Both, Zenon
  <2> QED
    BY <1>1, <2>1 DEF BothOf
<1>3. CASE err = "detach"
  <2>1. After(err, x) = ptx_detach
    BY <1>3 DEF After
  <2> QED
    BY <1>1, <2>1
<1>4. CASE err # "detach"
  <2>1. card = "PT3"
    BY <1>4
  <2>2. out_err_i2c \in Seq(T) /\ out_err_dma \in Seq(T)
    BY <2>1, ErrPathsType
  <2> HIDE DEF T
  <2>3. CASE err = "i2c"
    <3>1. After(err, x) = out_err_i2c \o ptx_detach
      BY <2>3 DEF After
    <3> QED
      BY <1>2, <2>1, <2>2, <3>1 DEF T
  <2>4. CASE err = "dma"
    <3>1. After(err, x) = out_err_dma \o ptx_detach
      BY <2>4 DEF After
    <3> QED
      BY <1>2, <2>1, <2>2, <3>1 DEF T
  <2>5. CASE err = "create"
    <3> DEFINE a == free_pt3_dma(x[2])
               b == Free(<<"channel", x[2]>>)
    <3>1. a \in Seq(T)
      BY <2>1, <2>5, DmaFreed3 DEF T
    <3>2. b \in T
      BY <2>1, <2>5, Members3, FreeOne DEF Kinds3, T
    <3>3. After(err, x) = a \o <<b>> \o out_err_dma \o ptx_detach
      BY <2>5 DEF After
    <3> HIDE DEF a, b
    <3>4. <<b>> \in Seq(T)
      BY <3>2
    <3>5. a \o <<b>> \o out_err_dma \in Seq(T)
      BY <2>2, <3>1, <3>4, ConcatProperties
    <3> QED
      BY <1>2, <2>1, <3>3, <3>5 DEF T
  <2> QED
    BY <1>4, <2>3, <2>4, <2>5
<1> QED
  BY <1>3, <1>4

-----------------------------------------------------------------------------
(* Attach: what its steps need and what they bring.                          *)

(* The step a of attach needs N; it makes E, and of that D cannot fail       *)
(* without notice.                                                           *)
Is(c, a, N, D, E) ==
    a \in LaterSteps(c) /\ Needs(c, a) = N /\ SureBy(a) = D /\ MadeBy(a) = E

(* So for a part p of attach: T is enough.                                   *)
Piece(c, T, p, D, E) ==
    /\ p \in Seq(LaterSteps(c)) /\ Closed(c, T, {}, p)
    /\ D \subseteq Sure(p) /\ E \subseteq Made(p)

Errors(c) == IF c = "PT1" THEN {"detach"} ELSE {"detach", "none", "i2c", "create", "dma"}

(* What may be missing only when the card's memory is there. *)
OrMem(err) == IF err = "detach" THEN {mem} ELSE {}

(* What each kind of step needs and makes.                                   *)
LEMMA MakeIs ==
    ASSUME NEW c \in {"PT1", "PT3"}, NEW x \in Universe(c), x # <<>>, ~ IsPage(x),
           x # nodes, x[1] # "drv",
           NEW err \in Errors(c), err = "create" => x[2] \in 1 .. Streams
    PROVE  Is(c, Make(x, {}, err), OrMem(err), IF err = "none" THEN {} ELSE {x}, {x})
BY DEF Is, Make, Step, LaterSteps, AttachSteps, Things, Needs, SureBy, MadeBy, OrMem, Errors

LEMMA AllocIs ==
    ASSUME NEW c \in {"PT1", "PT3"}, NEW x \in Universe(c), x # <<>>, IsPage(x),
           NEW tag \in Universe(c), c = "PT1" => tag = dmat,
           NEW err \in Errors(c), err # "none", err = "create" => x[2] \in 1 .. Streams
    PROVE  Is(c, Alloc(x, tag, err), {tag} \cup OrMem(err), {x}, {x})
BY DEF Is, Alloc, Step, LaterSteps, AttachSteps, Things, Needs, SureBy, MadeBy, OrMem, Errors

LEMMA TryIs ==
    ASSUME NEW c \in {"PT1", "PT3"}, NEW uses \in SUBSET Universe(c), NEW err \in Errors(c) \ {"create"}
    PROVE  Is(c, Try(uses, err), uses \cup OrMem(err), {}, {})
BY DEF Is, Try, Step, LaterSteps, AttachSteps, Things, Needs, SureBy, MadeBy, OrMem, Errors

LEMMA UseIs ==
    ASSUME NEW c, NEW uses \in SUBSET Universe(c)
    PROVE  Is(c, Use(uses), uses, {}, {})
BY DEF Is, Use, Step, LaterSteps, AttachSteps, Things, Needs, SureBy, MadeBy

LEMMA SetIs ==
    ASSUME NEW c, NEW x \in Universe(c), x # <<>>, ~ IsPage(x), x # nodes, x[1] # "drv"
    PROVE  Is(c, Set(x), {}, {x}, {x})
BY DEF Is, Set, Step, LaterSteps, AttachSteps, Things, Needs, SureBy, MadeBy

LEMMA SetDrvIs ==
    ASSUME NEW c, NEW s, <<"drv", s>> \in Universe(c)
    PROVE  Is(c, Set(<<"drv", s>>), UserNeeds(c, s), {<<"drv", s>>}, {<<"drv", s>>})
<1> DEFINE x == <<"drv", s>>
<1>1. x \in Universe(c) /\ x # <<>> /\ x[1] = "drv" /\ x[2] = s /\ x # nodes
  BY DEF nodes
<1>2. ~ IsPage(x)
  BY DEF IsPage
<1> HIDE DEF x
<1>3. Is(c, Set(x), UserNeeds(c, s), {x}, {x})
  BY <1>1, <1>2
  DEF Is, Set, Step, LaterSteps, AttachSteps, Things, Needs, SureBy, MadeBy
<1> QED
  BY <1>3 DEF x

LEMMA SetNodesIs ==
    ASSUME NEW c, nodes \in Universe(c)
    PROVE  Is(c, Set(nodes), SysctlNeeds, {nodes}, {nodes})
<1>1. nodes # <<>> /\ nodes[1] = "sysctl"
  BY DEF nodes
<1>2. ~ IsPage(nodes)
  BY <1>1 DEF IsPage
<1> QED
  BY <1>1, <1>2
  DEF Is, Set, Step, LaterSteps, AttachSteps, Things, Needs, SureBy, MadeBy

LEMMA DaemonIs ==
    ASSUME NEW c
    PROVE  /\ Is(c, Step("daemon", <<>>, {}, "detach"), DaemonNeeds \cup {mem}, {}, {})
           /\ Is(c, Proc("run"), {}, {}, {})
BY DEF Is, Proc, Step, LaterSteps, AttachSteps, Things, Needs, SureBy, MadeBy

(* Pieces of attach: what a piece needs of those before it, what it makes,   *)
(* what it looks at.                                                         *)
LEMMA PieceOne ==
    ASSUME NEW c, NEW a, NEW N, NEW D, NEW E, NEW T, Is(c, a, N, D, E), N \subseteq T
    PROVE  Piece(c, T, <<a>>, D, E)
<1>1. a \in LaterSteps(c) /\ Needs(c, a) \subseteq T /\ SureBy(a) = D /\ MadeBy(a) = E
  BY DEF Is
<1>2. <<a>> \in Seq(LaterSteps(c)) /\ Made(<<a>>) = MadeBy(a) /\ Sure(<<a>>) = SureBy(a)
  BY <1>1, Alone
<1>3. DOMAIN <<a>> = {1} /\ <<a>>[1] = a
  OBVIOUS
<1>4. Closed(c, T, {}, <<a>>)
  BY <1>1, <1>3 DEF Closed
<1> QED
  BY <1>1, <1>2, <1>4 DEF Piece

(* Two pieces are a piece, if the second needs what the first made.          *)
LEMMA PieceConcat ==
    ASSUME NEW c, NEW T, NEW A, NEW B, NEW D1, NEW E1, NEW D2, NEW E2,
           Piece(c, T, A, D1, E1), Piece(c, T \cup D1, B, D2, E2)
    PROVE  Piece(c, T, A \o B, D1 \cup D2, E1 \cup E2)
<1> DEFINE S == LaterSteps(c)
           T1 == T \cup Sure(A) \cup (({} \cup Made(A)) \cap Tried(A))
           M1 == {} \cup Made(A)
<1>1. /\ A \in Seq(S) /\ Closed(c, T, {}, A) /\ D1 \subseteq Sure(A) /\ E1 \subseteq Made(A)
      /\ B \in Seq(S) /\ Closed(c, T \cup D1, {}, B)
      /\ D2 \subseteq Sure(B) /\ E2 \subseteq Made(B)
  BY DEF Piece
<1>2. T \cup D1 \subseteq T1 /\ {} \subseteq M1
  BY <1>1
<1> HIDE DEF S, T1, M1
<1>3. Closed(c, T1, M1, B)
  BY <1>1, <1>2, ClosedMore
<1>4. Closed(c, T, {}, A \o B)
  BY <1>1, <1>3, ClosedConcat DEF T1, M1
<1>5. BothOf(S, A, B, A \o B)
  BY <1>1, Both
<1> QED
  BY <1>1, <1>4, <1>5 DEF Piece, BothOf, S

LEMMA PieceMore ==
    ASSUME NEW c, NEW T, NEW p, NEW D, NEW E, Piece(c, T, p, D, E),
           NEW T1, NEW D1, NEW E1, T \subseteq T1, D1 \subseteq D, E1 \subseteq E
    PROVE  Piece(c, T1, p, D1, E1)
<1>1. Closed(c, T1, {}, p)
  BY ClosedMore DEF Piece
<1> QED
  BY <1>1 DEF Piece

(* One step more. *)
LEMMA PieceThen ==
    ASSUME NEW c, NEW T, NEW p, NEW D, NEW E, Piece(c, T, p, D, E),
           NEW a \in LaterSteps(c), Needs(c, a) \subseteq T \cup D
    PROVE  Piece(c, T, p \o <<a>>, D \cup SureBy(a), E \cup MadeBy(a))
<1>1. Is(c, a, Needs(c, a), SureBy(a), MadeBy(a))
  BY DEF Is
<1>2. Piece(c, T \cup D, <<a>>, SureBy(a), MadeBy(a))
  BY <1>1, PieceOne
<1> QED
  BY <1>2, PieceConcat

(* So is any number of them, one after the other.                            *)
LEMMA PieceFlat ==
    ASSUME NEW c, NEW T, NEW n \in Nat, NEW seqs \in [1 .. n -> Seq(LaterSteps(c))],
           NEW p, p = FlattenSeq(seqs),
           \A i \in 1 .. n : Closed(c, T, {}, seqs[i]),
           NEW D, \A x \in D : \E i \in 1 .. n : x \in Sure(seqs[i]),
           NEW E, \A x \in E : \E i \in 1 .. n : x \in Made(seqs[i])
    PROVE  Piece(c, T, p, D, E)
<1>1. AllOf(LaterSteps(c), n, seqs, p)
  BY Flat
<1>2. Closed(c, T, {}, p)
  BY ClosedFlat
<1> QED
  BY <1>1, <1>2 DEF Piece, AllOf

LEMMA TwoSteps ==
    ASSUME NEW a, NEW b
    PROVE  <<a, b>> = <<a>> \o <<b>>
<1> DEFINE S == {a, b}
           p == <<a>> \o <<b>>
<1>1. <<a>> \in Seq(S) /\ <<b>> \in Seq(S) /\ Len(<<a>>) = 1 /\ Len(<<b>>) = 1
      /\ <<a>>[1] = a /\ <<b>>[1] = b
  OBVIOUS
<1>2. p \in Seq(S) /\ Len(p) = 2 /\ p[1] = a /\ p[2] = b
  BY <1>1, ConcatProperties
<1> HIDE DEF p, S
<1>3. <<a, b>> = p
  BY <1>2
<1> QED
  BY <1>3 DEF p

LEMMA ThreeSteps ==
    ASSUME NEW a, NEW b, NEW c
    PROVE  <<a, b, c>> = <<a, b>> \o <<c>>
OBVIOUS

LEMMA FourSteps ==
    ASSUME NEW a, NEW b, NEW c, NEW d
    PROVE  <<a, b, c, d>> = <<a, b, c>> \o <<d>>
OBVIOUS

LEMMA FiveSteps ==
    ASSUME NEW a, NEW b, NEW c, NEW d, NEW e
    PROVE  <<a, b, c, d, e>> = <<a, b, c, d>> \o <<e>>
OBVIOUS

(* A few steps, one after the other. *)
LEMMA PieceOfTwo ==
    ASSUME NEW c, NEW T, NEW a1 \in LaterSteps(c), NEW a2 \in LaterSteps(c),
           Needs(c, a1) \subseteq T,
           Needs(c, a2) \subseteq T \cup SureBy(a1)
    PROVE  Piece(c, T, <<a1, a2>>,
                 SureBy(a1) \cup SureBy(a2),
                 MadeBy(a1) \cup MadeBy(a2))
<1>1. Is(c, a1, Needs(c, a1), SureBy(a1), MadeBy(a1))
  BY DEF Is
<1>2. Piece(c, T, <<a1>>, SureBy(a1), MadeBy(a1))
  BY <1>1, PieceOne
<1>3. Piece(c, T, <<a1>> \o <<a2>>, SureBy(a1) \cup SureBy(a2), MadeBy(a1) \cup MadeBy(a2))
  BY <1>2, PieceThen
<1>4. <<a1>> \o <<a2>> = <<a1, a2>>
  BY TwoSteps
<1> QED
  BY <1>3, <1>4

LEMMA PieceOfThree ==
    ASSUME NEW c, NEW T, NEW a1 \in LaterSteps(c), NEW a2 \in LaterSteps(c),
           NEW a3 \in LaterSteps(c),
           Needs(c, a1) \subseteq T,
           Needs(c, a2) \subseteq T \cup SureBy(a1),
           Needs(c, a3) \subseteq T \cup (SureBy(a1) \cup SureBy(a2))
    PROVE  Piece(c, T, <<a1, a2, a3>>,
                 SureBy(a1) \cup SureBy(a2) \cup SureBy(a3),
                 MadeBy(a1) \cup MadeBy(a2) \cup MadeBy(a3))
<1> DEFINE p == <<a1, a2>>
           D == SureBy(a1) \cup SureBy(a2)
           E == MadeBy(a1) \cup MadeBy(a2)
<1>1. Piece(c, T, p, D, E)
  BY PieceOfTwo
<1>2. Needs(c, a3) \subseteq T \cup D
  OBVIOUS
<1>3. p \o <<a3>> = <<a1, a2, a3>>
  BY ThreeSteps
<1> HIDE DEF p, D, E
<1>4. Piece(c, T, p \o <<a3>>, D \cup SureBy(a3), E \cup MadeBy(a3))
  BY <1>1, <1>2, PieceThen
<1> QED
  BY <1>3, <1>4 DEF D, E

LEMMA PieceOfFour ==
    ASSUME NEW c, NEW T, NEW a1 \in LaterSteps(c), NEW a2 \in LaterSteps(c),
           NEW a3 \in LaterSteps(c), NEW a4 \in LaterSteps(c),
           Needs(c, a1) \subseteq T,
           Needs(c, a2) \subseteq T \cup SureBy(a1),
           Needs(c, a3) \subseteq T \cup (SureBy(a1) \cup SureBy(a2)),
           Needs(c, a4) \subseteq T \cup (SureBy(a1) \cup SureBy(a2) \cup SureBy(a3))
    PROVE  Piece(c, T, <<a1, a2, a3, a4>>,
                 SureBy(a1) \cup SureBy(a2) \cup SureBy(a3) \cup SureBy(a4),
                 MadeBy(a1) \cup MadeBy(a2) \cup MadeBy(a3) \cup MadeBy(a4))
<1> DEFINE p == <<a1, a2, a3>>
           D == SureBy(a1) \cup SureBy(a2) \cup SureBy(a3)
           E == MadeBy(a1) \cup MadeBy(a2) \cup MadeBy(a3)
<1>1. Piece(c, T, p, D, E)
  BY PieceOfThree
<1>2. Needs(c, a4) \subseteq T \cup D
  OBVIOUS
<1>3. p \o <<a4>> = <<a1, a2, a3, a4>>
  BY FourSteps
<1> HIDE DEF p, D, E
<1>4. Piece(c, T, p \o <<a4>>, D \cup SureBy(a4), E \cup MadeBy(a4))
  BY <1>1, <1>2, PieceThen
<1> QED
  BY <1>3, <1>4 DEF D, E

LEMMA PieceOfFive ==
    ASSUME NEW c, NEW T, NEW a1 \in LaterSteps(c), NEW a2 \in LaterSteps(c),
           NEW a3 \in LaterSteps(c), NEW a4 \in LaterSteps(c), NEW a5 \in LaterSteps(c),
           Needs(c, a1) \subseteq T,
           Needs(c, a2) \subseteq T \cup SureBy(a1),
           Needs(c, a3) \subseteq T \cup (SureBy(a1) \cup SureBy(a2)),
           Needs(c, a4) \subseteq T \cup (SureBy(a1) \cup SureBy(a2) \cup SureBy(a3)),
           Needs(c, a5) \subseteq T \cup (SureBy(a1) \cup SureBy(a2) \cup SureBy(a3) \cup SureBy(a4))
    PROVE  Piece(c, T, <<a1, a2, a3, a4, a5>>,
                 SureBy(a1) \cup SureBy(a2) \cup SureBy(a3) \cup SureBy(a4) \cup SureBy(a5),
                 MadeBy(a1) \cup MadeBy(a2) \cup MadeBy(a3) \cup MadeBy(a4) \cup MadeBy(a5))
<1> DEFINE p == <<a1, a2, a3, a4>>
           D == SureBy(a1) \cup SureBy(a2) \cup SureBy(a3) \cup SureBy(a4)
           E == MadeBy(a1) \cup MadeBy(a2) \cup MadeBy(a3) \cup MadeBy(a4)
<1>1. Piece(c, T, p, D, E)
  BY PieceOfFour
<1>2. Needs(c, a5) \subseteq T \cup D
  OBVIOUS
<1>3. p \o <<a5>> = <<a1, a2, a3, a4, a5>>
  BY FiveSteps, ZenonT(60)
<1> HIDE DEF p, D, E
<1>4. Piece(c, T, p \o <<a5>>, D \cup SureBy(a5), E \cup MadeBy(a5))
  BY <1>1, <1>2, PieceThen
<1> QED
  BY <1>3, <1>4 DEF D, E

-----------------------------------------------------------------------------
(* Attach of a PT1/PT2.                                                      *)

OfStream(s) == {<<"buf", s>>, <<"stream lock", s>>, <<"dev", s>>, <<"drv", s>>}

(* attach_stream makes the buffer, the lock and the device of a stream.      *)
LEMMA StreamAttached12 ==
    ASSUME NEW s \in 1 .. Streams
    PROVE  Piece("PT1", {mem, lock}, attach_stream(s), OfStream(s), OfStream(s))
<1> DEFINE c == "PT1"
           T == {mem, lock}
           w == <<"buf", s>>
           x == <<"stream lock", s>>
           y == <<"dev", s>>
           z == <<"drv", s>>
           a1 == Make(w, {}, "detach")
           a2 == Set(x)
           a3 == Set(y)
           a4 == Set(z)
           a5 == Use({mem, lock})
<1>1. w \in Universe(c) /\ x \in Universe(c) /\ y \in Universe(c) /\ z \in Universe(c)
  BY Members12
<1>2. /\ w # <<>> /\ ~ IsPage(w) /\ w # nodes /\ w[1] # "drv"
      /\ x # <<>> /\ ~ IsPage(x) /\ x # nodes /\ x[1] # "drv"
      /\ y # <<>> /\ ~ IsPage(y) /\ y # nodes /\ y[1] # "drv"
  BY DEF IsPage, nodes
<1>3. Is(c, a4, UserNeeds(c, s), {z}, {z})
  BY <1>1, SetDrvIs
<1>4. UserNeeds(c, s) = {mem, lock} \cup {w, x}
  BY DEF UserNeeds
<1>5. attach_stream(s) = <<a1, a2, a3, a4, a5>>
  BY DEF attach_stream
<1>6. "detach" \in Errors(c) /\ OrMem("detach") = {mem} /\ c \in {"PT1", "PT3"}
  BY DEF Errors, OrMem
<1>7. T \in SUBSET Universe(c)
  BY Members12
<1>8. OfStream(s) = {w, x, y, z}
  BY DEF OfStream
<1> HIDE DEF w, x, y, z
<1>9. Is(c, a1, {mem}, {w}, {w})
  BY <1>1, <1>2, <1>6, MakeIs
<1>10. Is(c, a2, {}, {x}, {x}) /\ Is(c, a3, {}, {y}, {y})
  BY <1>1, <1>2, SetIs
<1>11. Is(c, a5, T, {}, {})
  BY <1>7, UseIs
<1> HIDE DEF c, a1, a2, a3, a4, a5
<1>12. /\ Needs(c, a1) \subseteq T /\ Needs(c, a2) \subseteq T \cup SureBy(a1)
       /\ Needs(c, a3) \subseteq T \cup (SureBy(a1) \cup SureBy(a2))
       /\ Needs(c, a4) \subseteq T \cup (SureBy(a1) \cup SureBy(a2) \cup SureBy(a3))
       /\ Needs(c, a5) \subseteq T \cup (SureBy(a1) \cup SureBy(a2) \cup SureBy(a3) \cup SureBy(a4))
  BY <1>3, <1>4, <1>9, <1>10, <1>11 DEF Is
<1>13. /\ SureBy(a1) \cup SureBy(a2) \cup SureBy(a3) \cup SureBy(a4) \cup SureBy(a5) = {w, x, y, z}
       /\ MadeBy(a1) \cup MadeBy(a2) \cup MadeBy(a3) \cup MadeBy(a4) \cup MadeBy(a5) = {w, x, y, z}
       /\ a1 \in LaterSteps(c) /\ a2 \in LaterSteps(c) /\ a3 \in LaterSteps(c)
       /\ a4 \in LaterSteps(c) /\ a5 \in LaterSteps(c)
  BY <1>3, <1>9, <1>10, <1>11 DEF Is
<1>14. Piece(c, T, <<a1, a2, a3, a4, a5>>,
             SureBy(a1) \cup SureBy(a2) \cup SureBy(a3) \cup SureBy(a4) \cup SureBy(a5),
             MadeBy(a1) \cup MadeBy(a2) \cup MadeBy(a3) \cup MadeBy(a4) \cup MadeBy(a5))
  BY <1>12, <1>13, PieceOfFive
<1> QED
  BY <1>5, <1>8, <1>13, <1>14 DEF c, T

OfTuner12(t) == OfStream(2 * t - 1) \cup OfStream(2 * t)

LEMMA TunerAttached12 ==
    ASSUME Sizes, NEW t \in 1 .. Tuners
    PROVE  Piece("PT1", {mem, lock}, attach_tuner(t), OfTuner12(t), OfTuner12(t))
<1> DEFINE c == "PT1"
           T == {mem, lock}
           a == Try({mem, lock}, "detach")
           A == attach_stream(2 * t - 1)
           B == attach_stream(2 * t)
<1>1. 2 * t - 1 \in 1 .. Streams /\ 2 * t \in 1 .. Streams
  BY DEF Sizes, Streams
<1>2. Is(c, a, T \cup {mem}, {}, {})
  <2>1. T \in SUBSET Universe(c) /\ "detach" \in Errors(c) \ {"create"} /\ OrMem("detach") = {mem}
    BY Members12 DEF Errors, OrMem
  <2> QED
    BY <2>1, TryIs
<1>3. /\ Piece(c, T, A, OfStream(2 * t - 1), OfStream(2 * t - 1))
      /\ Piece(c, T, B, OfStream(2 * t), OfStream(2 * t))
  BY <1>1, StreamAttached12
<1>4. attach_tuner(t) = (<<a>> \o A) \o B
  BY DEF attach_tuner
<1> HIDE DEF a, A, B, c
<1> DEFINE O1 == OfStream(2 * t - 1)
           O2 == OfStream(2 * t)
<1> HIDE DEF O1, O2
<1>5. Piece(c, T, <<a>>, {}, {})
  BY <1>2, PieceOne
<1>6. Piece(c, T \cup {}, A, O1, O1)
  BY <1>3, PieceMore DEF O1
<1>7. Piece(c, T, <<a>> \o A, {} \cup O1, {} \cup O1)
  BY <1>5, <1>6, PieceConcat
<1>8. Piece(c, T \cup ({} \cup O1), B, O2, O2)
  BY <1>3, PieceMore DEF O2
<1>9. Piece(c, T, (<<a>> \o A) \o B, ({} \cup O1) \cup O2, ({} \cup O1) \cup O2)
  BY <1>7, <1>8, PieceConcat
<1>10. Piece(c, T, (<<a>> \o A) \o B, O1 \cup O2, O1 \cup O2)
  BY <1>9, PieceMore
<1> QED
  BY <1>4, <1>10 DEF c, O1, O2, OfTuner12

AttachTuners12 == FlattenSeq([t \in 1 .. Tuners |-> attach_tuner(t)])

StreamKinds12 == {"buf", "stream lock", "dev", "drv"}

(* attach_tuner does so for all streams.                                     *)
LEMMA TunersAttached12 ==
    ASSUME Sizes
    PROVE  Piece("PT1", {mem, lock}, AttachTuners12,
                 Pairs(StreamKinds12, Streams), Pairs(StreamKinds12, Streams))
<1> DEFINE seqs == [t \in 1 .. Tuners |-> attach_tuner(t)]
           V == Pairs(StreamKinds12, Streams)
<1>1. \A t \in 1 .. Tuners :
        /\ seqs[t] \in Seq(LaterSteps("PT1")) /\ Closed("PT1", {mem, lock}, {}, seqs[t])
        /\ OfTuner12(t) \subseteq Sure(seqs[t]) /\ OfTuner12(t) \subseteq Made(seqs[t])
  BY TunerAttached12 DEF Piece
<1>2. AttachTuners12 = FlattenSeq(seqs) /\ Tuners \in Nat
  BY DEF AttachTuners12, Sizes
<1>3. \A x \in V : \E t \in 1 .. Tuners : x \in OfTuner12(t)
  <2> SUFFICES ASSUME NEW x \in V PROVE \E t \in 1 .. Tuners : x \in OfTuner12(t)
    OBVIOUS
  <2>1. x[1] \in StreamKinds12 /\ x[2] \in 1 .. Streams /\ x = <<x[1], x[2]>>
    BY KindsOfPairs
  <2>2. x \in OfStream(x[2])
    BY <2>1 DEF OfStream, StreamKinds12
  <2>3. PICK t \in 1 .. Tuners : x[2] = 2 * t - 1 \/ x[2] = 2 * t
    <3> DEFINE s == x[2]
    <3>1. s \in 1 .. 2 * Tuners
      BY <2>1 DEF Streams
    <3> HIDE DEF s
    <3>2. (s + 1) \div 2 \in 1 .. Tuners
      BY <1>2, <3>1
    <3>3. s = 2 * ((s + 1) \div 2) - 1 \/ s = 2 * ((s + 1) \div 2)
      BY <3>1
    <3> QED
      BY <3>2, <3>3 DEF s
  <2> QED
    BY <2>2, <2>3 DEF OfTuner12
<1>4. seqs \in [1 .. Tuners -> Seq(LaterSteps("PT1"))]
  BY <1>1
<1> HIDE DEF seqs, V
<1>5. \A x \in V : /\ \E t \in 1 .. Tuners : x \in Sure(seqs[t])
                   /\ \E t \in 1 .. Tuners : x \in Made(seqs[t])
  BY <1>1, <1>3
<1>6. Piece("PT1", {mem, lock}, AttachTuners12, V, V)
  BY <1>1, <1>2, <1>4, <1>5, PieceFlat
<1> QED
  BY <1>6 DEF V


LEMMA PieceNext ==
    ASSUME NEW c, NEW T, NEW A, NEW D1, NEW E1, Piece(c, T, A, D1, E1),
           NEW T2, NEW B, NEW D2, NEW E2, Piece(c, T2, B, D2, E2), T2 \subseteq T \cup D1
    PROVE  Piece(c, T, A \o B, D1 \cup D2, E1 \cup E2)
<1>1. Piece(c, T \cup D1, B, D2, E2)
  BY PieceMore
<1> QED
  BY <1>1, PieceConcat

(* Pages of addresses, pages of data. *)
AllocRing12(r) == << Alloc(<<"ring", r>>, dmat, "detach") >>
AllocRings12 == FlattenSeq([r \in 1 .. Rings |-> AllocRing12(r)])

AllocPage12(r, d) ==
    << Alloc(<<"data", r, d>>, dmat, "detach"), Use({<<"ring", r>>, <<"data", r, d>>}) >>
AllocPages12(r) == FlattenSeq([d \in 1 .. Pages |-> AllocPage12(r, d)])
AllocData12 == FlattenSeq([r \in 1 .. Rings |-> AllocPages12(r)])

RingPages == {<<"ring", r>> : r \in 1 .. Rings}

(* ptx_dma_init, part by part.                                               *)
LEMMA DmaInitParts ==
    ptx_dma_init = (AllocRings12 \o << Use(RingPages) >>) \o AllocData12
BY DEF ptx_dma_init, For, AllocRings12, AllocRing12, AllocData12, AllocPages12, AllocPage12,
       RingPages

LEMMA RingsAllocated12 ==
    ASSUME Sizes
    PROVE  Piece("PT1", {mem, dmat}, AllocRings12, RingPages, RingPages)
<1> DEFINE c == "PT1"
           T == {mem, dmat}
           seqs == [r \in 1 .. Rings |-> AllocRing12(r)]
<1>1. ASSUME NEW r \in 1 .. Rings
      PROVE  Piece(c, T, seqs[r], {<<"ring", r>>}, {<<"ring", r>>})
  <2> DEFINE x == <<"ring", r>>
             a == Alloc(x, dmat, "detach")
  <2>1. /\ x \in Universe(c) /\ dmat \in Universe(c) /\ x # <<>> /\ IsPage(x)
        /\ "detach" \in Errors(c) /\ OrMem("detach") = {mem} /\ c \in {"PT1", "PT3"}
    BY Members12 DEF IsPage, Errors, OrMem
  <2>2. seqs[r] = <<a>>
    BY DEF AllocRing12
  <2> HIDE DEF x, seqs
  <2>3. Is(c, a, {dmat} \cup {mem}, {x}, {x})
    BY <2>1, AllocIs
  <2> HIDE DEF a, c
  <2>4. Piece(c, T, <<a>>, {x}, {x})
    BY <2>3, PieceOne
  <2> QED
    BY <2>2, <2>4 DEF x
<1>2. AllocRings12 = FlattenSeq(seqs) /\ Rings \in Nat
  BY DEF AllocRings12, Sizes
<1>3. seqs = [r \in 1 .. Rings |-> seqs[r]]
  OBVIOUS
<1> HIDE DEF seqs, c
<1>4. \A r \in 1 .. Rings :
        /\ seqs[r] \in Seq(LaterSteps(c)) /\ Closed(c, T, {}, seqs[r])
        /\ <<"ring", r>> \in Sure(seqs[r]) /\ <<"ring", r>> \in Made(seqs[r])
  BY <1>1 DEF Piece
<1>5. seqs \in [1 .. Rings -> Seq(LaterSteps(c))]
  BY <1>3, <1>4
<1>6. \A x \in RingPages : /\ \E r \in 1 .. Rings : x \in Sure(seqs[r])
                           /\ \E r \in 1 .. Rings : x \in Made(seqs[r])
  BY <1>4 DEF RingPages
<1>7. Piece(c, T, AllocRings12, RingPages, RingPages)
  BY <1>2, <1>4, <1>5, <1>6, PieceFlat
<1> QED
  BY <1>7 DEF c

LEMMA PagesAllocated12 ==
    ASSUME Sizes, NEW r \in 1 .. Rings
    PROVE  Piece("PT1", {mem, dmat, <<"ring", r>>}, AllocPages12(r),
                 {<<"data", r, d>> : d \in 1 .. Pages}, {<<"data", r, d>> : d \in 1 .. Pages})
<1> DEFINE c == "PT1"
           y == <<"ring", r>>
           T == {mem, dmat, y}
           V == {<<"data", r, d>> : d \in 1 .. Pages}
           seqs == [d \in 1 .. Pages |-> AllocPage12(r, d)]
<1>1. ASSUME NEW d \in 1 .. Pages
      PROVE  Piece(c, T, seqs[d], {<<"data", r, d>>}, {<<"data", r, d>>})
  <2> DEFINE x == <<"data", r, d>>
             a == Alloc(x, dmat, "detach")
             b == Use({y, x})
  <2>1. /\ x \in Universe(c) /\ dmat \in Universe(c) /\ x # <<>> /\ IsPage(x)
        /\ "detach" \in Errors(c) /\ OrMem("detach") = {mem} /\ c \in {"PT1", "PT3"}
        /\ {y, x} \in SUBSET Universe(c)
    BY Members12 DEF IsPage, Errors, OrMem
  <2>2. seqs[d] = <<a, b>>
    BY DEF AllocPage12
  <2> HIDE DEF x, seqs, y
  <2>3. Is(c, a, {dmat} \cup {mem}, {x}, {x})
    BY <2>1, AllocIs
  <2>4. Is(c, b, {y, x}, {}, {})
    BY <2>1, UseIs
  <2> HIDE DEF a, b, c
  <2>5. /\ a \in LaterSteps(c) /\ b \in LaterSteps(c)
        /\ Needs(c, a) \subseteq T /\ Needs(c, b) \subseteq T \cup SureBy(a)
        /\ SureBy(a) \cup SureBy(b) = {x} /\ MadeBy(a) \cup MadeBy(b) = {x}
    BY <2>3, <2>4 DEF Is
  <2> HIDE DEF T
  <2>6. Piece(c, T, <<a, b>>, SureBy(a) \cup SureBy(b), MadeBy(a) \cup MadeBy(b))
    BY <2>5, PieceOfTwo
  <2> QED
    BY <2>2, <2>5, <2>6 DEF x
<1>2. AllocPages12(r) = FlattenSeq(seqs) /\ Pages \in Nat
  BY DEF AllocPages12, Sizes
<1>3. seqs = [d \in 1 .. Pages |-> seqs[d]]
  OBVIOUS
<1> HIDE DEF seqs, c, T
<1>4. \A d \in 1 .. Pages :
        /\ seqs[d] \in Seq(LaterSteps(c)) /\ Closed(c, T, {}, seqs[d])
        /\ <<"data", r, d>> \in Sure(seqs[d]) /\ <<"data", r, d>> \in Made(seqs[d])
  BY <1>1 DEF Piece
<1>5. seqs \in [1 .. Pages -> Seq(LaterSteps(c))]
  BY <1>3, <1>4
<1>6. \A x \in V : /\ \E d \in 1 .. Pages : x \in Sure(seqs[d])
                   /\ \E d \in 1 .. Pages : x \in Made(seqs[d])
  BY <1>4
<1> HIDE DEF V
<1>7. Piece(c, T, AllocPages12(r), V, V)
  BY <1>2, <1>4, <1>5, <1>6, PieceFlat
<1> QED
  BY <1>7 DEF c, T, V

LEMMA DataAllocated12 ==
    ASSUME Sizes
    PROVE  Piece("PT1", {mem, dmat} \cup RingPages, AllocData12,
                 Blocks("data", Rings, Pages), Blocks("data", Rings, Pages))
<1> DEFINE c == "PT1"
           T == {mem, dmat} \cup RingPages
           V == Blocks("data", Rings, Pages)
           seqs == [r \in 1 .. Rings |-> AllocPages12(r)]
           Own(r) == {<<"data", r, d>> : d \in 1 .. Pages}
<1>1. ASSUME NEW r \in 1 .. Rings
      PROVE  Piece(c, T, seqs[r], Own(r), Own(r))
  <2>1. {mem, dmat, <<"ring", r>>} \subseteq T
    BY DEF RingPages
  <2>2. seqs[r] = AllocPages12(r)
    OBVIOUS
  <2> HIDE DEF seqs, T
  <2>3. Piece(c, {mem, dmat, <<"ring", r>>}, seqs[r], Own(r), Own(r))
    BY <2>2, PagesAllocated12
  <2> HIDE DEF Own
  <2> QED
    BY <2>1, <2>3, PieceMore
<1>2. AllocData12 = FlattenSeq(seqs) /\ Rings \in Nat
  BY DEF AllocData12, Sizes
<1>3. seqs = [r \in 1 .. Rings |-> seqs[r]]
  OBVIOUS
<1>4. \A x \in V : \E r \in 1 .. Rings : x \in Own(r)
  BY DEF Blocks
<1> HIDE DEF seqs, c, T, V, Own
<1>5. \A r \in 1 .. Rings :
        /\ seqs[r] \in Seq(LaterSteps(c)) /\ Closed(c, T, {}, seqs[r])
        /\ Own(r) \subseteq Sure(seqs[r]) /\ Own(r) \subseteq Made(seqs[r])
  BY <1>1 DEF Piece
<1>6. seqs \in [1 .. Rings -> Seq(LaterSteps(c))]
  BY <1>3, <1>5
<1>7. \A x \in V : /\ \E r \in 1 .. Rings : x \in Sure(seqs[r])
                   /\ \E r \in 1 .. Rings : x \in Made(seqs[r])
  BY <1>4, <1>5
<1>8. Piece(c, T, AllocData12, V, V)
  BY <1>2, <1>5, <1>6, <1>7, PieceFlat
<1> QED
  BY <1>8 DEF c, T, V

(* ptx_dma_init makes all rings and pages.                                   *)
LEMMA DmaAttached12 ==
    ASSUME Sizes
    PROVE  Piece("PT1", {mem, dmat}, ptx_dma_init,
                 RingPages \cup Blocks("data", Rings, Pages),
                 RingPages \cup Blocks("data", Rings, Pages))
<1> DEFINE c == "PT1"
           T == {mem, dmat}
           V == Blocks("data", Rings, Pages)
           a == Use(RingPages)
           A == AllocRings12
<1>1. Is(c, a, RingPages, {}, {})
  <2>1. RingPages \in SUBSET Universe(c)
    BY Members12 DEF RingPages
  <2> QED
    BY <2>1, UseIs
<1>2. /\ Piece(c, T, A, RingPages, RingPages)
      /\ Piece(c, T \cup RingPages, AllocData12, V, V)
  BY RingsAllocated12, DataAllocated12
<1> HIDE DEF c, a, V, A, T
<1>3. Piece(c, RingPages, <<a>>, {}, {})
  BY <1>1, PieceOne
<1>4. Piece(c, T, A \o <<a>>, RingPages \cup {}, RingPages \cup {})
  BY <1>2, <1>3, PieceNext
<1>5. Piece(c, T, (A \o <<a>>) \o AllocData12, (RingPages \cup {}) \cup V, (RingPages \cup {}) \cup V)
  BY <1>2, <1>4, PieceNext
<1>6. Piece(c, T, (A \o <<a>>) \o AllocData12, RingPages \cup V, RingPages \cup V)
  BY <1>5, PieceMore
<1> QED
  BY <1>6, DmaInitParts DEF c, a, V, A, T

LEMMA PairsMore ==
    ASSUME NEW K, NEW L, K \subseteq L, NEW n
    PROVE  Pairs(K, n) \subseteq Pairs(L, n)
BY DEF Pairs

(* ptx_attach, part by part.                                                 *)
LEMMA AttachParts12 ==
    attach12 = (((<< Try({mem}, "detach"), Use({mem}), Set(lock) >> \o AttachTuners12)
                 \o << Make(dmat, {}, "detach"), Set(nodes) >>) \o ptx_dma_init)
               \o << Step("daemon", <<>>, {}, "detach"), Proc("run") >>
BY DEF attach12, For, AttachTuners12

(* ptx_attach makes everything, and each step finds what it needs.           *)
LEMMA Attached12 ==
    ASSUME Sizes
    PROVE  Piece("PT1", {mem}, attach12,
                 Universe("PT1") \ {mem}, Universe("PT1") \ {mem})
<1> DEFINE c == "PT1"
           T == {mem}
           S == Pairs(StreamKinds12, Streams)
           B == RingPages \cup Blocks("data", Rings, Pages)
           a1 == Try({mem}, "detach")
           a2 == Use({mem})
           a3 == Set(lock)
           b1 == Make(dmat, {}, "detach")
           b2 == Set(nodes)
           d1 == Step("daemon", <<>>, {}, "detach")
           d2 == Proc("run")
           A == AttachTuners12
           P == ptx_dma_init
<1>1. /\ mem \in Universe(c) /\ lock \in Universe(c) /\ dmat \in Universe(c) /\ nodes \in Universe(c)
      /\ {mem} \in SUBSET Universe(c)
  BY Members12
<1>2. /\ lock # <<>> /\ ~ IsPage(lock) /\ lock # nodes /\ lock[1] # "drv"
      /\ dmat # <<>> /\ ~ IsPage(dmat) /\ dmat # nodes /\ dmat[1] # "drv"
  <2>1. lock[1] = "lock" /\ dmat[1] = "dmat" /\ nodes[1] = "sysctl" /\ lock # <<>> /\ dmat # <<>>
    BY DEF lock, dmat, nodes
  <2> QED
    BY <2>1 DEF IsPage
<1>3. c \in {"PT1", "PT3"} /\ "detach" \in Errors(c) /\ OrMem("detach") = {mem}
  BY DEF Errors, OrMem
<1>4. /\ Is(c, a1, {mem} \cup {mem}, {}, {}) /\ Is(c, a2, {mem}, {}, {})
      /\ Is(c, a3, {}, {lock}, {lock})
  <2>1. Is(c, a1, {mem} \cup {mem}, {}, {})
    BY <1>1, <1>3, TryIs
  <2>2. Is(c, a2, {mem}, {}, {})
    BY <1>1, UseIs
  <2>3. Is(c, a3, {}, {lock}, {lock})
    BY <1>1, <1>2, SetIs
  <2> QED
    BY <2>1, <2>2, <2>3
<1>5. /\ Is(c, b1, {mem}, {dmat}, {dmat})
      /\ Is(c, b2, SysctlNeeds, {nodes}, {nodes})
  <2>1. Is(c, b1, OrMem("detach"), {dmat}, {dmat})
    BY <1>1, <1>2, <1>3, MakeIs
  <2>2. Is(c, b2, SysctlNeeds, {nodes}, {nodes})
    BY <1>1, SetNodesIs
  <2> QED
    BY <1>3, <2>1, <2>2
<1>6. Is(c, d1, DaemonNeeds \cup {mem}, {}, {}) /\ Is(c, d2, {}, {}, {})
  BY DaemonIs
<1>7. Piece(c, {mem, lock}, A, S, S) /\ Piece(c, {mem, dmat}, P, B, B)
  BY TunersAttached12, DmaAttached12
<1>8. attach12 = (((<< a1, a2, a3 >> \o A) \o << b1, b2 >>) \o P) \o << d1, d2 >>
  BY AttachParts12
<1>9. SysctlNeeds \subseteq {mem, lock} \cup S
  <2>1. Pairs({"dev", "drv"}, Streams) \subseteq S
    BY PairsMore DEF StreamKinds12
  <2> QED
    BY <2>1 DEF SysctlNeeds
<1>10. DaemonNeeds \subseteq {mem} \cup B \cup S
  <2>1. Pairs({"buf", "stream lock"}, Streams) \subseteq S
    BY PairsMore DEF StreamKinds12
  <2> QED
    BY <2>1 DEF DaemonNeeds, RingPages
<1>11. Universe(c) \ {mem} \subseteq {lock} \cup S \cup {dmat, nodes} \cup B
  BY DEF Universe, RingPages, StreamKinds12
<1> HIDE DEF c, S, B, a1, a2, a3, b1, b2, d1, d2, A, P
<1>12. Piece(c, {mem}, <<a1, a2, a3>>, {lock}, {lock})
  <2>1. /\ a1 \in LaterSteps(c) /\ a2 \in LaterSteps(c) /\ a3 \in LaterSteps(c)
        /\ Needs(c, a1) \subseteq T /\ Needs(c, a2) \subseteq T \cup SureBy(a1)
        /\ Needs(c, a3) \subseteq T \cup (SureBy(a1) \cup SureBy(a2))
        /\ SureBy(a1) \cup SureBy(a2) \cup SureBy(a3) = {lock}
        /\ MadeBy(a1) \cup MadeBy(a2) \cup MadeBy(a3) = {lock}
    BY <1>4 DEF Is
  <2> HIDE DEF T
  <2>2. Piece(c, T, <<a1, a2, a3>>, SureBy(a1) \cup SureBy(a2) \cup SureBy(a3),
              MadeBy(a1) \cup MadeBy(a2) \cup MadeBy(a3))
    BY <2>1, PieceOfThree
  <2> QED
    BY <2>1, <2>2 DEF T
<1>13. Piece(c, {mem, lock} \cup S, <<b1, b2>>, {dmat, nodes}, {dmat, nodes})
  <2> DEFINE T1 == {mem, lock} \cup S
  <2>1. /\ b1 \in LaterSteps(c) /\ b2 \in LaterSteps(c)
        /\ Needs(c, b1) \subseteq T1 /\ Needs(c, b2) \subseteq T1 \cup SureBy(b1)
        /\ SureBy(b1) \cup SureBy(b2) = {dmat, nodes}
        /\ MadeBy(b1) \cup MadeBy(b2) = {dmat, nodes}
    BY <1>5, <1>9 DEF Is
  <2> HIDE DEF T1
  <2>2. Piece(c, T1, <<b1, b2>>, SureBy(b1) \cup SureBy(b2), MadeBy(b1) \cup MadeBy(b2))
    BY <2>1, PieceOfTwo
  <2> QED
    BY <2>1, <2>2 DEF T1
<1>14. Piece(c, {mem} \cup B \cup S, <<d1, d2>>, {}, {})
  <2> DEFINE T1 == {mem} \cup B \cup S
  <2>1. /\ d1 \in LaterSteps(c) /\ d2 \in LaterSteps(c)
        /\ Needs(c, d1) \subseteq T1 /\ Needs(c, d2) \subseteq T1 \cup SureBy(d1)
        /\ SureBy(d1) \cup SureBy(d2) = {}
        /\ MadeBy(d1) \cup MadeBy(d2) = {}
    BY <1>6, <1>10 DEF Is
  <2> HIDE DEF T1
  <2>2. Piece(c, T1, <<d1, d2>>, SureBy(d1) \cup SureBy(d2), MadeBy(d1) \cup MadeBy(d2))
    BY <2>1, PieceOfTwo
  <2> QED
    BY <2>1, <2>2 DEF T1
<1> DEFINE P1 == << a1, a2, a3 >> \o A
           P2 == P1 \o << b1, b2 >>
           P3 == P2 \o P
           D1 == {lock} \cup S
           D2 == D1 \cup {dmat, nodes}
           D3 == D2 \cup B
<1> HIDE DEF T
<1>15. Piece(c, {mem}, P1, D1, D1)
  BY <1>7, <1>12, PieceNext
<1>16. Piece(c, {mem}, P2, D2, D2)
  <2>1. {mem, lock} \cup S \subseteq {mem} \cup D1
    OBVIOUS
  <2> HIDE DEF P1, D1
  <2> QED
    BY <1>13, <1>15, <2>1, PieceNext
<1>17. Piece(c, {mem}, P3, D3, D3)
  <2>1. {mem, dmat} \subseteq {mem} \cup D2
    OBVIOUS
  <2> HIDE DEF P2, D2
  <2> QED
    BY <1>7, <1>16, <2>1, PieceNext
<1>18. Piece(c, {mem}, P3 \o <<d1, d2>>, D3 \cup {}, D3 \cup {})
  <2>1. {mem} \cup B \cup S \subseteq {mem} \cup D3
    OBVIOUS
  <2> HIDE DEF P3, D3
  <2> QED
    BY <1>14, <1>17, <2>1, PieceNext
<1>19. Universe(c) \ {mem} \subseteq D3 \cup {}
  BY <1>11
<1>20. attach12 = P3 \o <<d1, d2>>
  BY <1>8
<1> HIDE DEF P3, D3
<1>21. Piece(c, {mem}, attach12, Universe(c) \ {mem}, Universe(c) \ {mem})
  BY <1>18, <1>19, <1>20, PieceMore
<1> QED
  BY <1>21 DEF c

-----------------------------------------------------------------------------
(* Attach of a PT3.                                                          *)

(* The ways the steps of pt3_init fail.                                      *)
LEMMA Errors3 ==
    /\ "PT3" \in {"PT1", "PT3"} /\ "detach" \in Errors("PT3") /\ "none" \in Errors("PT3")
    /\ "i2c" \in Errors("PT3") /\ "create" \in Errors("PT3") /\ "dma" \in Errors("PT3")
    /\ OrMem("detach") = {mem} /\ OrMem("none") = {} /\ OrMem("i2c") = {}
    /\ OrMem("create") = {} /\ OrMem("dma") = {}
BY DEF Errors, OrMem

(* One thing that belongs to a tuner or a channel. *)
LEMMA MakeOne3 ==
    ASSUME NEW k, NEW i, <<k, i>> \in Universe("PT3"),
           k \notin {"ring", "data", "drv", "sysctl"},
           NEW err \in Errors("PT3") \ {"detach"}, err = "create" => i \in 1 .. Streams
    PROVE  Is("PT3", Make(<<k, i>>, {}, err), {},
              IF err = "none" THEN {} ELSE {<<k, i>>}, {<<k, i>>})
<1> DEFINE x == <<k, i>>
<1>1. /\ x \in Universe("PT3") /\ x # <<>> /\ ~ IsPage(x) /\ x[2] = i
      /\ x # nodes /\ x[1] # "drv" /\ OrMem(err) = {}
  BY DEF IsPage, OrMem, nodes
<1> HIDE DEF x
<1>2. Is("PT3", Make(x, {}, err), OrMem(err), IF err = "none" THEN {} ELSE {x}, {x})
  BY <1>1, Errors3, MakeIs
<1> QED
  BY <1>1, <1>2 DEF x

LEMMA SetOne3 ==
    ASSUME NEW k, NEW i, <<k, i>> \in Universe("PT3"), k \notin {"ring", "data", "drv", "sysctl"}
    PROVE  Is("PT3", Set(<<k, i>>), {}, {<<k, i>>}, {<<k, i>>})
<1> DEFINE x == <<k, i>>
<1>1. x \in Universe("PT3") /\ x # <<>> /\ ~ IsPage(x) /\ x[1] # "drv" /\ x # nodes
  BY DEF IsPage, nodes
<1> HIDE DEF x
<1>2. Is("PT3", Set(x), {}, {x}, {x})
  BY <1>1, SetIs
<1> QED
  BY <1>2 DEF x

DriveTuner3(t) ==
    << Make(<<"tc_s", t>>, {}, "none"), Make(<<"qm", t>>, {}, "none"),
       Make(<<"tc_t", t>>, {}, "none"), Make(<<"mx", t>>, {}, "none") >>

DriveTuners3 == FlattenSeq([t \in 1 .. Tuners |-> DriveTuner3(t)])

Drivers == UNION {Parts(t) : t \in 1 .. Tuners}

(* The parts of the tuners of a PT3 are made.                                *)
LEMMA TunersDriven3 ==
    ASSUME Sizes
    PROVE  Piece("PT3", {}, DriveTuners3, {}, Drivers)
<1> DEFINE c == "PT3"
           seqs == [t \in 1 .. Tuners |-> DriveTuner3(t)]
<1>1. ASSUME NEW t \in 1 .. Tuners
      PROVE  Piece(c, {}, seqs[t], {}, Parts(t))
  <2> DEFINE w == <<"tc_s", t>>
             x == <<"qm", t>>
             y == <<"tc_t", t>>
             z == <<"mx", t>>
             a1 == Make(w, {}, "none")
             a2 == Make(x, {}, "none")
             a3 == Make(y, {}, "none")
             a4 == Make(z, {}, "none")
  <2>1. w \in Universe(c) /\ x \in Universe(c) /\ y \in Universe(c) /\ z \in Universe(c)
    BY Members3 DEF Parts
  <2>2. "none" \in Errors(c) \ {"detach"}
    BY Errors3
  <2>3. /\ Is(c, a1, {}, {}, {w}) /\ Is(c, a2, {}, {}, {x})
        /\ Is(c, a3, {}, {}, {y}) /\ Is(c, a4, {}, {}, {z})
    BY <2>1, <2>2, MakeOne3
  <2>4. seqs[t] = <<a1, a2, a3, a4>>
    BY DEF DriveTuner3
  <2>5. Parts(t) = {w, x, y, z}
    BY DEF Parts
  <2> HIDE DEF c, seqs, w, x, y, z, a1, a2, a3, a4
  <2>6. /\ a1 \in LaterSteps(c) /\ a2 \in LaterSteps(c) /\ a3 \in LaterSteps(c)
        /\ a4 \in LaterSteps(c)
        /\ Needs(c, a1) \subseteq {} /\ Needs(c, a2) \subseteq {} \cup SureBy(a1)
        /\ Needs(c, a3) \subseteq {} \cup (SureBy(a1) \cup SureBy(a2))
        /\ Needs(c, a4) \subseteq {} \cup (SureBy(a1) \cup SureBy(a2) \cup SureBy(a3))
        /\ SureBy(a1) \cup SureBy(a2) \cup SureBy(a3) \cup SureBy(a4) = {}
        /\ MadeBy(a1) \cup MadeBy(a2) \cup MadeBy(a3) \cup MadeBy(a4) = {w, x, y, z}
    BY <2>3 DEF Is
  <2>7. Piece(c, {}, <<a1, a2, a3, a4>>,
              SureBy(a1) \cup SureBy(a2) \cup SureBy(a3) \cup SureBy(a4),
              MadeBy(a1) \cup MadeBy(a2) \cup MadeBy(a3) \cup MadeBy(a4))
    BY <2>6, PieceOfFour
  <2> QED
    BY <2>4, <2>5, <2>6, <2>7
<1>2. DriveTuners3 = FlattenSeq(seqs) /\ Tuners \in Nat
  BY DEF DriveTuners3, Sizes
<1>3. seqs = [t \in 1 .. Tuners |-> seqs[t]]
  OBVIOUS
<1> HIDE DEF seqs, c
<1>4. \A t \in 1 .. Tuners :
        /\ seqs[t] \in Seq(LaterSteps(c)) /\ Closed(c, {}, {}, seqs[t])
        /\ Parts(t) \subseteq Made(seqs[t])
  BY <1>1 DEF Piece
<1>5. seqs \in [1 .. Tuners -> Seq(LaterSteps(c))]
  BY <1>3, <1>4
<1>6. \A x \in Drivers : \E t \in 1 .. Tuners : x \in Made(seqs[t])
  BY <1>4 DEF Drivers
<1> DEFINE V == {}
<1>7. \A x \in V : \E t \in 1 .. Tuners : x \in Sure(seqs[t])
  OBVIOUS
<1> HIDE DEF V
<1>8. Piece(c, {}, DriveTuners3, V, Drivers)
  BY <1>2, <1>4, <1>5, <1>6, <1>7, PieceFlat
<1> QED
  BY <1>8 DEF c, V

AllocBlock3(kind, c, p, tag) == << Alloc(<<kind, c, p>>, tag, "create") >>

AllocBlocks3(kind, c, n, tag) == FlattenSeq([p \in 1 .. n |-> AllocBlock3(kind, c, p, tag)])

LEMMA BlocksAllocated3 ==
    ASSUME NEW n \in Nat, NEW kind \in {"data", "ring"}, NEW k \in 1 .. Streams,
           NEW tag \in Universe("PT3"),
           \A p \in 1 .. n : <<kind, k, p>> \in Universe("PT3")
    PROVE  Piece("PT3", {tag}, AllocBlocks3(kind, k, n, tag),
                 {<<kind, k, p>> : p \in 1 .. n}, {<<kind, k, p>> : p \in 1 .. n})
<1> DEFINE c == "PT3"
           T == {tag}
           V == {<<kind, k, p>> : p \in 1 .. n}
           seqs == [p \in 1 .. n |-> AllocBlock3(kind, k, p, tag)]
<1>1. ASSUME NEW p \in 1 .. n
      PROVE  Piece(c, T, seqs[p], {<<kind, k, p>>}, {<<kind, k, p>>})
  <2> DEFINE x == <<kind, k, p>>
             a == Alloc(x, tag, "create")
  <2>1. x \in Universe(c) /\ x # <<>> /\ IsPage(x) /\ x[2] \in 1 .. Streams
    BY DEF IsPage
  <2>2. seqs[p] = <<a>>
    BY DEF AllocBlock3
  <2> HIDE DEF x, seqs
  <2>3. Is(c, a, {tag} \cup OrMem("create"), {x}, {x})
    BY <2>1, Errors3, AllocIs
  <2>4. {tag} \cup OrMem("create") \subseteq T
    BY Errors3
  <2> HIDE DEF a, c, T
  <2>5. Piece(c, T, <<a>>, {x}, {x})
    BY <2>3, <2>4, PieceOne
  <2> QED
    BY <2>2, <2>5 DEF x
<1>2. AllocBlocks3(kind, k, n, tag) = FlattenSeq(seqs)
  BY DEF AllocBlocks3
<1>3. seqs = [p \in 1 .. n |-> seqs[p]]
  OBVIOUS
<1> HIDE DEF seqs, c, T
<1>4. \A p \in 1 .. n :
        /\ seqs[p] \in Seq(LaterSteps(c)) /\ Closed(c, T, {}, seqs[p])
        /\ <<kind, k, p>> \in Sure(seqs[p]) /\ <<kind, k, p>> \in Made(seqs[p])
  BY <1>1 DEF Piece
<1>5. seqs \in [1 .. n -> Seq(LaterSteps(c))]
  BY <1>3, <1>4
<1>6. \A x \in V : /\ \E p \in 1 .. n : x \in Sure(seqs[p])
                   /\ \E p \in 1 .. n : x \in Made(seqs[p])
  BY <1>4
<1> HIDE DEF V
<1>7. Piece(c, T, AllocBlocks3(kind, k, n, tag), V, V)
  BY <1>2, <1>4, <1>5, <1>6, PieceFlat
<1> QED
  BY <1>7 DEF c, T, V

RingBlocks(c) == {<<"ring", c, r>> : r \in 1 .. Rings}
DataBlocks(c) == {<<"data", c, p>> : p \in 1 .. Pages}

(* create_pt3_dma, part by part.                                             *)
LEMMA CreateParts3 ==
    ASSUME NEW c
    PROVE  create_pt3_dma(c) =
             (((<< Make(<<"dma", c>>, {}, "create"), Set(<<"dma lock", c>>),
                   Make(<<"ts_info", c>>, {}, "create") >>
                \o AllocBlocks3("data", c, Pages, dmat3))
               \o << Make(<<"desc_info", c>>, {}, "create") >>)
              \o AllocBlocks3("ring", c, Rings, dmat))
             \o << Use(RingBlocks(c)) >>
BY DEF create_pt3_dma, For, AllocBlocks3, AllocBlock3, RingBlocks

(* create_pt3_dma makes the blocks and descriptors of a channel.             *)
LEMMA DmaCreated3 ==
    ASSUME Sizes, NEW k \in 1 .. Streams
    PROVE  Piece("PT3", {dmat, dmat3}, create_pt3_dma(k),
                 OfBuffer(k) \cup {<<"dma lock", k>>}, OfBuffer(k) \cup {<<"dma lock", k>>})
<1> DEFINE c == "PT3"
           T == {dmat, dmat3}
           w == <<"dma", k>>
           x == <<"dma lock", k>>
           y == <<"ts_info", k>>
           z == <<"desc_info", k>>
           a1 == Make(w, {}, "create")
           a2 == Set(x)
           a3 == Make(y, {}, "create")
           b == Make(z, {}, "create")
           d == Use(RingBlocks(k))
           A == AllocBlocks3("data", k, Pages, dmat3)
           B == AllocBlocks3("ring", k, Rings, dmat)
           R == RingBlocks(k)
           V == DataBlocks(k)
<1>1. /\ w \in Universe(c) /\ x \in Universe(c) /\ y \in Universe(c) /\ z \in Universe(c)
      /\ R \in SUBSET Universe(c)
  BY Members3 DEF Kinds3, RingBlocks
<1>2. "create" \in Errors(c) \ {"detach"}
  BY Errors3
<1>3. /\ Is(c, a1, {}, {w}, {w}) /\ Is(c, a2, {}, {x}, {x}) /\ Is(c, a3, {}, {y}, {y})
      /\ Is(c, b, {}, {z}, {z}) /\ Is(c, d, R, {}, {})
  <2>1. Is(c, a1, {}, {w}, {w}) /\ Is(c, a3, {}, {y}, {y}) /\ Is(c, b, {}, {z}, {z})
    BY <1>1, <1>2, MakeOne3
  <2>2. Is(c, a2, {}, {x}, {x})
    BY <1>1, SetOne3
  <2>3. Is(c, d, R, {}, {})
    BY <1>1, UseIs
  <2> QED
    BY <2>1, <2>2, <2>3
<1>4. Piece(c, {dmat3}, A, V, V)
  <2>1. Pages \in Nat /\ dmat3 \in Universe("PT3") /\ "data" \in {"data", "ring"}
    BY Members3 DEF Sizes
  <2>2. \A p \in 1 .. Pages : <<"data", k, p>> \in Universe("PT3")
    BY Members3
  <2> QED
    BY <2>1, <2>2, BlocksAllocated3 DEF DataBlocks
<1>5. Piece(c, {dmat}, B, R, R)
  <2>1. Rings \in Nat /\ dmat \in Universe("PT3") /\ "ring" \in {"data", "ring"}
    BY Members3 DEF Sizes
  <2>2. \A p \in 1 .. Rings : <<"ring", k, p>> \in Universe("PT3")
    BY Members3
  <2> QED
    BY <2>1, <2>2, BlocksAllocated3 DEF RingBlocks
<1>6. create_pt3_dma(k) = (((<<a1, a2, a3>> \o A) \o <<b>>) \o B) \o <<d>>
  BY CreateParts3
<1>7. OfBuffer(k) \cup {x} = {w, x, y} \cup V \cup {z} \cup R
  BY DEF OfBuffer, DataBlocks, RingBlocks
<1> HIDE DEF c, w, x, y, z, a1, a2, a3, b, d, A, B, R, V
<1>8. Piece(c, T, <<a1, a2, a3>>, {w, x, y}, {w, x, y})
  <2>1. /\ a1 \in LaterSteps(c) /\ a2 \in LaterSteps(c) /\ a3 \in LaterSteps(c)
        /\ Needs(c, a1) \subseteq T /\ Needs(c, a2) \subseteq T \cup SureBy(a1)
        /\ Needs(c, a3) \subseteq T \cup (SureBy(a1) \cup SureBy(a2))
        /\ SureBy(a1) \cup SureBy(a2) \cup SureBy(a3) = {w, x, y}
        /\ MadeBy(a1) \cup MadeBy(a2) \cup MadeBy(a3) = {w, x, y}
    BY <1>3 DEF Is
  <2> HIDE DEF T
  <2>2. Piece(c, T, <<a1, a2, a3>>, SureBy(a1) \cup SureBy(a2) \cup SureBy(a3),
              MadeBy(a1) \cup MadeBy(a2) \cup MadeBy(a3))
    BY <2>1, PieceOfThree
  <2> QED
    BY <2>1, <2>2
<1>9. Piece(c, {}, <<b>>, {z}, {z}) /\ Piece(c, R, <<d>>, {}, {})
  BY <1>3, PieceOne
<1> DEFINE P1 == << a1, a2, a3 >> \o A
           P2 == P1 \o << b >>
           P3 == P2 \o B
           D1 == {w, x, y} \cup V
           D2 == D1 \cup {z}
           D3 == D2 \cup R
<1>10. {dmat3} \subseteq T /\ {dmat} \subseteq T
  OBVIOUS
<1> HIDE DEF T
<1>11. Piece(c, T, P1, D1, D1)
  <2>1. {dmat3} \subseteq T \cup {w, x, y}
    BY <1>10
  <2> QED
    BY <1>4, <1>8, <2>1, PieceNext
<1>12. Piece(c, T, P2, D2, D2)
  <2>1. {} \subseteq T \cup D1
    OBVIOUS
  <2> HIDE DEF P1, D1
  <2> QED
    BY <1>9, <1>11, <2>1, PieceNext
<1>13. Piece(c, T, P3, D3, D3)
  <2>1. {dmat} \subseteq T \cup D2
    BY <1>10
  <2> HIDE DEF P2, D2
  <2> QED
    BY <1>5, <1>12, <2>1, PieceNext
<1>14. Piece(c, T, P3 \o <<d>>, D3 \cup {}, D3 \cup {})
  <2>1. R \subseteq T \cup D3
    OBVIOUS
  <2> HIDE DEF P3, D3
  <2> QED
    BY <1>9, <1>13, <2>1, PieceNext
<1>15. D3 \cup {} = OfBuffer(k) \cup {x} /\ create_pt3_dma(k) = P3 \o <<d>>
  BY <1>6, <1>7
<1> QED
  BY <1>14, <1>15 DEF c, T, x

(* A channel, up to the moment users can come. *)
AttachChannel3(c) ==
    << Make(<<"channel", c>>, {}, "dma") >> \o create_pt3_dma(c)
    \o << Set(<<"dev", c>>), Set(<<"drv", c>>) >>

OfChannel(c) ==
    OfBuffer(c) \cup {<<"channel", c>>, <<"dma lock", c>>, <<"dev", c>>, <<"drv", c>>}

LEMMA ChannelAttached3 ==
    ASSUME Sizes, NEW k \in 1 .. Streams
    PROVE  Piece("PT3", {mem, lock, dmat, dmat3} \cup Commands(TunerOf(k)), AttachChannel3(k),
                 OfChannel(k), OfChannel(k))
<1> DEFINE c == "PT3"
           C == Commands(TunerOf(k))
           T == {mem, lock, dmat, dmat3} \cup C
           v == <<"channel", k>>
           x == <<"dma lock", k>>
           y == <<"dev", k>>
           z == <<"drv", k>>
           O == OfBuffer(k)
           a == Make(v, {}, "dma")
           b1 == Set(y)
           b2 == Set(z)
           A == create_pt3_dma(k)
           N == UserNeeds(c, k)
<1>1. v \in Universe(c) /\ y \in Universe(c) /\ z \in Universe(c)
  BY Members3 DEF Kinds3
<1>2. Is(c, a, {}, {v}, {v})
  BY <1>1, Errors3, MakeOne3
<1>3. Is(c, b1, {}, {y}, {y}) /\ Is(c, b2, N, {z}, {z})
  <2>1. Is(c, b1, {}, {y}, {y})
    BY <1>1, SetOne3
  <2>2. Is(c, b2, N, {z}, {z})
    BY <1>1, SetDrvIs
  <2> QED
    BY <2>1, <2>2
<1>4. N \subseteq T \cup ({v} \cup (O \cup {x}))
  BY DEF UserNeeds, OfBuffer
<1>5. Piece(c, {dmat, dmat3}, A, O \cup {x}, O \cup {x})
  BY DmaCreated3
<1>6. AttachChannel3(k) = (<<a>> \o A) \o <<b1, b2>>
  BY DEF AttachChannel3
<1>7. OfChannel(k) = {v} \cup (O \cup {x}) \cup {y, z}
  BY DEF OfChannel
<1> HIDE DEF c, C, v, x, y, z, O, a, b1, b2, A, N
<1> DEFINE D1 == {v} \cup (O \cup {x})
           T1 == T \cup D1
<1>8. Piece(c, T, <<a>>, {v}, {v})
  <2>1. {} \subseteq T
    OBVIOUS
  <2> HIDE DEF T
  <2> QED
    BY <1>2, <2>1, PieceOne
<1>9. Piece(c, T, <<a>> \o A, D1, D1)
  <2>1. {dmat, dmat3} \subseteq T \cup {v}
    OBVIOUS
  <2> HIDE DEF T
  <2> QED
    BY <1>5, <1>8, <2>1, PieceNext
<1>10. Piece(c, T1, <<b1, b2>>, {y, z}, {y, z})
  <2>1. /\ b1 \in LaterSteps(c) /\ b2 \in LaterSteps(c)
        /\ Needs(c, b1) \subseteq T1 /\ Needs(c, b2) \subseteq T1 \cup SureBy(b1)
        /\ SureBy(b1) \cup SureBy(b2) = {y, z}
        /\ MadeBy(b1) \cup MadeBy(b2) = {y, z}
    BY <1>3, <1>4 DEF Is
  <2> HIDE DEF T1
  <2>2. Piece(c, T1, <<b1, b2>>, SureBy(b1) \cup SureBy(b2), MadeBy(b1) \cup MadeBy(b2))
    BY <2>1, PieceOfTwo
  <2> QED
    BY <2>1, <2>2
<1> HIDE DEF D1, T
<1>11. Piece(c, T, (<<a>> \o A) \o <<b1, b2>>, D1 \cup {y, z}, D1 \cup {y, z})
  <2>1. T1 \subseteq T \cup D1
    OBVIOUS
  <2> HIDE DEF T1
  <2> QED
    BY <1>9, <1>10, <2>1, PieceNext
<1> QED
  BY <1>6, <1>7, <1>11 DEF c, C, T, D1

AttachChannels3 == FlattenSeq([c \in 1 .. Streams |-> AttachChannel3(c)])

AllCommands == UNION {Commands(t) : t \in 1 .. Tuners}
AllChannels == UNION {OfChannel(c) : c \in 1 .. Streams}

(* All channels of a PT3 are made.                                           *)
LEMMA ChannelsAttached3 ==
    ASSUME Sizes
    PROVE  Piece("PT3", {mem, lock, dmat, dmat3} \cup AllCommands, AttachChannels3,
                 AllChannels, AllChannels)
<1> DEFINE c == "PT3"
           T == {mem, lock, dmat, dmat3} \cup AllCommands
           seqs == [k \in 1 .. Streams |-> AttachChannel3(k)]
<1>1. ASSUME NEW k \in 1 .. Streams
      PROVE  Piece(c, T, seqs[k], OfChannel(k), OfChannel(k))
  <2> DEFINE T0 == {mem, lock, dmat, dmat3} \cup Commands(TunerOf(k))
  <2>1. T0 \subseteq T
    BY TunerOfChannel DEF AllCommands
  <2>2. Piece(c, T0, seqs[k], OfChannel(k), OfChannel(k))
    BY ChannelAttached3
  <2> HIDE DEF T, T0, c, seqs
  <2> QED
    BY <2>1, <2>2, PieceMore
<1>2. AttachChannels3 = FlattenSeq(seqs) /\ Streams \in Nat
  BY StreamsType DEF AttachChannels3
<1>3. seqs = [k \in 1 .. Streams |-> seqs[k]]
  OBVIOUS
<1> HIDE DEF seqs, c, T
<1>4. \A k \in 1 .. Streams :
        /\ seqs[k] \in Seq(LaterSteps(c)) /\ Closed(c, T, {}, seqs[k])
        /\ OfChannel(k) \subseteq Sure(seqs[k]) /\ OfChannel(k) \subseteq Made(seqs[k])
  BY <1>1 DEF Piece
<1>5. seqs \in [1 .. Streams -> Seq(LaterSteps(c))]
  BY <1>3, <1>4
<1>6. \A x \in AllChannels : /\ \E k \in 1 .. Streams : x \in Sure(seqs[k])
                             /\ \E k \in 1 .. Streams : x \in Made(seqs[k])
  BY <1>4 DEF AllChannels
<1>7. Piece(c, T, AttachChannels3, AllChannels, AllChannels)
  BY <1>2, <1>4, <1>5, <1>6, PieceFlat
<1> QED
  BY <1>7 DEF c, T

FirstOfInit3 ==
    << Make(mem3, {}, "detach"), Try({mem}, "detach"), Make(i2c, {}, "none"),
       Set(lock), Use({mem}) >>

LookAtTuners3 ==
    << Try(AllCommands, "i2c"), Make(dmat, {}, "i2c"), Make(dmat3, {}, "i2c") >>

(* pt3_init, part by part.                                                   *)
LEMMA InitParts3 ==
    pt3_init = (((FirstOfInit3 \o DriveTuners3) \o LookAtTuners3) \o AttachChannels3)
               \o << Set(nodes) >>
BY DEF pt3_init, For, FirstOfInit3, DriveTuners3, DriveTuner3, LookAtTuners3, AllCommands,
       AttachChannels3, AttachChannel3

LEMMA FirstAttached3 ==
    Piece("PT3", {mem}, FirstOfInit3, {mem3, lock}, {mem3, i2c, lock})
<1> DEFINE c == "PT3"
           T == {mem}
           a1 == Make(mem3, {}, "detach")
           a2 == Try({mem}, "detach")
           a3 == Make(i2c, {}, "none")
           a4 == Set(lock)
           a5 == Use({mem})
<1>1. /\ mem3 \in Universe(c) /\ i2c \in Universe(c) /\ lock \in Universe(c)
      /\ {mem} \in SUBSET Universe(c)
  BY Members3
<1>2. /\ mem3 # <<>> /\ ~ IsPage(mem3) /\ mem3 # nodes /\ mem3[1] # "drv"
      /\ i2c # <<>> /\ ~ IsPage(i2c) /\ i2c # nodes /\ i2c[1] # "drv"
      /\ lock # <<>> /\ ~ IsPage(lock) /\ lock # nodes /\ lock[1] # "drv"
  <2>1. nodes[1] = "sysctl"
    BY DEF nodes
  <2> QED
    BY <2>1, KindsOfCommon DEF IsPage, Common
<1>3. /\ Is(c, a1, OrMem("detach"), {mem3}, {mem3})
      /\ Is(c, a3, OrMem("none"), {}, {i2c})
  BY <1>1, <1>2, Errors3, MakeIs
<1>4. Is(c, a2, {mem} \cup OrMem("detach"), {}, {})
  BY <1>1, Errors3, TryIs
<1>5. Is(c, a4, {}, {lock}, {lock}) /\ Is(c, a5, {mem}, {}, {})
  <2>1. Is(c, a4, {}, {lock}, {lock})
    BY <1>1, <1>2, SetIs
  <2>2. Is(c, a5, {mem}, {}, {})
    BY <1>1, UseIs
  <2> QED
    BY <2>1, <2>2
<1>6. FirstOfInit3 = <<a1, a2, a3, a4, a5>>
  BY DEF FirstOfInit3
<1>7. OrMem("detach") = {mem} /\ OrMem("none") = {}
  BY Errors3
<1> HIDE DEF c, a1, a2, a3, a4, a5
<1>8. /\ Needs(c, a1) \subseteq T /\ Needs(c, a2) \subseteq T \cup SureBy(a1)
      /\ Needs(c, a3) \subseteq T \cup (SureBy(a1) \cup SureBy(a2))
      /\ Needs(c, a4) \subseteq T \cup (SureBy(a1) \cup SureBy(a2) \cup SureBy(a3))
      /\ Needs(c, a5) \subseteq T \cup (SureBy(a1) \cup SureBy(a2) \cup SureBy(a3) \cup SureBy(a4))
  BY <1>3, <1>4, <1>5, <1>7 DEF Is
<1>9. /\ SureBy(a1) \cup SureBy(a2) \cup SureBy(a3) \cup SureBy(a4) \cup SureBy(a5) = {mem3, lock}
      /\ MadeBy(a1) \cup MadeBy(a2) \cup MadeBy(a3) \cup MadeBy(a4) \cup MadeBy(a5) = {mem3, i2c, lock}
      /\ a1 \in LaterSteps(c) /\ a2 \in LaterSteps(c) /\ a3 \in LaterSteps(c)
      /\ a4 \in LaterSteps(c) /\ a5 \in LaterSteps(c)
  BY <1>3, <1>4, <1>5 DEF Is
<1> HIDE DEF T
<1>10. Piece(c, T, <<a1, a2, a3, a4, a5>>,
             SureBy(a1) \cup SureBy(a2) \cup SureBy(a3) \cup SureBy(a4) \cup SureBy(a5),
             MadeBy(a1) \cup MadeBy(a2) \cup MadeBy(a3) \cup MadeBy(a4) \cup MadeBy(a5))
  BY <1>8, <1>9, PieceOfFive
<1> QED
  BY <1>6, <1>9, <1>10 DEF c, T

(* What drives the tuners may be missing, until the first command to a tuner *)
(* succeeds.                                                                 *)
LEMMA TunersLookedAt3 ==
    /\ LookAtTuners3 \in Seq(LaterSteps("PT3"))
    /\ Closed("PT3", {mem, mem3, lock}, {i2c} \cup Drivers, LookAtTuners3)
    /\ {dmat, dmat3} \subseteq Sure(LookAtTuners3) /\ {dmat, dmat3} \subseteq Made(LookAtTuners3)
    /\ AllCommands \subseteq Tried(LookAtTuners3)
<1> DEFINE c == "PT3"
           a1 == Try(AllCommands, "i2c")
           a2 == Make(dmat, {}, "i2c")
           a3 == Make(dmat3, {}, "i2c")
           p == <<a1, a2, a3>>
           T == {mem, mem3, lock}
           M == {i2c} \cup Drivers
<1>1. dmat \in Universe(c) /\ dmat3 \in Universe(c) /\ AllCommands \in SUBSET Universe(c)
  BY Members3 DEF AllCommands, Commands
<1>2. /\ dmat # <<>> /\ ~ IsPage(dmat) /\ dmat # nodes /\ dmat[1] # "drv"
      /\ dmat3 # <<>> /\ ~ IsPage(dmat3) /\ dmat3 # nodes /\ dmat3[1] # "drv"
  <2>1. nodes[1] = "sysctl"
    BY DEF nodes
  <2> QED
    BY <2>1, KindsOfCommon DEF IsPage, Common
<1>3. Is(c, a1, AllCommands \cup OrMem("i2c"), {}, {})
  <2>1. "i2c" \in Errors(c) \ {"create"} /\ c \in {"PT1", "PT3"}
    BY Errors3
  <2> HIDE DEF c
  <2> QED
    BY <1>1, <2>1, TryIs
<1>4. /\ Is(c, a2, OrMem("i2c"), {dmat}, {dmat})
      /\ Is(c, a3, OrMem("i2c"), {dmat3}, {dmat3})
  BY <1>1, <1>2, Errors3, MakeIs
<1>5. TriedBy(a1) = AllCommands
  BY DEF TriedBy, Try, Step
<1>6. LookAtTuners3 = p
  BY DEF LookAtTuners3
<1>7. AllCommands \subseteq T \cup M
  BY DEF AllCommands, Commands, Drivers
<1>8. OrMem("i2c") = {}
  BY Errors3
<1> HIDE DEF c, a1, a2, a3, T, M
<1>9. /\ a1 \in LaterSteps(c) /\ a2 \in LaterSteps(c) /\ a3 \in LaterSteps(c)
      /\ Needs(c, a1) = AllCommands /\ Needs(c, a2) = {} /\ Needs(c, a3) = {}
      /\ SureBy(a2) = {dmat} /\ SureBy(a3) = {dmat3}
      /\ MadeBy(a2) = {dmat} /\ MadeBy(a3) = {dmat3}
  BY <1>3, <1>4, <1>8 DEF Is
<1>10. p \in Seq(LaterSteps(c)) /\ Range(p) = {a1, a2, a3} /\ DOMAIN p = 1 .. 3
  <2>1. ListOf(LaterSteps(c), 3, {a1, a2, a3}, p)
    BY <1>9, List3, Zenon
  <2> QED
    BY <2>1 DEF ListOf
<1>11. p[1] = a1 /\ p[2] = a2 /\ p[3] = a3
  OBVIOUS
<1> HIDE DEF p
<1>12. Closed(c, T, M, p)
  <2> SUFFICES ASSUME NEW i \in DOMAIN p, NEW x \in Needs(c, p[i])
               PROVE  x \in T \/ (x \in M /\ \E j \in 1 .. i : x \in TriedBy(p[j]))
    BY DEF Closed
  <2>1. i = 1
    BY <1>9, <1>10, <1>11
  <2>2. 1 \in 1 .. i /\ x \in AllCommands
    BY <1>9, <1>11, <2>1
  <2> QED
    BY <1>5, <1>7, <1>11, <2>2
<1>13. /\ {dmat, dmat3} \subseteq Sure(p) /\ {dmat, dmat3} \subseteq Made(p)
       /\ AllCommands \subseteq Tried(p)
  BY <1>5, <1>9, <1>10 DEF Sure, Made, Tried
<1> QED
  BY <1>6, <1>10, <1>12, <1>13 DEF c, T, M

(* Attach of a PT3 makes everything; each step finds what it needs, or one   *)
(* looks for it first.                                                       *)
LEMMA Attached3 ==
    ASSUME Sizes
    PROVE  Piece("PT3", {mem}, pt3_init, {}, Universe("PT3") \ {mem})
<1> DEFINE c == "PT3"
           S == LaterSteps(c)
           A == FirstOfInit3
           B == DriveTuners3
           C == LookAtTuners3
           D == AttachChannels3
           a == Set(nodes)
           P1 == A \o B
           P2 == P1 \o C
           P3 == P2 \o D
           P4 == P3 \o <<a>>
           T1 == {mem} \cup Sure(P1) \cup (({} \cup Made(P1)) \cap Tried(P1))
           T2 == {mem} \cup Sure(P2) \cup (({} \cup Made(P2)) \cap Tried(P2))
           T3 == {mem} \cup Sure(P3) \cup (({} \cup Made(P3)) \cap Tried(P3))
<1>1. Piece(c, {mem}, P1, {mem3, lock} \cup {}, {mem3, i2c, lock} \cup Drivers)
  <2>1. Piece(c, {mem}, A, {mem3, lock}, {mem3, i2c, lock})
    BY FirstAttached3
  <2>2. Piece(c, {}, B, {}, Drivers)
    BY TunersDriven3
  <2>3. {} \subseteq {mem} \cup {mem3, lock}
    OBVIOUS
  <2> HIDE DEF A, B, c
  <2> QED
    BY <2>1, <2>2, <2>3, PieceNext
<1>2. /\ C \in Seq(S) /\ Closed(c, {mem, mem3, lock}, {i2c} \cup Drivers, C)
      /\ {dmat, dmat3} \subseteq Sure(C) /\ {dmat, dmat3} \subseteq Made(C)
      /\ AllCommands \subseteq Tried(C)
  BY TunersLookedAt3
<1>3. Piece(c, {mem, lock, dmat, dmat3} \cup AllCommands, D, AllChannels, AllChannels)
  BY ChannelsAttached3
<1>4. Piece(c, SysctlNeeds, <<a>>, {nodes}, {nodes})
  <2>1. Is(c, a, SysctlNeeds, {nodes}, {nodes})
    BY Members3, SetNodesIs
  <2> HIDE DEF a, c
  <2> QED
    BY <2>1, PieceOne
<1>5. pt3_init = P4
  BY InitParts3
<1>6. AllCommands \subseteq {mem, mem3, lock} \cup ({i2c} \cup Drivers)
  BY DEF AllCommands, Commands, Drivers
<1>7. SysctlNeeds \subseteq {mem, lock} \cup AllChannels
  <2> SUFFICES ASSUME NEW x \in Pairs({"dev", "drv"}, Streams)
               PROVE  x \in AllChannels
    BY DEF SysctlNeeds
  <2>1. x[1] \in {"dev", "drv"} /\ x[2] \in 1 .. Streams /\ x = <<x[1], x[2]>>
    BY KindsOfPairs, Zenon
  <2>2. x \in OfChannel(x[2])
    BY <2>1 DEF OfChannel
  <2> QED
    BY <2>1, <2>2 DEF AllChannels
<1>8. Universe(c) \ {mem} \subseteq
        {mem3, i2c, lock} \cup Drivers \cup {dmat, dmat3} \cup AllChannels \cup {nodes}
  <2> SUFFICES ASSUME NEW x \in Universe(c), x # mem, x \notin {mem3, i2c, lock, dmat, dmat3, nodes}
               PROVE  x \in Drivers \cup AllChannels
    OBVIOUS
  <2>1. CASE x \in Pairs({"tc_s", "qm", "tc_t", "mx"}, Tuners)
    <3>1. x[1] \in {"tc_s", "qm", "tc_t", "mx"} /\ x[2] \in 1 .. Tuners /\ x = <<x[1], x[2]>>
      BY <2>1, KindsOfPairs, Zenon
    <3>2. x \in Parts(x[2])
      BY <3>1 DEF Parts
    <3> QED
      BY <3>1, <3>2 DEF Drivers
  <2>2. CASE x \in Pairs(Kinds3, Streams)
    <3>1. x[1] \in Kinds3 /\ x[2] \in 1 .. Streams /\ x = <<x[1], x[2]>>
      BY <2>2, KindsOfPairs, Zenon
    <3>2. x \in OfChannel(x[2])
      BY <3>1 DEF OfChannel, OfBuffer, Kinds3
    <3> QED
      BY <3>1, <3>2 DEF AllChannels
  <2>3. CASE x \in Blocks("data", Streams, Pages)
    <3>1. PICK i \in 1 .. Streams, j \in 1 .. Pages : x = <<"data", i, j>>
      BY <2>3 DEF Blocks
    <3>2. x \in OfChannel(i)
      BY <3>1 DEF OfChannel, OfBuffer
    <3> QED
      BY <3>2 DEF AllChannels
  <2>4. CASE x \in Blocks("ring", Streams, Rings)
    <3>1. PICK i \in 1 .. Streams, j \in 1 .. Rings : x = <<"ring", i, j>>
      BY <2>4 DEF Blocks
    <3>2. x \in OfChannel(i)
      BY <3>1 DEF OfChannel, OfBuffer
    <3> QED
      BY <3>2 DEF AllChannels
  <2> QED
    BY <2>1, <2>2, <2>3, <2>4 DEF Universe, Kinds3
<1> HIDE DEF c, S, A, B, C, D, a, P1, P2, P3, P4, T1, T2, T3
<1>9. /\ P1 \in Seq(S) /\ Closed(c, {mem}, {}, P1)
      /\ {mem3, lock} \subseteq Sure(P1) /\ {mem3, i2c, lock} \cup Drivers \subseteq Made(P1)
  BY <1>1 DEF Piece, S
<1>10. /\ D \in Seq(S) /\ Closed(c, {mem, lock, dmat, dmat3} \cup AllCommands, {}, D)
       /\ AllChannels \subseteq Sure(D) /\ AllChannels \subseteq Made(D)
       /\ <<a>> \in Seq(S) /\ Closed(c, SysctlNeeds, {}, <<a>>) /\ nodes \in Made(<<a>>)
  BY <1>3, <1>4 DEF Piece, S
<1>11. BothOf(S, P1, C, P2) /\ P2 \in Seq(S)
  <2>1. BothOf(S, P1, C, P2)
    BY <1>2, <1>9, Both, Zenon DEF P2
  <2> QED
    BY <2>1 DEF BothOf
<1>12. BothOf(S, P2, D, P3) /\ P3 \in Seq(S)
  <2>1. BothOf(S, P2, D, P3)
    BY <1>10, <1>11, Both, Zenon DEF P3
  <2> QED
    BY <2>1 DEF BothOf
<1>13. BothOf(S, P3, <<a>>, P4) /\ P4 \in Seq(S)
  <2>1. BothOf(S, P3, <<a>>, P4)
    BY <1>10, <1>12, Both, Zenon DEF P4
  <2> QED
    BY <2>1 DEF BothOf
<1>14. Closed(c, {mem}, {}, P2)
  <2>1. {mem, mem3, lock} \subseteq T1 /\ {i2c} \cup Drivers \subseteq {} \cup Made(P1)
    BY <1>9 DEF T1
  <2>2. Closed(c, T1, {} \cup Made(P1), C)
    BY <1>2, <2>1, ClosedMore
  <2> QED
    BY <1>2, <1>9, <2>2, ClosedConcat DEF T1, P2
<1>15. /\ {mem3, lock, dmat, dmat3} \subseteq Sure(P2)
       /\ {mem3, i2c, lock, dmat, dmat3} \cup Drivers \subseteq Made(P2)
       /\ AllCommands \subseteq Tried(P2)
  BY <1>2, <1>9, <1>11 DEF BothOf
<1>16. Closed(c, {mem}, {}, P3)
  <2>1. {mem, lock, dmat, dmat3} \cup AllCommands \subseteq T2
    BY <1>6, <1>15 DEF T2
  <2>2. {} \subseteq {} \cup Made(P2)
    OBVIOUS
  <2>3. Closed(c, T2, {} \cup Made(P2), D)
    BY <1>10, <2>1, <2>2, ClosedMore
  <2> QED
    BY <1>10, <1>11, <1>14, <2>3, ClosedConcat DEF T2, P3
<1>17. /\ {lock} \cup AllChannels \subseteq Sure(P3)
       /\ {mem3, i2c, lock, dmat, dmat3} \cup Drivers \cup AllChannels \subseteq Made(P3)
  BY <1>10, <1>12, <1>15 DEF BothOf
<1>18. Closed(c, {mem}, {}, P4)
  <2>1. SysctlNeeds \subseteq T3
    BY <1>7, <1>17 DEF T3
  <2>2. {} \subseteq {} \cup Made(P3)
    OBVIOUS
  <2>3. Closed(c, T3, {} \cup Made(P3), <<a>>)
    BY <1>10, <2>1, <2>2, ClosedMore
  <2> QED
    BY <1>10, <1>12, <1>16, <2>3, ClosedConcat DEF T3, P4
<1>19. Universe(c) \ {mem} \subseteq Made(P4)
  BY <1>8, <1>10, <1>13, <1>17 DEF BothOf
<1> QED
  BY <1>5, <1>13, <1>18, <1>19 DEF Piece, S, c

-----------------------------------------------------------------------------
(* ptx_attach.                                                               *)

(* Every step finds what it needs, and there is nothing that no step makes.  *)
LEMMA AttachIsRight ==
    ASSUME Sizes, card \in {"PT1", "PT3"}
    PROVE  /\ ptx_attach \in Seq(AttachSteps(card))
           /\ Closed(card, {}, {}, ptx_attach)
           /\ Universe(card) \subseteq Made(ptx_attach)
           /\ \A i \in DOMAIN ptx_attach : ptx_attach[i].err = "out" => i = 1
<1> DEFINE a == Make(mem, {}, "out")
           p == IF card = "PT3" THEN pt3_init ELSE attach12
           S == AttachSteps(card)
           T1 == {} \cup Sure(<<a>>) \cup (({} \cup Made(<<a>>)) \cap Tried(<<a>>))
<1>1. ptx_attach = <<a>> \o p
  BY DEF ptx_attach
<1>2. /\ p \in Seq(LaterSteps(card)) /\ Closed(card, {mem}, {}, p)
      /\ Universe(card) \ {mem} \subseteq Made(p)
  <2>1. CASE card = "PT3"
    <3>1. p = pt3_init
      BY <2>1
    <3> QED
      BY <2>1, <3>1, Attached3 DEF Piece
  <2>2. CASE card = "PT1"
    <3>1. p = attach12
      BY <2>2
    <3> QED
      BY <2>2, <3>1, Attached12 DEF Piece
  <2> QED
    BY <2>1, <2>2
<1>3. /\ a \in S /\ Needs(card, a) = {} /\ SureBy(a) = {mem} /\ MadeBy(a) = {mem}
  <2>1. /\ mem \in Universe(card) /\ mem # <<>> /\ ~ IsPage(mem)
        /\ mem # nodes /\ mem[1] # "drv"
    <3>1. nodes[1] = "sysctl"
      BY DEF nodes
    <3> QED
      BY <3>1, Members12, Members3, KindsOfCommon DEF IsPage, Common
  <2> QED
    BY <2>1 DEF Make, Step, AttachSteps, Things, Needs, SureBy, MadeBy
<1> HIDE DEF a, p, T1
<1>4. p \in Seq(S)
  <2>1. LaterSteps(card) \subseteq S
    BY DEF LaterSteps
  <2> HIDE DEF S
  <2> QED
    BY <1>2, <2>1
<1>5. \A step \in LaterSteps(card) : step.err # "out"
  BY DEF LaterSteps
<1>6. \A i \in DOMAIN p : p[i].err # "out"
  <2> TAKE i \in DOMAIN p
  <2>1. p[i] \in LaterSteps(card)
    BY <1>2
  <2> QED
    BY <1>5, <2>1
<1> HIDE DEF S
<1>7. /\ <<a>> \in Seq(S) /\ Sure(<<a>>) = {mem} /\ Made(<<a>>) = {mem}
  BY <1>3, Alone
<1>8. Closed(card, {}, {}, <<a>>)
  <2>1. DOMAIN <<a>> = {1} /\ <<a>>[1] = a
    OBVIOUS
  <2> QED
    BY <1>3, <2>1 DEF Closed
<1>9. Closed(card, {}, {}, <<a>> \o p)
  <2>1. {mem} \subseteq T1 /\ {} \subseteq {} \cup Made(<<a>>)
    BY <1>7 DEF T1
  <2>2. Closed(card, T1, {} \cup Made(<<a>>), p)
    BY <1>2, <2>1, ClosedMore
  <2> QED
    BY <1>4, <1>7, <1>8, <2>2, ClosedConcat DEF T1
<1>10. BothOf(S, <<a>>, p, <<a>> \o p)
  BY <1>4, <1>7, Both, Zenon
<1>11. Universe(card) \subseteq Made(<<a>> \o p)
  BY <1>2, <1>7, <1>10 DEF BothOf
<1>12. \A i \in DOMAIN (<<a>> \o p) : (<<a>> \o p)[i].err = "out" => i = 1
  <2> SUFFICES ASSUME NEW i \in DOMAIN (<<a>> \o p), i # 1
               PROVE  (<<a>> \o p)[i].err # "out"
    OBVIOUS
  <2>1. Len(<<a>>) = 1
    OBVIOUS
  <2>2. i \in Len(<<a>>) + 1 .. Len(<<a>>) + Len(p)
    BY <1>4, <1>7, <2>1, Where
  <2>3. i - Len(<<a>>) \in DOMAIN p /\ (<<a>> \o p)[i] = p[i - Len(<<a>>)]
    BY <1>4, <1>7, <2>2, Where
  <2> QED
    BY <1>6, <2>3
<1> QED
  BY <1>1, <1>9, <1>10, <1>11, <1>12 DEF BothOf, S

-----------------------------------------------------------------------------
(* The steps to come, when one is taken.                                     *)

(* What stays true of the steps to come when the first is done.              *)
LEMMA HeadAndTail ==
    ASSUME NEW S, NEW p \in Seq(S), p # <<>>
    PROVE  /\ Head(p) \in S /\ Head(p) = p[1] /\ 1 \in DOMAIN p
           /\ Tail(p) \in Seq(S)
           /\ \A i \in DOMAIN Tail(p) : i \in Nat \ {0} /\ i + 1 \in DOMAIN p /\ Tail(p)[i] = p[i + 1]
           /\ \A i \in DOMAIN p : i = 1 \/ (i - 1 \in DOMAIN Tail(p) /\ p[i] = Tail(p)[i - 1])
OBVIOUS

LEMMA TailGathers ==
    ASSUME NEW S, NEW p \in Seq(S), p # <<>>
    PROVE  /\ Made(p) = MadeBy(Head(p)) \cup Made(Tail(p))
           /\ Taken(p) = TakenBy(Head(p)) \cup Taken(Tail(p))
<1> DEFINE h == Head(p)
           q == Tail(p)
<1>1. Range(p) = {h} \cup Range(q)
  <2>1. /\ h = p[1] /\ 1 \in DOMAIN p
        /\ \A i \in DOMAIN p : i = 1 \/ (i - 1 \in DOMAIN q /\ p[i] = q[i - 1])
        /\ \A i \in DOMAIN q : i + 1 \in DOMAIN p /\ q[i] = p[i + 1]
    BY HeadAndTail
  <2> HIDE DEF h, q
  <2>2. \A i \in DOMAIN p : p[i] = h \/ \E j \in DOMAIN q : p[i] = q[j]
    BY <2>1
  <2>3. \A i \in DOMAIN q : \E j \in DOMAIN p : q[i] = p[j]
    BY <2>1
  <2> QED
    BY <2>1, <2>2, <2>3 DEF Range
<1> HIDE DEF h, q
<1> QED
  BY <1>1 DEF Made, Taken, h, q

LEMMA NothingToCome == Made(<<>>) = {} /\ Taken(<<>>) = {}
<1>1. Range(<<>>) = {}
  BY DEF Range
<1> QED
  BY <1>1 DEF Made, Taken

(* The next step of attach finds what it needs, if it is not the one that    *)
(* looks for what may be missing.                                            *)
LEMMA HeadFinds ==
    ASSUME NEW c, NEW T, NEW M, NEW S, NEW p \in Seq(S), p # <<>>, Closed(c, T, M, p),
           NEW x \in Needs(c, Head(p))
    PROVE  x \in T \/ (x \in M /\ x \in TriedBy(Head(p)))
<1>1. 1 \in DOMAIN p /\ Head(p) = p[1]
  BY HeadAndTail
<1>2. \A j \in 1 .. 1 - 1 : FALSE
  OBVIOUS
<1>3. \A j \in 1 .. 1 : j = 1
  OBVIOUS
<1>4. \/ x \in T
      \/ \E j \in 1 .. 1 - 1 : x \in SureBy(p[j])
      \/ /\ x \in M \/ \E j \in 1 .. 1 - 1 : x \in MadeBy(p[j])
         /\ \E j \in 1 .. 1 : x \in TriedBy(p[j])
  BY <1>1 DEF Closed
<1> QED
  BY <1>1, <1>2, <1>3, <1>4

(* Those that follow find what they need, with what the first made.          *)
LEMMA ClosedTail ==
    ASSUME NEW c, NEW T, NEW M, NEW S, NEW p \in Seq(S), p # <<>>, Closed(c, T, M, p),
           NEW T1, NEW M1, T \subseteq T1, M \subseteq M1,
           SureBy(Head(p)) \subseteq T1, TriedBy(Head(p)) \subseteq T1,
           MadeBy(Head(p)) \subseteq T1 \cup M1
    PROVE  Closed(c, T1, M1, Tail(p))
<1> DEFINE q == Tail(p)
           h == Head(p)
<1>1. /\ h = p[1]
      /\ \A i \in DOMAIN q : i \in Nat \ {0} /\ i + 1 \in DOMAIN p /\ q[i] = p[i + 1]
      /\ DOMAIN q = 1 .. Len(q) /\ Len(q) \in Nat
  BY HeadAndTail
<1> SUFFICES ASSUME NEW i \in DOMAIN q, NEW x \in Needs(c, q[i]), x \notin T1
             PROVE  \/ \E j \in 1 .. i - 1 : x \in SureBy(q[j])
                    \/ /\ x \in M1 \/ \E j \in 1 .. i - 1 : x \in MadeBy(q[j])
                       /\ \E j \in 1 .. i : x \in TriedBy(q[j])
  BY DEF Closed
<1>2. SureBy(h) \subseteq T1 /\ TriedBy(h) \subseteq T1 /\ MadeBy(h) \subseteq T1 \cup M1
  OBVIOUS
<1> HIDE DEF q, h
<1>3. i \in Nat \ {0} /\ i + 1 \in DOMAIN p /\ x \in Needs(c, p[i + 1])
  BY <1>1
<1>4. \/ x \in T
      \/ \E j \in 1 .. (i + 1) - 1 : x \in SureBy(p[j])
      \/ /\ x \in M \/ \E j \in 1 .. (i + 1) - 1 : x \in MadeBy(p[j])
         /\ \E j \in 1 .. i + 1 : x \in TriedBy(p[j])
  BY <1>3 DEF Closed
<1>5. \A j \in 1 .. i + 1 : j = 1 \/ (j - 1 \in 1 .. i /\ q[j - 1] = p[j])
  <2> TAKE j \in 1 .. i + 1
  <2>1. j # 1 => j - 1 \in DOMAIN q /\ j - 1 \in 1 .. i /\ (j - 1) + 1 = j
    BY <1>1, <1>3
  <2> QED
    BY <1>1, <2>1
<1>6. \A j \in 1 .. (i + 1) - 1 : j = 1 \/ (j - 1 \in 1 .. i - 1 /\ q[j - 1] = p[j])
  <2> TAKE j \in 1 .. (i + 1) - 1
  <2>1. j # 1 => j - 1 \in DOMAIN q /\ j - 1 \in 1 .. i - 1 /\ (j - 1) + 1 = j
    BY <1>1, <1>3
  <2> QED
    BY <1>1, <2>1
<1>7. (\E j \in 1 .. (i + 1) - 1 : x \in SureBy(p[j])) => \E j \in 1 .. i - 1 : x \in SureBy(q[j])
  <2> SUFFICES ASSUME NEW j \in 1 .. (i + 1) - 1, x \in SureBy(p[j])
               PROVE  \E k \in 1 .. i - 1 : x \in SureBy(q[k])
    OBVIOUS
  <2>1. j # 1
    BY <1>1, <1>2
  <2> QED
    BY <1>6, <2>1
<1>8. (\E j \in 1 .. (i + 1) - 1 : x \in MadeBy(p[j]))
      => x \in M1 \/ \E j \in 1 .. i - 1 : x \in MadeBy(q[j])
  <2> SUFFICES ASSUME NEW j \in 1 .. (i + 1) - 1, x \in MadeBy(p[j]), x \notin M1
               PROVE  \E k \in 1 .. i - 1 : x \in MadeBy(q[k])
    OBVIOUS
  <2>1. j # 1
    BY <1>1, <1>2
  <2> QED
    BY <1>6, <2>1
<1>9. (\E j \in 1 .. i + 1 : x \in TriedBy(p[j])) => \E j \in 1 .. i : x \in TriedBy(q[j])
  <2> SUFFICES ASSUME NEW j \in 1 .. i + 1, x \in TriedBy(p[j])
               PROVE  \E k \in 1 .. i : x \in TriedBy(q[k])
    OBVIOUS
  <2>1. j # 1
    BY <1>1, <1>2
  <2> QED
    BY <1>5, <2>1
<1> QED
  BY <1>4, <1>7, <1>8, <1>9

(* They stay quiet.                                                          *)
LEMMA QuietTail ==
    ASSUME NEW S, NEW p \in Seq(S), p # <<>>, Quiet(p)
    PROVE  /\ Quiet(Tail(p))
           /\ \A i \in DOMAIN Tail(p) : Tail(p)[i].uses \cap TakenBy(Head(p)) = {}
<1> DEFINE q == Tail(p)
           h == Head(p)
<1>1. /\ h = p[1]
      /\ \A i \in DOMAIN q : i \in Nat \ {0} /\ i + 1 \in DOMAIN p /\ q[i] = p[i + 1]
      /\ DOMAIN q = 1 .. Len(q) /\ Len(q) \in Nat
  BY HeadAndTail
<1> HIDE DEF q, h
<1>2. Quiet(q)
  <2> SUFFICES ASSUME NEW i \in DOMAIN q, NEW j \in 1 .. i - 1
               PROVE  q[i].uses \cap TakenBy(q[j]) = {}
    BY DEF Quiet
  <2>1. j \in DOMAIN q /\ j + 1 \in 1 .. (i + 1) - 1
    BY <1>1
  <2> QED
    BY <1>1, <2>1 DEF Quiet
<1>3. \A i \in DOMAIN q : q[i].uses \cap TakenBy(h) = {}
  <2> TAKE i \in DOMAIN q
  <2>1. 1 \in 1 .. (i + 1) - 1
    BY <1>1
  <2> QED
    BY <1>1, <2>1 DEF Quiet
<1> QED
  BY <1>2, <1>3 DEF q, h

(* They find what they use, without what the first took.                     *)
LEMMA FoundTail ==
    ASSUME NEW S, NEW p \in Seq(S), p # <<>>, Quiet(p),
           NEW T, NEW A, Found(T, A, p),
           NEW T1, T \ TakenBy(Head(p)) \subseteq T1, NEW A1, A1 \subseteq A
    PROVE  Found(T1, A1, Tail(p))
<1> SUFFICES ASSUME NEW i \in DOMAIN Tail(p)
             PROVE  \/ Tail(p)[i].uses \subseteq T1
                    \/ (Tail(p)[i].do = "unmap" /\ Tail(p)[i].x \notin A1)
  BY DEF Found
<1>1. i + 1 \in DOMAIN p /\ Tail(p)[i] = p[i + 1]
  BY HeadAndTail
<1>2. Tail(p)[i].uses \cap TakenBy(Head(p)) = {}
  BY QuietTail
<1> QED
  BY <1>1, <1>2 DEF Found

-----------------------------------------------------------------------------
(* Every step keeps the invariant.                                           *)

(* What is known of the step to come in attach.                              *)
LEMMA AttachStepFacts ==
    ASSUME NEW c, NEW h \in AttachSteps(c)
    PROVE  /\ h.uses \subseteq Universe(c) /\ h.uses \subseteq Needs(c, h)
           /\ MadeBy(h) \subseteq Universe(c) /\ SureBy(h) \subseteq MadeBy(h)
           /\ h.err # "none" => SureBy(h) = MadeBy(h)
           /\ TriedBy(h) \subseteq h.uses /\ (h.do # "try" => TriedBy(h) = {})
           /\ \A x \in MadeBy(h) : x = h.x /\ (IsPage(x) => h.do = "alloc")
           /\ h.do = "alloc" => IsPage(h.x)
           /\ h.do \in {"make", "set", "alloc"} => MadeBy(h) = {h.x}
           /\ h.do \notin {"make", "set", "alloc"} => MadeBy(h) = {}
           /\ h.err = "none" => c # "PT1" /\ h.do \notin {"alloc", "daemon"}
           /\ h.do \in {"make", "alloc", "try", "daemon"} => h.err # "never"
           /\ h.err \in {"out", "detach", "none", "i2c", "create", "dma", "never"}
           /\ h.err = "create" => h.x[2] \in 1 .. Streams
           /\ c = "PT1" => h.err \in {"out", "detach", "never"}
           /\ c = "PT1" /\ h.do = "alloc" => h.uses = {dmat}
           /\ h.err = "detach" => mem \in Needs(c, h)
           /\ h.do = "daemon" => DaemonNeeds \subseteq Needs(c, h)
           /\ \A s : <<"drv", s>> \in MadeBy(h) => UserNeeds(c, s) \subseteq Needs(c, h)
           /\ nodes \in MadeBy(h) => SysctlNeeds \subseteq Needs(c, h)
<1>1. /\ h.uses \subseteq Universe(c) /\ h.x \in Things(c)
      /\ h.do \in {"make", "set", "alloc", "use", "try", "daemon", "run"}
      /\ h.do \in {"make", "set", "alloc"} => h.x # <<>>
      /\ h.do = "alloc" => IsPage(h.x) /\ (c = "PT1" => h.uses = {dmat})
      /\ h.do \in {"make", "set"} => ~ IsPage(h.x)
      /\ h.do \in {"make", "alloc", "try", "daemon"} => h.err # "never"
      /\ h.do \in {"alloc", "daemon"} => h.err # "none"
      /\ h.err \in {"out", "detach", "none", "i2c", "create", "dma", "never"}
      /\ h.err = "create" => h.x[2] \in 1 .. Streams
      /\ c = "PT1" => h.err \in {"out", "detach", "never"}
  BY DEF AttachSteps
<1>2. MadeBy(h) = IF h.do \in {"make", "set", "alloc"} THEN {h.x} ELSE {}
  BY DEF MadeBy
<1>3. MadeBy(h) \subseteq Universe(c)
  BY <1>1, <1>2 DEF Things
<1>4. /\ SureBy(h) = IF h.err = "none" THEN {} ELSE MadeBy(h)
      /\ TriedBy(h) = IF h.do = "try" THEN h.uses ELSE {}
  BY DEF SureBy, TriedBy
<1>5. /\ h.uses \subseteq Needs(c, h)
      /\ h.err = "detach" => mem \in Needs(c, h)
      /\ h.do = "daemon" => DaemonNeeds \subseteq Needs(c, h)
      /\ h.do \in {"make", "set"} /\ h.x[1] = "drv" => UserNeeds(c, h.x[2]) \subseteq Needs(c, h)
      /\ h.do \in {"make", "set"} /\ h.x = nodes => SysctlNeeds \subseteq Needs(c, h)
  BY DEF Needs
<1>6. \A x \in MadeBy(h) : x = h.x /\ (IsPage(x) => h.do = "alloc")
  BY <1>1, <1>2
<1>7. ASSUME NEW s, <<"drv", s>> \in MadeBy(h)
      PROVE  UserNeeds(c, s) \subseteq Needs(c, h)
  <2> DEFINE x == <<"drv", s>>
  <2>1. x[1] = "drv" /\ x[2] = s
    OBVIOUS
  <2>2. ~ IsPage(x)
    BY DEF IsPage
  <2> HIDE DEF x
  <2>3. h.x = x /\ h.do \in {"make", "set"}
    BY <1>1, <1>2, <1>7, <2>2 DEF x
  <2> QED
    BY <1>5, <2>1, <2>3
<1>8. nodes \in MadeBy(h) => SysctlNeeds \subseteq Needs(c, h)
  <2>1. ~ IsPage(nodes)
    BY DEF IsPage, nodes
  <2> QED
    BY <1>1, <1>2, <1>5, <2>1
<1> QED
  BY <1>1, <1>2, <1>3, <1>4, <1>5, <1>6, <1>7, <1>8

(* A step of attach is taken; or it is passed over after it failed. *)
LEMMA AttachGoesOn ==
    ASSUME LifeInv, phase = "attaching", todo # <<>>, NEW h, h = Head(todo),
           h.uses \subseteq made,
           todo' = Tail(todo), card' = card, phase' = phase, attached' = attached,
           stray' = stray, lost' = lost,
           daemons' = daemons \cup (IF h.do = "daemon" THEN {attached} ELSE {}),
           mapped' = mapped \cup (IF h.do = "alloc" THEN {h.x} ELSE {}),
           \/ made' = made \cup MadeBy(h) /\ failed' = failed
           \/ made' = made /\ failed' = TRUE /\ h.err = "none"
    PROVE  LifeInv'
<1>1. /\ card \in {"PT1", "PT3"} /\ attached \in Nat /\ daemons \subseteq 0 .. attached
      /\ failed \in BOOLEAN /\ made \subseteq Universe(card)
      /\ todo \in Seq(AttachSteps(card))
  BY DEF LifeInv, TypeInv
<1>2. /\ h \in AttachSteps(card) /\ Tail(todo) \in Seq(AttachSteps(card))
  BY <1>1, HeadAndTail
<1>3. /\ SureBy(h) \subseteq made' /\ made \subseteq made' /\ made' \subseteq made \cup MadeBy(h)
      /\ SureBy(h) \subseteq MadeBy(h) /\ MadeBy(h) \subseteq Universe(card)
      /\ TriedBy(h) \subseteq made
      /\ \A x \in MadeBy(h) : x = h.x /\ (IsPage(x) => h.do = "alloc")
  <2>1. h.err = "none" => SureBy(h) = {}
    BY DEF SureBy
  <2> QED
    BY <1>2, <2>1, AttachStepFacts
<1>4. Closed(card, made, Maybe, todo)
  BY DEF LifeInv, AttachInv
<1>5. Maybe \subseteq Maybe' /\ MadeBy(h) \subseteq made' \cup Maybe'
  <2>1. CASE made' = made \cup MadeBy(h) /\ failed' = failed
    BY <2>1 DEF Maybe, Broken
  <2>2. CASE made' = made /\ failed' = TRUE /\ h.err = "none"
    <3>1. card = "PT3"
      BY <1>1, <1>2, <2>2, AttachStepFacts
    <3> QED
      BY <1>3, <2>2, <3>1 DEF Maybe, Broken
  <2> QED
    BY <2>1, <2>2
<1>6. Closed(card, made', Maybe', Tail(todo))
  BY <1>1, <1>3, <1>4, <1>5, ClosedTail
<1>7. h.do # "try" => Needs(card, h) \subseteq made
  <2> SUFFICES ASSUME h.do # "try", NEW x \in Needs(card, h) PROVE x \in made
    OBVIOUS
  <2>1. TriedBy(h) = {}
    BY <1>2, AttachStepFacts
  <2>2. x \in made \/ (x \in Maybe /\ x \in TriedBy(h))
    BY <1>1, <1>4, HeadFinds
  <2> QED
    BY <2>1, <2>2
<1>8. TypeInv'
  <2>1. daemons' \subseteq 0 .. attached' /\ failed' \in BOOLEAN
    <3>1. attached \in 0 .. attached
      BY <1>1
    <3>2. daemons' \subseteq 0 .. attached
      BY <1>1, <3>1
    <3>3. failed' \in BOOLEAN
      BY <1>1, Zenon
    <3> QED
      BY <3>2, <3>3
  <2>2. made' \subseteq Universe(card')
    BY <1>1, <1>3
  <2>3. todo' \in Seq(AttachSteps(card'))
    BY <1>2
  <2> QED
    BY <1>1, <2>1, <2>2, <2>3 DEF TypeInv, Takes
<1>9. PagesInv'
  BY <1>3 DEF LifeInv, PagesInv
<1>10. GoneInv'
  <2>1. \A i \in DOMAIN Tail(todo) : Tail(todo)[i].err # "out"
    <3> TAKE i \in DOMAIN Tail(todo)
    <3>1. i \in Nat \ {0} /\ i + 1 \in DOMAIN todo /\ Tail(todo)[i] = todo[i + 1]
      BY <1>1, HeadAndTail
    <3>2. todo[i + 1].err = "out" => i + 1 = 1
      BY <3>1 DEF LifeInv, GoneInv
    <3> QED
      BY <3>1, <3>2
  <2> QED
    BY <2>1 DEF GoneInv, Takes
<1>11. AttachInv'
  <2>1. ASSUME NEW s \in 1 .. Streams, <<"drv", s>> \in made'
        PROVE  UserNeeds(card, s) \subseteq made'
    <3>1. CASE <<"drv", s>> \in made
      BY <1>3, <3>1 DEF LifeInv, AttachInv, Watched
    <3>2. CASE <<"drv", s>> \in MadeBy(h)
      <4>1. h.do # "try" /\ UserNeeds(card, s) \subseteq Needs(card, h)
        BY <1>2, <3>2, AttachStepFacts
      <4> QED
        BY <1>3, <1>7, <4>1
    <3> QED
      BY <1>3, <2>1, <3>1, <3>2
  <2>2. nodes \in made' => SysctlNeeds \subseteq made'
    <3>1. CASE nodes \in made
      BY <1>3, <3>1 DEF LifeInv, AttachInv, Watched
    <3>2. CASE nodes \in MadeBy(h)
      <4>1. h.do # "try" /\ SysctlNeeds \subseteq Needs(card, h)
        BY <1>2, <3>2, AttachStepFacts
      <4> QED
        BY <1>3, <1>7, <4>1
    <3> QED
      BY <1>3, <3>1, <3>2
  <2>3. attached \in daemons' => DaemonNeeds \subseteq made'
    <3>1. CASE attached \in daemons
      BY <1>3, <3>1 DEF LifeInv, AttachInv, Watched
    <3>2. CASE h.do = "daemon"
      <4>1. DaemonNeeds \subseteq Needs(card, h)
        BY <1>2, <3>2, AttachStepFacts
      <4> QED
        BY <1>3, <1>7, <3>2, <4>1
    <3> QED
      BY <3>1, <3>2
  <2>4. card = "PT1" => ~ failed' /\ (mapped' # {} => dmat \in made')
    <3> SUFFICES ASSUME card = "PT1"
                 PROVE  ~ failed' /\ (mapped' # {} => dmat \in made')
      OBVIOUS
    <3>1. ~ failed /\ (mapped # {} => dmat \in made)
      BY DEF LifeInv, AttachInv, Watched
    <3>2. h.err # "none" /\ (h.do = "alloc" => h.uses = {dmat})
      BY <1>2, AttachStepFacts
    <3> QED
      BY <1>3, <3>1, <3>2
  <2>5. ~ failed' => Universe(card) \subseteq made' \cup Made(Tail(todo))
    <3> SUFFICES ASSUME ~ failed'
                 PROVE  Universe(card) \subseteq made' \cup Made(Tail(todo))
      OBVIOUS
    <3>1. ~ failed /\ made' = made \cup MadeBy(h)
      BY <1>1
    <3>2. Universe(card) \subseteq made \cup Made(todo)
      BY <3>1 DEF LifeInv, AttachInv, Watched
    <3>3. Made(todo) = MadeBy(h) \cup Made(Tail(todo))
      BY <1>1, TailGathers
    <3> QED
      BY <3>1, <3>2, <3>3
  <2> QED
    BY <1>6, <2>1, <2>2, <2>3, <2>4, <2>5 DEF AttachInv, Watched
<1>12. DetachInv'
  BY DEF DetachInv, Takes
<1>13. StrayInv'
  <2>1. stray = {}
    BY DEF LifeInv, StrayInv
  <2> QED
    BY <2>1 DEF StrayInv
<1> QED
  BY <1>8, <1>9, <1>10, <1>11, <1>12, <1>13 DEF LifeInv

(* What is known of the step to come in detach.                              *)
LEMMA TakeStepFacts ==
    ASSUME NEW c, NEW h \in TakeSteps(c)
    PROVE  /\ h.uses \subseteq Universe(c)
           /\ h.do \in {"use", "free", "unmap", "stop"}
           /\ h.do = "free" => TakenBy(h) = IF h.x[1] = "dev" THEN {h.x, <<"drv", h.x[2]>>} ELSE {h.x}
           /\ h.do = "unmap" => TakenBy(h) = {h.x} /\ IsPage(h.x)
           /\ h.do \in {"use", "stop"} => TakenBy(h) = {}
           /\ c = "PT1" => h.uses \subseteq {mem} \/ (h.do = "unmap" /\ h.uses = {dmat})
<1>1. /\ h.uses \subseteq Universe(c)
      /\ h.do \in {"use", "free", "unmap", "stop"}
      /\ h.do = "unmap" => IsPage(h.x)
      /\ c = "PT1" => h.uses \subseteq {mem} \/ (h.do = "unmap" /\ h.uses = {dmat})
  BY DEF TakeSteps
<1>2. TakenBy(h) =
        IF h.do = "free"
        THEN IF h.x[1] = "dev" THEN {h.x, <<"drv", h.x[2]>>} ELSE {h.x}
        ELSE IF h.do = "unmap" THEN {h.x} ELSE {}
  BY DEF TakenBy
<1> QED
  BY <1>1, <1>2

(* With the card's memory and the tag of the addressed pages there, detach   *)
(* of a PT1/PT2 finds what it uses.                                          *)
LEMMA DetachFinds12 ==
    ASSUME Sizes, card = "PT1", mem \in made', mapped' # {} => dmat \in made'
    PROVE  Found(made', mapped', ptx_detach)
<1>1. ptx_detach \in Seq(TakeSteps("PT1"))
  BY DetachIsRight
<1> SUFFICES ASSUME NEW i \in DOMAIN ptx_detach
             PROVE  \/ ptx_detach[i].uses \subseteq made'
                    \/ (ptx_detach[i].do = "unmap" /\ ptx_detach[i].x \notin mapped')
  BY DEF Found
<1>2. ptx_detach[i] \in TakeSteps("PT1")
  BY <1>1
<1> DEFINE h == ptx_detach[i]
<1>3. h.uses \subseteq {mem} \/ (h.do = "unmap" /\ h.uses = {dmat})
  BY <1>2, TakeStepFacts
<1> HIDE DEF h
<1> QED
  BY <1>3 DEF h

(* A step of attach fails, and what was made is taken down. *)
LEMMA AttachFails ==
    ASSUME Sizes, LifeInv, phase = "attaching", todo # <<>>, NEW h, h = Head(todo),
           h.uses \subseteq made, h.do \in {"make", "alloc", "try", "daemon"}, h.err # "none",
           todo' = After(h.err, h.x), card' = card, phase' = "failing", attached' = attached,
           stray' = stray, daemons' = daemons, mapped' = mapped, failed' = TRUE,
           \/ made' = made /\ lost' = lost
           \/ h.do = "alloc" /\ made' = made \cup {h.x} /\ lost' = {h.x}
    PROVE  LifeInv'
<1> DEFINE A == After(h.err, h.x)
<1>1. /\ card \in {"PT1", "PT3"} /\ attached \in Nat /\ daemons \subseteq 0 .. attached
      /\ failed \in BOOLEAN /\ made \subseteq Universe(card)
      /\ todo \in Seq(AttachSteps(card))
  BY DEF LifeInv, TypeInv
<1>2. /\ h \in AttachSteps(card) /\ h = todo[1] /\ 1 \in DOMAIN todo
  BY <1>1, HeadAndTail
<1>3. /\ h.err \in {"out", "detach", "i2c", "dma", "create"}
      /\ card = "PT1" => h.err \in {"out", "detach"}
      /\ h.err = "create" => h.x[2] \in 1 .. Streams
      /\ h.do = "alloc" => h.x \in Universe(card)
      /\ h.err = "detach" => mem \in Needs(card, h)
  BY <1>2, AttachStepFacts
<1>4. /\ made \subseteq made' /\ made' \subseteq Universe(card)
      /\ \A x \in made' : x \in made \/ x \in lost'
  BY <1>1, <1>3
<1>5. A \in Seq(TakeSteps(card))
  <2>1. CASE h.err = "out"
    <3>1. A = <<>>
      BY <2>1 DEF After
    <3> DEFINE S == TakeSteps(card)
    <3> HIDE DEF A, S
    <3>2. <<>> \in Seq(S)
      OBVIOUS
    <3> QED
      BY <3>1, <3>2 DEF S
  <2>2. CASE h.err # "out"
    BY <1>1, <1>3, <2>2, AfterIsRight
  <2> QED
    BY <2>1, <2>2
<1>6. \A x \in made' : Excepted(x)' \/ x = nodes \/ x \in Taken(A)
  <2>1. CASE h.err = "out"
    <3>1. made = {}
      BY <1>2, <2>1 DEF LifeInv, GoneInv
    <3> QED
      BY <1>4, <3>1 DEF Excepted
  <2>2. CASE h.err # "out"
    <3>1. \A y \in Universe(card) : y \in Taken(A) \/ y = nodes \/ Kept(y)
      BY <1>1, <1>3, <2>2, AfterIsRight
    <3> QED
      BY <1>4, <3>1 DEF Excepted, Kept
  <2> QED
    BY <2>1, <2>2
<1>7. card = "PT1" => Quiet(A) /\ Found(made', mapped', A)
  <2> SUFFICES ASSUME card = "PT1" PROVE Quiet(A) /\ Found(made', mapped', A)
    OBVIOUS
  <2>1. CASE h.err = "out"
    <3>1. A = <<>> /\ DOMAIN <<>> = {}
      BY <2>1 DEF After
    <3> QED
      BY <3>1 DEF Quiet, Found
  <2>2. CASE h.err = "detach"
    <3>1. A = ptx_detach
      BY <2>2 DEF After
    <3>2. Quiet(A)
      BY <1>1, <3>1, DetachIsRight
    <3>3. mem \in made
      <4>1. mem \in made \/ mem \in Maybe
        BY <1>1, <1>3, <2>2, HeadFinds DEF LifeInv, AttachInv
      <4> QED
        BY <4>1 DEF Maybe, Broken
    <3>4. mapped' # {} => dmat \in made'
      BY <1>4 DEF LifeInv, AttachInv, Watched
    <3> HIDE DEF A
    <3> QED
      BY <1>4, <3>1, <3>2, <3>3, <3>4, DetachFinds12
  <2> QED
    BY <1>3, <2>1, <2>2
<1> HIDE DEF A
<1>8. todo' = A
  BY DEF A
<1>9. TypeInv'
  BY <1>1, <1>4, <1>5, <1>8 DEF TypeInv, Takes
<1>10. PagesInv'
  <2>1. \A x \in made : IsPage(x) => x \in mapped
    BY DEF LifeInv, PagesInv
  <2> QED
    BY <1>4, <2>1 DEF PagesInv
<1>11. GoneInv'
  BY <1>6, <1>8 DEF GoneInv, Takes
<1>12. AttachInv'
  BY DEF AttachInv, Watched
<1>13. DetachInv'
  <2>1. ~ Broken' => card = "PT1"
    BY <1>1 DEF Broken
  <2> QED
    BY <1>7, <1>8, <2>1 DEF DetachInv
<1>14. StrayInv'
  BY DEF LifeInv, StrayInv
<1> QED
  BY <1>9, <1>10, <1>11, <1>12, <1>13, <1>14 DEF LifeInv

(* A step of detach or of an error path is taken. *)
LEMMA TakingGoesOn ==
    ASSUME LifeInv, Takes, todo # <<>>, NEW h, h = Head(todo),
           todo' = Tail(todo), card' = card, phase' = phase, attached' = attached,
           stray' = stray, lost' = lost, daemons' = daemons, failed' = failed,
           made' \subseteq made, made \ TakenBy(h) \subseteq made',
           mapped' \subseteq mapped,
           \A x \in TakenBy(h) : x \in made' => Excepted(x),
           \A x \in made' : IsPage(x) => x \in mapped' \cup lost
    PROVE  LifeInv'
<1>1. /\ card \in {"PT1", "PT3"} /\ attached \in Nat /\ daemons \subseteq 0 .. attached
      /\ failed \in BOOLEAN /\ made \subseteq Universe(card)
      /\ todo \in Seq(TakeSteps(card)) /\ phase \in {"failing", "detaching"}
  BY DEF LifeInv, TypeInv, Takes
<1>2. h \in TakeSteps(card) /\ Tail(todo) \in Seq(TakeSteps(card))
  BY <1>1, HeadAndTail
<1>3. TypeInv'
  BY <1>1, <1>2 DEF TypeInv, Takes
<1>4. PagesInv'
  BY <1>1 DEF PagesInv
<1>5. GoneInv'
  <2>1. Taken(todo) = TakenBy(h) \cup Taken(Tail(todo))
    BY <1>1, TailGathers
  <2>2. \A x \in made : Excepted(x) \/ x = nodes \/ x \in Taken(todo)
    BY DEF LifeInv, GoneInv
  <2>3. \A x \in made' : Excepted(x) \/ x = nodes \/ x \in Taken(Tail(todo))
    BY <2>1, <2>2
  <2>4. \A x : Excepted(x)' <=> Excepted(x)
    BY DEF Excepted
  <2> QED
    BY <1>1, <2>3, <2>4 DEF GoneInv, Takes
<1>6. AttachInv'
  BY <1>1 DEF AttachInv, Watched
<1>7. DetachInv'
  <2> SUFFICES ASSUME ~ Broken'
               PROVE  Quiet(Tail(todo)) /\ Found(made', mapped', Tail(todo))
    BY DEF DetachInv
  <2>1. Quiet(todo) /\ Found(made, mapped, todo)
    BY DEF LifeInv, DetachInv, Broken
  <2>2. Quiet(Tail(todo))
    BY <1>1, <2>1, QuietTail
  <2>3. Found(made', mapped', Tail(todo))
    BY <1>1, <2>1, FoundTail
  <2> QED
    BY <2>2, <2>3
<1>8. StrayInv'
  BY <1>1 DEF LifeInv, StrayInv
<1> QED
  BY <1>3, <1>4, <1>5, <1>6, <1>7, <1>8 DEF LifeInv

(* It finds what it uses.                                                    *)
LEMMA FoundNext ==
    ASSUME LifeInv, todo # <<>>, Missing # {}
    PROVE  Broken /\ phase \in {"attaching", "failing", "detaching"}
<1>1. /\ card \in {"PT1", "PT3"}
      /\ phase = "attaching" => todo \in Seq(AttachSteps(card))
      /\ Takes => todo \in Seq(TakeSteps(card))
      /\ Takes \/ phase = "attaching"
  BY DEF LifeInv, TypeInv
<1>2. PICK x : x \in Head(todo).uses \ made
  BY DEF Missing
<1>3. CASE phase = "attaching"
  <2>1. Head(todo) \in AttachSteps(card)
    BY <1>1, <1>3, HeadAndTail
  <2>2. x \in Needs(card, Head(todo))
    BY <1>2, <2>1, AttachStepFacts
  <2>3. x \in made \/ x \in Maybe
    BY <1>1, <1>3, <2>2, HeadFinds DEF LifeInv, AttachInv
  <2> QED
    BY <1>2, <1>3, <2>3 DEF Maybe
<1>4. CASE Takes
  <2> SUFFICES ASSUME ~ Broken PROVE FALSE
    BY <1>4 DEF Takes
  <2>1. Found(made, mapped, todo)
    BY <1>4 DEF LifeInv, DetachInv
  <2>2. 1 \in DOMAIN todo /\ Head(todo) = todo[1]
    BY <1>1, <1>4, HeadAndTail
  <2>3. \/ Head(todo).uses \subseteq made
        \/ Head(todo).do = "unmap" /\ Head(todo).x \notin mapped
    BY <2>1, <2>2 DEF Found
  <2> QED
    BY <2>3 DEF Missing
<1> QED
  BY <1>1, <1>3, <1>4

(* A step that is taken while nothing is taken away has found what it uses. *)
LEMMA NextUses ==
    ASSUME NEW do, Next1(do)
    PROVE  /\ todo # <<>> /\ Head(todo).do = do
           /\ do # "unmap" => Head(todo).uses \subseteq made
BY DEF Next1, Missing

(* The kind of the step tells the phase.                                     *)
LEMMA InPhase ==
    ASSUME LifeInv, todo # <<>>
    PROVE  /\ phase = "attaching" \/ Takes
           /\ phase = "attaching" => Head(todo) \in AttachSteps(card)
           /\ Takes => Head(todo) \in TakeSteps(card)
           /\ Head(todo).do \in {"make", "set", "alloc", "try", "daemon", "run"} => phase = "attaching"
           /\ Head(todo).do \in {"free", "unmap", "stop"} => Takes
<1>1. /\ phase = "attaching" => todo \in Seq(AttachSteps(card))
      /\ Takes => todo \in Seq(TakeSteps(card))
      /\ phase = "attaching" \/ Takes
  BY DEF LifeInv, TypeInv
<1>2. /\ phase = "attaching" => Head(todo) \in AttachSteps(card)
      /\ Takes => Head(todo) \in TakeSteps(card)
  BY <1>1, HeadAndTail
<1>3. /\ phase = "attaching" =>
           Head(todo).do \in {"make", "set", "alloc", "use", "try", "daemon", "run"}
      /\ Takes => Head(todo).do \in {"use", "free", "unmap", "stop"}
  BY <1>2 DEF AttachSteps, TakeSteps
<1> QED
  BY <1>1, <1>2, <1>3

(* The invariant holds at first.                                             *)
LEMMA InvAtFirst == Init => LifeInv
<1> SUFFICES ASSUME Init PROVE LifeInv
  OBVIOUS
<1>1. TypeInv
  BY DEF Init, TypeInv, Takes
<1>2. PagesInv /\ GoneInv /\ AttachInv /\ DetachInv /\ StrayInv
  BY DEF Init, PagesInv, GoneInv, AttachInv, DetachInv, StrayInv, Takes, Watched
<1> QED
  BY <1>1, <1>2 DEF LifeInv

(* Every action keeps the invariant. Attach begins with steps that will find *)
(* what they need.                                                           *)
LEMMA AttachKeeps ==
    ASSUME Sizes, LifeInv, Attach
    PROVE  LifeInv'
<1>1. /\ phase = "out" /\ attached' = attached + 1 /\ phase' = "attaching" /\ todo' = ptx_attach
      /\ made' = {} /\ mapped' = {} /\ failed' = FALSE /\ lost' = {}
      /\ card' = card /\ daemons' = daemons /\ stray' = stray
  BY DEF Attach
<1>2. card \in {"PT1", "PT3"} /\ attached \in Nat /\ daemons \subseteq 0 .. attached
  BY DEF LifeInv, TypeInv
<1>3. /\ ptx_attach \in Seq(AttachSteps(card))
      /\ Closed(card, {}, {}, ptx_attach)
      /\ Universe(card) \subseteq Made(ptx_attach)
      /\ \A i \in DOMAIN ptx_attach : ptx_attach[i].err = "out" => i = 1
  BY <1>2, AttachIsRight
<1>4. attached' \notin daemons' /\ attached' \in Nat /\ daemons' \subseteq 0 .. attached'
  BY <1>1, <1>2
<1>5. TypeInv'
  <2>1. made' \subseteq Universe(card') /\ failed' \in BOOLEAN
    BY <1>1
  <2> QED
    BY <1>1, <1>2, <1>3, <1>4, <2>1 DEF TypeInv, Takes
<1>6. PagesInv' /\ GoneInv'
  BY <1>1, <1>3 DEF PagesInv, GoneInv, Takes
<1>7. AttachInv'
  <2>1. Maybe' = {}
    BY <1>1 DEF Maybe, Broken
  <2> QED
    BY <1>1, <1>3, <1>4, <2>1 DEF AttachInv, Watched
<1>8. DetachInv' /\ StrayInv'
  <2>1. stray = {}
    BY <1>1 DEF LifeInv, StrayInv
  <2> QED
    BY <1>1, <2>1 DEF DetachInv, StrayInv, Takes
<1> QED
  BY <1>5, <1>6, <1>7, <1>8 DEF LifeInv

(* Detach begins with steps that take everything.                            *)
LEMMA DetachKeeps ==
    ASSUME Sizes, LifeInv, Detach
    PROVE  LifeInv'
<1>1. /\ phase = "in" /\ phase' = "detaching" /\ todo' = ptx_detach
      /\ card' = card /\ made' = made /\ mapped' = mapped /\ daemons' = daemons
      /\ attached' = attached /\ failed' = failed /\ lost' = lost /\ stray' = stray
  BY DEF Detach
<1>2. /\ card \in {"PT1", "PT3"} /\ attached \in Nat /\ daemons \subseteq 0 .. attached
      /\ failed \in BOOLEAN /\ made \subseteq Universe(card) /\ todo = <<>>
  BY <1>1 DEF LifeInv, TypeInv, Takes
<1>3. /\ ptx_detach \in Seq(TakeSteps(card)) /\ Quiet(ptx_detach)
      /\ \A x \in Universe(card) : x \in Taken(ptx_detach) \/ x = nodes \/ Kept(x)
  BY <1>2, DetachIsRight
<1>4. TypeInv'
  BY <1>1, <1>2, <1>3 DEF TypeInv, Takes
<1>5. PagesInv'
  BY <1>1 DEF LifeInv, PagesInv
<1>6. GoneInv'
  BY <1>1, <1>2, <1>3 DEF GoneInv, Takes, Excepted, Kept
<1>7. AttachInv'
  BY <1>1 DEF AttachInv, Watched
<1>8. DetachInv'
  <2> SUFFICES ASSUME ~ Broken'
               PROVE  Quiet(ptx_detach) /\ Found(made, mapped, ptx_detach)
    BY <1>1 DEF DetachInv
  <2>1. ~ failed
    BY <1>1, <1>2 DEF Broken, LifeInv, AttachInv, Watched
  <2>2. Universe(card) \subseteq made
    <3>1. Universe(card) \subseteq made \cup Made(todo)
      BY <1>1, <2>1 DEF LifeInv, AttachInv, Watched
    <3> QED
      BY <1>2, <3>1, NothingToCome
  <2>3. ASSUME NEW i \in DOMAIN ptx_detach
        PROVE  ptx_detach[i].uses \subseteq made
    <3>1. ptx_detach[i] \in TakeSteps(card)
      BY <1>3
    <3>2. ptx_detach[i].uses \subseteq Universe(card)
      BY <3>1, TakeStepFacts
    <3> QED
      BY <2>2, <3>2
  <2> QED
    BY <1>3, <2>3 DEF Found
<1>9. StrayInv'
  BY <1>1 DEF LifeInv, StrayInv
<1> QED
  BY <1>4, <1>5, <1>6, <1>7, <1>8, <1>9 DEF LifeInv

(* The end of either.                                                        *)
LEMMA EndKeeps ==
    ASSUME LifeInv, End
    PROVE  LifeInv'
<1>1. /\ todo = <<>> /\ phase \in {"attaching", "failing", "detaching"} /\ todo' = todo
      /\ phase' = (IF phase = "attaching" THEN "in" ELSE "out")
      /\ made' = (IF phase = "attaching" THEN made ELSE made \ {nodes})
      /\ card' = card /\ mapped' = mapped /\ daemons' = daemons
      /\ attached' = attached /\ failed' = failed /\ lost' = lost /\ stray' = stray
  BY DEF End
<1>2. /\ card \in {"PT1", "PT3"} /\ attached \in Nat /\ daemons \subseteq 0 .. attached
      /\ failed \in BOOLEAN /\ made \subseteq Universe(card)
  BY DEF LifeInv, TypeInv
<1>3. made' \subseteq made
  BY <1>1
<1>4. TypeInv'
  BY <1>1, <1>2, <1>3 DEF TypeInv, Takes
<1>5. PagesInv'
  BY <1>1, <1>3 DEF LifeInv, PagesInv
<1>6. GoneInv'
  <2>1. phase # "attaching" => \A x \in made' : Excepted(x)
    BY <1>1, NothingToCome DEF LifeInv, GoneInv, Takes
  <2>2. \A x : Excepted(x)' <=> Excepted(x)
    BY <1>1 DEF Excepted
  <2> QED
    BY <1>1, <2>1, <2>2 DEF GoneInv, Takes
<1>7. AttachInv'
  BY <1>1 DEF LifeInv, AttachInv, Watched
<1>8. DetachInv' /\ StrayInv'
  BY <1>1 DEF LifeInv, DetachInv, StrayInv, Takes
<1> QED
  BY <1>4, <1>5, <1>6, <1>7, <1>8 DEF LifeInv

(* A step that does not find what it uses: only after a failed attach of a   *)
(* PT3.                                                                      *)
LEMMA CrashKeeps ==
    ASSUME LifeInv, Crash
    PROVE  LifeInv'
<1>1. /\ todo # <<>> /\ Missing # {} /\ phase' = "dead" /\ todo' = <<>>
      /\ card' = card /\ made' = made /\ mapped' = mapped /\ daemons' = daemons
      /\ attached' = attached /\ failed' = failed /\ lost' = lost
  BY DEF Crash
<1>2. /\ card \in {"PT1", "PT3"} /\ attached \in Nat /\ daemons \subseteq 0 .. attached
      /\ failed \in BOOLEAN /\ made \subseteq Universe(card)
  BY DEF LifeInv, TypeInv
<1>3. Broken
  BY <1>1, FoundNext
<1>4. TypeInv'
  BY <1>1, <1>2 DEF TypeInv, Takes
<1>5. PagesInv'
  BY <1>1 DEF LifeInv, PagesInv
<1>6. GoneInv' /\ AttachInv' /\ DetachInv'
  BY <1>1 DEF GoneInv, AttachInv, DetachInv, Takes, Watched
<1>7. StrayInv'
  BY <1>1, <1>3 DEF StrayInv, Broken
<1> QED
  BY <1>4, <1>5, <1>6, <1>7 DEF LifeInv

LEMMA StutterKeeps ==
    ASSUME LifeInv, UNCHANGED vars
    PROVE  LifeInv'
<1>1. /\ card' = card /\ phase' = phase /\ todo' = todo /\ made' = made /\ mapped' = mapped
      /\ procrun' = procrun /\ daemons' = daemons /\ attached' = attached
      /\ failed' = failed /\ lost' = lost /\ stray' = stray
  BY DEF vars
<1>2. TypeInv'
  BY <1>1 DEF LifeInv, TypeInv, Takes
<1>3. PagesInv'
  BY <1>1 DEF LifeInv, PagesInv
<1>4. GoneInv'
  BY <1>1 DEF LifeInv, GoneInv, Takes, Excepted
<1>5. AttachInv'
  BY <1>1 DEF LifeInv, AttachInv, Watched, Maybe, Broken
<1>6. DetachInv' /\ StrayInv'
  BY <1>1 DEF LifeInv, DetachInv, StrayInv, Takes, Broken
<1> QED
  BY <1>2, <1>3, <1>4, <1>5, <1>6 DEF LifeInv

(* Nobody who finds what he reaches for changes anything here. *)
LEMMA ReachKeeps ==
    ASSUME LifeInv, NEW uses, Reach(uses), Watched => uses \subseteq made
    PROVE  LifeInv'
<1>1. stray' = stray
  BY DEF Reach
<1>2. UNCHANGED vars
  BY <1>1 DEF Reach, vars
<1> QED
  BY <1>2, StutterKeeps

(* What the daemon reaches for is what was counted on when it was made. *)
LEMMA DaemonUsesNeeds == DaemonUses \subseteq DaemonNeeds
<1>1. SUFFICES ASSUME NEW x \in DaemonUses PROVE x \in DaemonNeeds
  OBVIOUS
<1>2. \/ x = mem
      \/ x \in {<<"ring", r>> : r \in 1 .. Rings}
      \/ x \in Blocks("data", Rings, Pages)
      \/ x \in {<<"buf", s>> : s \in 1 .. Streams}
      \/ x \in {<<"stream lock", s>> : s \in 1 .. Streams}
  BY DEF DaemonUses
<1>3. CASE x = mem \/ x \in {<<"ring", r>> : r \in 1 .. Rings}
  BY <1>3 DEF DaemonNeeds
<1>4. CASE x \in Blocks("data", Rings, Pages)
  BY <1>4 DEF DaemonNeeds
<1>5. CASE x \in {<<"buf", s>> : s \in 1 .. Streams}
  <2>1. x \in Pairs({"buf", "stream lock"}, Streams)
    BY <1>5, PairIsIn
  <2> QED
    BY <2>1 DEF DaemonNeeds
<1>6. CASE x \in {<<"stream lock", s>> : s \in 1 .. Streams}
  <2>1. x \in Pairs({"buf", "stream lock"}, Streams)
    BY <1>6, PairIsIn
  <2> QED
    BY <2>1 DEF DaemonNeeds
<1> QED
  BY <1>2, <1>3, <1>4, <1>5, <1>6

(* Users and the daemon.                                                     *)
LEMMA OthersKeep ==
    ASSUME LifeInv, UserCalls \/ SysctlCalls \/ DaemonWorks
    PROVE  LifeInv'
<1>1. CASE UserCalls
  <2>1. PICK s \in 1 .. Streams : <<"drv", s>> \in made /\ Reach(UserNeeds(card, s))
    BY <1>1 DEF UserCalls, UserNeeds
  <2>2. Watched => UserNeeds(card, s) \subseteq made
    BY <2>1 DEF LifeInv, AttachInv
  <2> QED
    BY <2>1, <2>2, ReachKeeps
<1>2. CASE SysctlCalls
  <2> DEFINE uses == {mem, lock} \cup {<<"dev", s>> : s \in 1 .. Streams}
                                 \cup {<<"drv", s>> : s \in 1 .. Streams}
  <2>1. nodes \in made /\ Reach(uses)
    BY <1>2 DEF SysctlCalls
  <2>2. uses \subseteq SysctlNeeds
    BY PairIsIn DEF SysctlNeeds
  <2>3. Watched => SysctlNeeds \subseteq made
    BY <2>1 DEF LifeInv, AttachInv
  <2> HIDE DEF uses
  <2>4. Watched => uses \subseteq made
    BY <2>2, <2>3
  <2> QED
    BY <2>1, <2>4, ReachKeeps
<1>3. CASE DaemonWorks
  <2>1. attached \in daemons /\ Reach(DaemonUses)
    BY <1>3 DEF DaemonWorks
  <2>2. Watched => DaemonNeeds \subseteq made
    BY <2>1 DEF LifeInv, AttachInv
  <2>3. Watched => DaemonUses \subseteq made
    BY <2>2, DaemonUsesNeeds
  <2> QED
    BY <2>1, <2>3, ReachKeeps
<1> QED
  BY <1>1, <1>2, <1>3

(* The daemon leaves.                                                        *)
LEMMA DaemonLeavesKeeps ==
    ASSUME LifeInv, DaemonLeaves
    PROVE  LifeInv'
<1>1. /\ card' = card /\ phase' = phase /\ todo' = todo /\ made' = made /\ mapped' = mapped
      /\ daemons' \subseteq daemons /\ attached' = attached
      /\ failed' = failed /\ lost' = lost /\ stray' = stray
  BY DEF DaemonLeaves
<1>2. TypeInv'
  BY <1>1 DEF LifeInv, TypeInv, Takes
<1>3. PagesInv'
  BY <1>1 DEF LifeInv, PagesInv
<1>4. GoneInv'
  BY <1>1 DEF LifeInv, GoneInv, Takes, Excepted
<1>5. AttachInv'
  BY <1>1 DEF LifeInv, AttachInv, Watched, Maybe, Broken
<1>6. DetachInv' /\ StrayInv'
  BY <1>1 DEF LifeInv, DetachInv, StrayInv, Takes, Broken
<1> QED
  BY <1>2, <1>3, <1>4, <1>5, <1>6 DEF LifeInv

(* A thing is made.                                                          *)
LEMMA MakeKeeps ==
    ASSUME LifeInv, MakeStep
    PROVE  LifeInv'
<1> DEFINE h == Head(todo)
<1>1. PICK do \in {"make", "set"} : Next1(do)
  BY DEF MakeStep
<1>2. todo # <<>> /\ h.do = do /\ h.uses \subseteq made
  BY <1>1, NextUses
<1>3. phase = "attaching"
  BY <1>2, InPhase
<1>4. MadeBy(h) = {h.x}
  BY <1>2 DEF MadeBy
<1>5. /\ todo' = Tail(todo) /\ card' = card /\ phase' = phase /\ attached' = attached
      /\ stray' = stray /\ lost' = lost /\ daemons' = daemons /\ mapped' = mapped
      /\ made' = made \cup {h.x} /\ failed' = failed
  BY DEF MakeStep, Goes
<1> HIDE DEF h
<1>6. /\ daemons' = daemons \cup (IF h.do = "daemon" THEN {attached} ELSE {})
      /\ mapped' = mapped \cup (IF h.do = "alloc" THEN {h.x} ELSE {})
  BY <1>1, <1>2, <1>5
<1> QED
  BY <1>2, <1>3, <1>4, <1>5, <1>6, AttachGoesOn DEF h

(* A page is allocated and mapped, or not mapped.                            *)
LEMMA AllocKeeps ==
    ASSUME LifeInv, AllocStep
    PROVE  LifeInv'
<1> DEFINE h == Head(todo)
<1>1. Next1("alloc")
  BY DEF AllocStep
<1>2. todo # <<>> /\ h.do = "alloc" /\ h.uses \subseteq made
  BY <1>1, NextUses
<1>3. phase = "attaching"
  BY <1>2, InPhase
<1>4. MadeBy(h) = {h.x}
  BY <1>2 DEF MadeBy
<1>5. /\ todo' = Tail(todo) /\ card' = card /\ phase' = phase /\ attached' = attached
      /\ stray' = stray /\ lost' = lost /\ daemons' = daemons /\ mapped' = mapped \cup {h.x}
      /\ made' = made \cup {h.x} /\ failed' = failed
  BY DEF AllocStep, Goes
<1> HIDE DEF h
<1>6. /\ daemons' = daemons \cup (IF h.do = "daemon" THEN {attached} ELSE {})
      /\ mapped' = mapped \cup (IF h.do = "alloc" THEN {h.x} ELSE {})
  BY <1>2, <1>5
<1> QED
  BY <1>2, <1>3, <1>4, <1>5, <1>6, AttachGoesOn DEF h

(* A step that only uses.                                                    *)
LEMMA UseKeeps ==
    ASSUME LifeInv, UseStep
    PROVE  LifeInv'
<1> DEFINE h == Head(todo)
<1>1. PICK do \in {"use", "try"} : Next1(do)
  BY DEF UseStep
<1>2. todo # <<>> /\ h.do = do /\ h.uses \subseteq made
  BY <1>1, NextUses
<1>3. MadeBy(h) = {} /\ TakenBy(h) = {}
  BY <1>1, <1>2 DEF MadeBy, TakenBy
<1>4. /\ todo' = Tail(todo) /\ card' = card /\ phase' = phase /\ attached' = attached
      /\ stray' = stray /\ lost' = lost /\ daemons' = daemons /\ mapped' = mapped
      /\ made' = made /\ failed' = failed
  BY DEF UseStep, Goes
<1>5. phase = "attaching" \/ Takes
  BY <1>2, InPhase
<1>6. \A x \in made : IsPage(x) => x \in mapped \cup lost
  BY DEF LifeInv, PagesInv
<1> HIDE DEF h
<1>7. CASE phase = "attaching"
  <2>1. /\ daemons' = daemons \cup (IF h.do = "daemon" THEN {attached} ELSE {})
        /\ mapped' = mapped \cup (IF h.do = "alloc" THEN {h.x} ELSE {})
        /\ made' = made \cup MadeBy(h)
    BY <1>1, <1>2, <1>3, <1>4
  <2> QED
    BY <1>2, <1>4, <1>7, <2>1, AttachGoesOn DEF h
<1>8. CASE Takes
  <2>1. /\ made' \subseteq made /\ made \ TakenBy(h) \subseteq made' /\ mapped' \subseteq mapped
        /\ \A x \in TakenBy(h) : x \in made' => Excepted(x)
        /\ \A x \in made' : IsPage(x) => x \in mapped' \cup lost
    BY <1>3, <1>4, <1>6
  <2> QED
    BY <1>2, <1>4, <1>8, <2>1, TakingGoesOn DEF h
<1> QED
  BY <1>5, <1>7, <1>8

(* A thing is freed.                                                         *)
LEMMA FreeKeeps ==
    ASSUME LifeInv, FreeStep
    PROVE  LifeInv'
<1> DEFINE h == Head(todo)
<1>1. Next1("free")
  BY DEF FreeStep
<1>2. todo # <<>> /\ h.do = "free"
  BY <1>1, NextUses
<1>3. Takes
  BY <1>2, InPhase
<1>4. /\ todo' = Tail(todo) /\ card' = card /\ phase' = phase /\ attached' = attached
      /\ stray' = stray /\ lost' = lost /\ daemons' = daemons /\ mapped' = mapped
      /\ failed' = failed
      /\ made' = made \ (IF h.x \in {dmat, dmat3} /\ lost # {} THEN {}
                         ELSE IF h.x[1] = "dev" THEN {h.x, <<"drv", h.x[2]>>} ELSE {h.x})
  BY DEF FreeStep, Goes
<1>5. \A x \in made : IsPage(x) => x \in mapped \cup lost
  BY DEF LifeInv, PagesInv
<1>6. TakenBy(h) = IF h.x[1] = "dev" THEN {h.x, <<"drv", h.x[2]>>} ELSE {h.x}
  BY <1>2 DEF TakenBy
<1>7. \A x \in {dmat, dmat3} : x[1] # "dev"
  BY KindsOfCommon
<1> HIDE DEF h
<1>8. /\ made' \subseteq made /\ made \ TakenBy(h) \subseteq made'
      /\ \A x \in made' : IsPage(x) => x \in mapped' \cup lost
  BY <1>4, <1>5, <1>6
<1>9. \A x \in TakenBy(h) : x \in made' => Excepted(x)
  BY <1>4, <1>6, <1>7 DEF Excepted
<1> QED
  BY <1>2, <1>3, <1>4, <1>8, <1>9, TakingGoesOn DEF h

(* A page is unmapped and freed.                                             *)
LEMMA UnmapKeeps ==
    ASSUME LifeInv, UnmapStep
    PROVE  LifeInv'
<1> DEFINE h == Head(todo)
<1>1. Next1("unmap")
  BY DEF UnmapStep
<1>2. todo # <<>> /\ h.do = "unmap"
  BY <1>1, NextUses
<1>3. Takes /\ h \in TakeSteps(card)
  BY <1>2, InPhase
<1>4. /\ todo' = Tail(todo) /\ card' = card /\ phase' = phase /\ attached' = attached
      /\ stray' = stray /\ lost' = lost /\ daemons' = daemons
      /\ failed' = failed
      /\ made' = made \ ({h.x} \cap mapped) /\ mapped' = mapped \ {h.x}
  BY DEF UnmapStep, Goes
<1>5. \A x \in made : IsPage(x) => x \in mapped \cup lost
  BY DEF LifeInv, PagesInv
<1>6. TakenBy(h) = {h.x} /\ IsPage(h.x)
  BY <1>2, <1>3, TakeStepFacts
<1> HIDE DEF h
<1>7. /\ made' \subseteq made /\ made \ TakenBy(h) \subseteq made' /\ mapped' \subseteq mapped
      /\ \A x \in made' : IsPage(x) => x \in mapped' \cup lost
  BY <1>4, <1>5, <1>6
<1>8. \A x \in TakenBy(h) : x \in made' => Excepted(x)
  BY <1>4, <1>5, <1>6 DEF Excepted
<1> QED
  BY <1>2, <1>3, <1>4, <1>7, <1>8, TakingGoesOn DEF h

(* The daemon is made, let run or stopped.                                   *)
LEMMA ProcKeeps ==
    ASSUME LifeInv, ProcStep
    PROVE  LifeInv'
<1> DEFINE h == Head(todo)
<1>1. /\ \/ Next1("daemon") /\ daemons' = daemons \cup {attached}
         \/ Next1("run") /\ daemons' = daemons
         \/ Next1("stop") /\ daemons' = daemons
      /\ todo' = Tail(todo) /\ card' = card /\ phase' = phase /\ attached' = attached
      /\ stray' = stray /\ lost' = lost /\ mapped' = mapped /\ made' = made /\ failed' = failed
  BY DEF ProcStep, Goes
<1>2. /\ \/ h.do = "daemon" /\ daemons' = daemons \cup {attached}
         \/ h.do = "run" /\ daemons' = daemons
         \/ h.do = "stop" /\ daemons' = daemons
      /\ todo # <<>> /\ h.uses \subseteq made
  BY <1>1, NextUses
<1>3. MadeBy(h) = {} /\ TakenBy(h) = {}
  BY <1>2 DEF MadeBy, TakenBy
<1>4. \A x \in made : IsPage(x) => x \in mapped \cup lost
  BY DEF LifeInv, PagesInv
<1>5. IF h.do = "stop" THEN Takes ELSE phase = "attaching"
  BY <1>2, InPhase
<1> HIDE DEF h
<1>6. CASE h.do # "stop"
  <2>1. /\ daemons' = daemons \cup (IF h.do = "daemon" THEN {attached} ELSE {})
        /\ mapped' = mapped \cup (IF h.do = "alloc" THEN {h.x} ELSE {})
        /\ made' = made \cup MadeBy(h)
    BY <1>1, <1>2, <1>3, <1>6
  <2> QED
    BY <1>1, <1>2, <1>5, <1>6, <2>1, AttachGoesOn DEF h
<1>7. CASE h.do = "stop"
  <2>1. /\ made' \subseteq made /\ made \ TakenBy(h) \subseteq made' /\ mapped' \subseteq mapped
        /\ \A x \in TakenBy(h) : x \in made' => Excepted(x)
        /\ \A x \in made' : IsPage(x) => x \in mapped' \cup lost
        /\ daemons' = daemons
    BY <1>1, <1>2, <1>3, <1>4, <1>7
  <2> QED
    BY <1>1, <1>2, <1>5, <1>7, <2>1, TakingGoesOn DEF h
<1> QED
  BY <1>6, <1>7

(* A step fails, and what follows is what its error path takes.              *)
LEMMA FailKeeps ==
    ASSUME Sizes, LifeInv, FailStep
    PROVE  LifeInv'
<1> DEFINE h == Head(todo)
<1>1. PICK do \in {"make", "alloc", "try", "daemon"} : Next1(do)
  BY DEF FailStep
<1>2. todo # <<>> /\ h.do = do /\ h.uses \subseteq made
  BY <1>1, NextUses
<1>3. phase = "attaching" /\ h \in AttachSteps(card)
  BY <1>2, InPhase
<1>4. /\ IF h.err = "none" THEN todo' = Tail(todo) /\ phase' = phase
         ELSE todo' = After(h.err, h.x) /\ phase' = "failing"
      /\ card' = card /\ attached' = attached
      /\ stray' = stray /\ lost' = lost /\ daemons' = daemons /\ mapped' = mapped
      /\ made' = made /\ failed' = TRUE
  BY DEF FailStep
<1>5. h.err = "none" => h.do \notin {"alloc", "daemon"}
  BY <1>3, AttachStepFacts
<1> HIDE DEF h
<1>6. CASE h.err = "none"
  <2>1. /\ daemons' = daemons \cup (IF h.do = "daemon" THEN {attached} ELSE {})
        /\ mapped' = mapped \cup (IF h.do = "alloc" THEN {h.x} ELSE {})
    BY <1>4, <1>5, <1>6
  <2> QED
    BY <1>2, <1>3, <1>4, <1>6, <2>1, AttachGoesOn DEF h
<1>7. CASE h.err # "none"
  <2>1. h.do \in {"make", "alloc", "try", "daemon"}
    BY <1>1, <1>2
  <2> QED
    BY <1>2, <1>3, <1>4, <1>7, <2>1, AttachFails DEF h
<1> QED
  BY <1>6, <1>7

(* A page is allocated and cannot be mapped.                                 *)
LEMMA FailLoadKeeps ==
    ASSUME Sizes, LifeInv, FailLoad
    PROVE  LifeInv'
<1> DEFINE h == Head(todo)
<1>1. Next1("alloc")
  BY DEF FailLoad
<1>2. todo # <<>> /\ h.do = "alloc" /\ h.uses \subseteq made
  BY <1>1, NextUses
<1>3. phase = "attaching" /\ h \in AttachSteps(card)
  BY <1>2, InPhase
<1>4. /\ todo' = After(h.err, h.x) /\ phase' = "failing"
      /\ card' = card /\ attached' = attached
      /\ stray' = stray /\ lost' = {h.x} /\ daemons' = daemons /\ mapped' = mapped
      /\ made' = made \cup {h.x} /\ failed' = TRUE
  BY DEF FailLoad
<1>5. h.err # "none"
  BY <1>2, <1>3, AttachStepFacts
<1> HIDE DEF h
<1>6. h.do \in {"make", "alloc", "try", "daemon"}
  BY <1>2
<1> QED
  BY <1>2, <1>3, <1>4, <1>5, <1>6, AttachFails DEF h

(* The invariant of attach and detach. *)
THEOREM LifeInvariant == Spec => []LifeInv
<1> Sizes
  BY PtxLifeAssumption DEF Sizes
<1>1. Init => LifeInv
  BY InvAtFirst
<1>2. LifeInv /\ [Next]_vars => LifeInv'
  <2> SUFFICES ASSUME LifeInv, [Next]_vars PROVE LifeInv'
    OBVIOUS
  <2>1. CASE Attach
    BY <2>1, AttachKeeps
  <2>2. CASE Detach
    BY <2>2, DetachKeeps
  <2>3. CASE End
    BY <2>3, EndKeeps
  <2>4. CASE MakeStep
    BY <2>4, MakeKeeps
  <2>5. CASE AllocStep
    BY <2>5, AllocKeeps
  <2>6. CASE UseStep
    BY <2>6, UseKeeps
  <2>7. CASE FreeStep
    BY <2>7, FreeKeeps
  <2>8. CASE UnmapStep
    BY <2>8, UnmapKeeps
  <2>9. CASE ProcStep
    BY <2>9, ProcKeeps
  <2>10. CASE FailStep
    BY <2>10, FailKeeps
  <2>11. CASE FailLoad
    BY <2>11, FailLoadKeeps
  <2>12. CASE Crash
    BY <2>12, CrashKeeps
  <2>13. CASE UserCalls \/ SysctlCalls \/ DaemonWorks
    BY <2>13, OthersKeep
  <2>14. CASE DaemonLeaves
    BY <2>14, DaemonLeavesKeeps
  <2>15. CASE UNCHANGED vars
    BY <2>15, StutterKeeps
  <2> QED
    BY <2>1, <2>2, <2>3, <2>4, <2>5, <2>6, <2>7, <2>8, <2>9, <2>10, <2>11, <2>12, <2>13, <2>14,
       <2>15 DEF Next
<1> QED
  BY <1>1, <1>2, PTL DEF Spec

(* NothingRemains: whatever step of attach fails, and after every detach,    *)
(* nothing that attach made is left but the known exceptions.                *)
THEOREM NothingEverRemains == Spec => []NothingRemains
<1>1. Spec => []LifeInv
  BY LifeInvariant
<1>2. LifeInv => NothingRemains
  BY DEF LifeInv, GoneInv, NothingRemains
<1> QED
  BY <1>1, <1>2, PTL

(* OnlyWhatIsThere: attach, detach, users and the daemon find what they      *)
(* reach for, as long as no step of a PT3's attach has failed.               *)
THEOREM WhatIsUsedIsAlwaysThere == Spec => []OnlyWhatIsThere
<1>1. Spec => []LifeInv
  BY LifeInvariant
<1>2. LifeInv => OnlyWhatIsThere
  BY DEF LifeInv, StrayInv, OnlyWhatIsThere, Broken
<1> QED
  BY <1>1, <1>2, PTL
=============================================================================
