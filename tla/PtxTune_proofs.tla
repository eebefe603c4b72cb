--------------------------- MODULE PtxTune_proofs ---------------------------
(***************************************************************************)
(* Proofs about PtxTune, for any number of threads, slots, tries, calls    *)
(* and failures: a tuning that nothing disturbed has tuned as it was       *)
(* asked, and switching the antenna leaves the tuners alone.               *)
(***************************************************************************)
EXTENDS PtxTune, SequenceLemmas

-----------------------------------------------------------------------------
(* Types.                                                                    *)

Questions == [no : Channels, slot : 0 .. Slots - 1]

Vals == Nat \cup Questions

(* What a tuning may have to do.  Only a satellite one reads identifiers.    *)
Writes   == [do : {"write"}, reg : {"pll1", "pll2", "pll3", "restart", "ts_set"}, val : Vals]
Polls    == [do : {"pll_lock", "tmcc", "ts_lock"}, reg : {"ends", "goes_on"}, val : Nat]
Readings == [do : {"ts_id"}, reg : {"goes_on"},
             val : {n \in 0 .. Slots - 1 : n + 1 \in 0 .. Slots - 1}]
Thoughts == [do : {"split", "try", "lock"}, reg : {"none"}, val : 0 .. Slots - 1]

TuneOps == Writes \cup Polls \cup Thoughts \cup (IF type = "S" THEN Readings ELSE {})

(* What a switching has to do: look, or set the rest of what is to be set.   *)
Look(v)   == [do |-> "lnb?", reg |-> "none", val |-> v]
Pins(v)   == [do |-> "pins", reg |-> "none", val |-> v]
SetLnb(v) == [do |-> "set_lnb", reg |-> "none", val |-> v]

First(v)  == IF cardtype = "PT3" THEN SetLnb(v) ELSE Pins(v)
Second(v) == IF cardtype = "PT3" THEN Pins(v) ELSE SetLnb(v)

(* The lists of the threads that switch: nothing is set, or one is. *)
Halves == { <<Second(v)>> : v \in 0 .. 2 }
Wholes == { <<First(v), Second(v)>> : v \in 0 .. 2 }
Looks  == { <<Look(v)>> : v \in 0 .. 3 }

Asking   == [0 .. Slots - 1 -> Nat]

TuneCalls == [call : {"none", "tune"}, todo : Seq(TuneOps), n : Nat, ask : Questions,
              ids : Asking]
LnbCalls  == [call : {"lnb"}, todo : {<<>>} \cup Looks \cup Wholes \cup Halves, n : Nat,
              ask : Questions, ids : Asking]

Registers == [pll1 : Vals, pll2 : Vals, pll3 : Vals, tmcc : Vals, valid : BOOLEAN,
              ts_set : Vals, ts : Vals]

(* The call a thread is in says what is on its list.                         *)
TypeInv ==
    /\ type \in {"S", "T"} /\ cardtype \in {"PT1", "PT2", "PT3"}
    /\ freq \in Questions /\ lnb \in 0 .. 2
    /\ hw \in Registers /\ (type = "S" => hw.tmcc \in Nat)
    /\ th \in [Threads -> TuneCalls \cup LnbCalls]
    /\ tunings \in 0 .. MaxTunings /\ switches \in Nat /\ errors \in Nat
    /\ clean \in [Threads -> BOOLEAN]
    /\ mixed \in BOOLEAN /\ agreed \in BOOLEAN

-----------------------------------------------------------------------------
(* The antenna.                                                              *)

(* The pins always feed the tuners.  If the latest switching was begun when  *)
(* no other was under way, it is the only one, and when it has set the one   *)
(* half, the other is all that is missing.                                   *)
LnbInv ==
    /\ \E v \in 0 .. 2 : pins = settuner_reset(v)
    /\ agreed => Switchers = {} /\ pins = settuner_reset(lnb)
    /\ ~ mixed => \A t, u \in Switchers : t = u
    /\ ~ mixed => \A t \in Threads : \A v \in 0 .. 2 :
          th[t].call = "lnb" /\ th[t].todo = <<Second(v)>> =>
              IF cardtype = "PT3" THEN lnb = v ELSE pins = settuner_reset(v)

-----------------------------------------------------------------------------
(* A tuning.                                                                 *)

(* h is what a call has to do and knows, r are the registers it finds.       *)
Lock(h) == [do |-> "lock", reg |-> "none", val |-> h.ask.slot]

(* The identifiers are read and tried, whatever there may be left of that,   *)
(* and the stream is locked in the end.                                      *)
SearchOps ==
    Readings
    \cup [do : {"try"}, reg : {"none"}, val : {0}]
    \cup [do : {"write"}, reg : {"ts_set"}, val : Nat]
    \cup [do : {"ts_lock"}, reg : {"goes_on"}, val : Nat]

Searches(h) == {x \o <<Lock(h)>> : x \in Seq(SearchOps)}

(* Nothing in the demodulator but the channel asked for. *)
There(h, r)   == r.pll1 = h.ask.no /\ r.pll2 = h.ask.no /\ r.pll3 = h.ask.no
Settled(h, r) == There(h, r) /\ (r.valid => r.tmcc = h.ask.no)

IdsAreRight(h) == \A i \in 0 .. Slots - 1 : h.ids[i] \in {0, TsId(h.ask.no, i)}

pll  == Poll("pll_lock", 0)
anew == WriteReg("restart", 0)
tmcc == Poll("tmcc", 0)

(* Where a satellite tuning is on its way to a search, and what it has       *)
(* reached.                                                                  *)
SBefore(h, r, s) ==
    LET W(reg) == WriteReg(reg, h.ask.no)
    IN  \/ h.todo = <<W("pll1"), W("pll2"), W("pll3"), pll, anew, tmcc>> \o s
        \/ h.todo = <<W("pll2"), W("pll3"), pll, anew, tmcc>> \o s /\ r.pll1 = h.ask.no
        \/ /\ h.todo = <<W("pll3"), pll, anew, tmcc>> \o s
           /\ r.pll1 = h.ask.no /\ r.pll2 = h.ask.no
        \/ h.todo = <<pll, anew, tmcc>> \o s /\ There(h, r)
        \/ h.todo = <<anew, tmcc>> \o s /\ There(h, r)
        \/ h.todo = <<tmcc>> \o s /\ Settled(h, r)

(* Where it is after the search. *)
SAfter(h, r) ==
    LET id == h.ids[h.ask.slot]
    IN  \/ h.todo = <<WriteReg("ts_set", id), Poll("ts_lock", id)>>
        \/ h.todo = <<Poll("ts_lock", id)>> /\ r.ts_set = id
        \/ h.todo = <<>> /\ r.ts_set = id /\ r.ts = id

SPlace(h, r) ==
    /\ IdsAreRight(h)
    /\ \/ \E s \in Searches(h) : SBefore(h, r, s)
       \/ h.todo \in Searches(h) /\ Settled(h, r)
       \/ There(h, r) /\ SAfter(h, r)

(* The same of a terrestrial one, which writes one register and reads no     *)
(* identifiers.                                                              *)
TPlace(h, r) ==
    \/ h.todo = <<WriteReg("pll1", h.ask), pll, anew, tmcc>>
    \/ r.pll1 = h.ask /\ h.todo \in {<<pll, anew, tmcc>>, <<anew, tmcc>>, <<tmcc>>, <<>>}

(* At first it knows nothing of its channel but what the driver does. *)
Place(h, r, f) ==
    \/ h.todo = <<Local("split")>> /\ f = h.ask /\ IdsAreRight(h)
    \/ type = "S" /\ SPlace(h, r)
    \/ type = "T" /\ TPlace(h, r)

Undisturbed(t) == th[t].call = "tune" /\ clean[t]

TuneInv == \A t \in Threads : Undisturbed(t) => Place(th[t], hw, freq)

-----------------------------------------------------------------------------
(* The steps of the calls.                                                   *)

(* Slots come in pairs. *)
LEMMA Pairs ==
    /\ Slots \in Nat
    /\ Slots \div 2 \in Nat
    /\ \A i \in 1 .. Slots \div 2 :
          2 * i - 2 \in 0 .. Slots - 1 /\ (2 * i - 2) + 1 \in 0 .. Slots - 1
BY PtxTuneAssumption

(* The lists of a switching.                                                 *)
LEMMA LnbSteps ==
    ASSUME NEW v \in 0 .. 3
    PROVE  /\ [Local("lnb?") EXCEPT !.val = v] = Look(v)
           /\ SetBoth(Look(v)) = <<First(v), Second(v)>>
<1>1. [Local("lnb?") EXCEPT !.val = v] = Look(v)
  BY DEF Local, Look
<1>2. ASSUME NEW op, op = Look(v)
      PROVE  SetBoth(op) = <<First(v), Second(v)>>
  <2>1. op \in [do : {"lnb?"}, reg : {"none"}, val : 0 .. 3] /\ op.val = v
    BY <1>2 DEF Look
  <2>2. [op EXCEPT !.do = "pins"] = Pins(v)
    BY <2>1 DEF Pins
  <2>3. [op EXCEPT !.do = "set_lnb"] = SetLnb(v)
    BY <2>1 DEF SetLnb
  <2> QED
    BY <2>2, <2>3, Zenon DEF SetBoth, First, Second
<1> QED
  BY <1>1, <1>2

(* The first steps of a satellite tuning, and what is left after them.       *)
ReadAll == [i \in 1 .. Slots \div 2 |-> Seek("ts_id", 2 * i - 2)]

LEMMA ReadAllIsSearch ==
    /\ ReadAll \in Seq(SearchOps)
    /\ type = "S" => ReadAll \in Seq(TuneOps)
<1>1. ASSUME NEW i \in 1 .. Slots \div 2
      PROVE  Seek("ts_id", 2 * i - 2) \in Readings
  BY Pairs DEF Seek, Readings
<1>2. ReadAll \in Seq(Readings)
  <2> HIDE DEF Readings, Seek
  <2> QED
    BY <1>1, Pairs DEF ReadAll
<1>3. Readings \subseteq SearchOps /\ (type = "S" => Readings \subseteq TuneOps)
  BY DEF SearchOps, TuneOps
<1> QED
  BY <1>2, <1>3, SeqMonotonic

LEMMA WritesAreTuneOps ==
    ASSUME NEW v \in Vals
    PROVE  /\ \A r \in {"pll1", "pll2", "pll3", "restart", "ts_set"} : WriteReg(r, v) \in TuneOps
           /\ \A w \in {"pll_lock", "tmcc", "ts_lock"} : \A n \in Nat :
                 Poll(w, n) \in TuneOps /\ Seek(w, n) \in TuneOps
BY DEF WriteReg, Poll, Seek, TuneOps, Writes, Polls

(* What is tried are writes and polls, whatever identifiers there are. *)
LEMMA TrialsAreSteps ==
    ASSUME NEW t \in Threads, th[t].ids \in Asking
    PROVE  Trials(t) \in Seq(SearchOps) /\ Trials(t) \in Seq(TuneOps)
<1> DEFINE S == SearchOps \cap TuneOps
           Part(i) == LET id == th[t].ids[i - 1]
                      IN  IF id = NoTsId THEN <<>>
                          ELSE <<WriteReg("ts_set", id), Seek("ts_lock", id)>>
           parts == [i \in 1 .. Slots |-> Part(i)]
<1>1. ASSUME NEW i \in 1 .. Slots
      PROVE  Part(i) \in Seq(S)
  <2>1. th[t].ids[i - 1] \in Nat
    BY Pairs DEF Asking
  <2>2. ASSUME NEW id \in Nat
        PROVE  WriteReg("ts_set", id) \in S /\ Seek("ts_lock", id) \in S
    BY DEF WriteReg, Seek, SearchOps, TuneOps, Writes, Polls, Vals
  <2> HIDE DEF S
  <2> QED
    BY <2>1, <2>2
<1>2. parts \in [1 .. Slots -> Seq(S)]
  BY <1>1
<1>3. FlattenSeq(parts) \in Seq(S)
  <2> HIDE DEF parts, S
  <2> QED
    BY <1>2, Pairs, FlattenSeqIsASeq, Zenon
<1>4. Trials(t) \in Seq(S)
  BY <1>3 DEF Trials
<1> QED
  <2> HIDE DEF S
  <2>1. Trials(t) \in Seq(SearchOps \cap TuneOps)
    BY <1>4 DEF S
  <2> QED
    BY <2>1, SeqMonotonic

-----------------------------------------------------------------------------
(* Types are kept.                                                           *)

LEMMA Heads ==
    ASSUME TypeInv, NEW t \in Threads, th[t].todo # <<>>
    PROVE  /\ th[t].call = "lnb" =>
                /\ th[t] \in LnbCalls
                /\ th[t].todo \in Looks \cup Wholes \cup Halves
                /\ Head(th[t].todo).do \in {"lnb?", "pins", "set_lnb"}
           /\ th[t].call # "lnb" =>
                /\ th[t] \in TuneCalls
                /\ Head(th[t].todo) \in TuneOps
                /\ Tail(th[t].todo) \in Seq(TuneOps)
<1>1. th[t] \in TuneCalls \cup LnbCalls
  BY DEF TypeInv
<1>2. CASE th[t].call = "lnb"
  <2>1. th[t] \in LnbCalls /\ th[t].todo \in Looks \cup Wholes \cup Halves
    BY <1>1, <1>2 DEF TuneCalls, LnbCalls
  <2> QED
    BY <2>1, <1>2 DEF Looks, Wholes, Halves, First, Second, Look, Pins, SetLnb
<1>3. CASE th[t].call # "lnb"
  <2>1. th[t] \in TuneCalls
    BY <1>1, <1>3 DEF LnbCalls
  <2>2. th[t].todo \in Seq(TuneOps) /\ th[t].todo # <<>>
    BY <2>1 DEF TuneCalls
  <2> HIDE DEF TuneOps
  <2> QED
    BY <2>1, <2>2, <1>3
<1> QED
  BY <1>2, <1>3

(* The whole of a satellite tuning: the synthesizer first, then a search. *)
LEMMA SatelliteTuning ==
    ASSUME type = "S", NEW f \in Questions
    PROVE  /\ bs_frequency(f.no) \in Seq(TuneOps)
           /\ bs_frequency(f.no) =
                <<WriteReg("pll1", f.no), WriteReg("pll2", f.no), WriteReg("pll3", f.no),
                  Poll("pll_lock", 0), WriteReg("restart", 0), Poll("tmcc", 0)>>
           /\ \E x \in Seq(SearchOps) :
                /\ x \in Seq(TuneOps)
                /\ SetFreq(f) = bs_frequency(f.no) \o
                        (x \o <<[do |-> "lock", reg |-> "none", val |-> f.slot]>>)
<1> DEFINE lock == [do |-> "lock", reg |-> "none", val |-> f.slot]
           try  == Local("try")
           x    == ReadAll \o <<try>>
           all  == bs_frequency(f.no)
<1>1. f.no \in Vals /\ f.no \in Nat /\ f.slot \in 0 .. Slots - 1
  BY DEF Questions, Vals, Channels
<1>2. lock \in TuneOps /\ try \in TuneOps /\ try \in SearchOps
  BY <1>1, PtxTuneAssumption DEF Local, TuneOps, Thoughts, SearchOps
<1>3. [Local("lock") EXCEPT !.val = f.slot] = lock
  BY DEF Local
<1>4. all \in Seq(TuneOps)
  <2>1. /\ \A r \in {"pll1", "pll2", "pll3"} : WriteReg(r, f.no) \in TuneOps
        /\ WriteReg("restart", 0) \in TuneOps
        /\ Poll("pll_lock", 0) \in TuneOps /\ Poll("tmcc", 0) \in TuneOps
    BY <1>1, WritesAreTuneOps DEF Vals
  <2> HIDE DEF TuneOps
  <2> QED
    BY <2>1 DEF bs_frequency
<1>5. ReadAll \in Seq(SearchOps) /\ ReadAll \in Seq(TuneOps)
  BY ReadAllIsSearch
<1>6. <<lock>> \in Seq(TuneOps) /\ <<try>> \in Seq(TuneOps) /\ <<try>> \in Seq(SearchOps)
  <2> HIDE DEF lock, try, TuneOps, SearchOps
  <2> QED
    BY <1>2
<1>7. x \in Seq(SearchOps) /\ x \in Seq(TuneOps)
  <2> HIDE DEF lock, try, TuneOps, SearchOps, ReadAll
  <2> QED
    BY <1>5, <1>6, ConcatProperties
<1>8. SetFreq(f) = ((all \o ReadAll) \o <<try>>) \o <<lock>>
  BY <1>3, Zenon DEF SetFreq, bs_tune, ReadAll, try
<1>9. ((all \o ReadAll) \o <<try>>) \o <<lock>> = all \o (x \o <<lock>>)
  <2> HIDE DEF lock, try, TuneOps, ReadAll, all
  <2>1. all \o ReadAll \in Seq(TuneOps)
    BY <1>4, <1>5, ConcatProperties
  <2>2. (all \o ReadAll) \o <<try>> = all \o x
    BY <1>4, <1>5, <1>6, ConcatAssociative
  <2> HIDE DEF x
  <2>3. (all \o x) \o <<lock>> = all \o (x \o <<lock>>)
    BY <1>4, <1>7, <1>6, ConcatAssociative
  <2> QED
    BY <2>2, <2>3
<1>10. bs_frequency(f.no) =
          <<WriteReg("pll1", f.no), WriteReg("pll2", f.no), WriteReg("pll3", f.no),
            Poll("pll_lock", 0), WriteReg("restart", 0), Poll("tmcc", 0)>>
  BY DEF bs_frequency
<1> HIDE DEF x, all
<1>11. SetFreq(f) = bs_frequency(f.no) \o (x \o <<lock>>)
  BY <1>8, <1>9 DEF all
<1> QED
  BY <1>4, <1>7, <1>10, <1>11, Zenon DEF all

(* SetFreq makes a list of steps a tuning may have to do.                    *)
LEMMA SetFreqIsSteps ==
    ASSUME TypeInv, NEW f \in Questions
    PROVE  SetFreq(f) \in Seq(TuneOps)
<1>1. CASE type = "S"
  <2>1. PICK x \in Seq(SearchOps) :
            /\ x \in Seq(TuneOps)
            /\ SetFreq(f) = bs_frequency(f.no) \o
                        (x \o <<[do |-> "lock", reg |-> "none", val |-> f.slot]>>)
    BY <1>1, SatelliteTuning
  <2>2. bs_frequency(f.no) \in Seq(TuneOps)
    BY <1>1, SatelliteTuning
  <2>3. [do |-> "lock", reg |-> "none", val |-> f.slot] \in TuneOps
    BY DEF Questions, TuneOps, Thoughts
  <2> HIDE DEF TuneOps
  <2>4. <<[do |-> "lock", reg |-> "none", val |-> f.slot]>> \in Seq(TuneOps)
    BY <2>3
  <2>5. x \o <<[do |-> "lock", reg |-> "none", val |-> f.slot]>> \in Seq(TuneOps)
    BY <2>1, <2>4, ConcatProperties
  <2> QED
    BY <2>1, <2>2, <2>5, ConcatProperties
<1>2. CASE type = "T"
  <2>1. /\ WriteReg("pll1", f) \in TuneOps /\ WriteReg("restart", 0) \in TuneOps
        /\ Poll("pll_lock", 0) \in TuneOps /\ Poll("tmcc", 0) \in TuneOps
    BY WritesAreTuneOps DEF Vals
  <2> HIDE DEF TuneOps
  <2> QED
    BY <1>2, <2>1 DEF SetFreq, isdb_t_frequency
<1> QED
  BY <1>1, <1>2 DEF TypeInv

(* A call that goes on with another list, or none. *)
LEMMA ListsAreKept ==
    ASSUME TypeInv, NEW t \in Threads, th[t].todo # <<>>, th[t].call # "lnb",
           NEW s \in Seq(TuneOps), NEW n \in Nat
    PROVE  /\ [th[t] EXCEPT !.todo = s] \in TuneCalls
           /\ [th[t] EXCEPT !.todo = s, !.n = n] \in TuneCalls
           /\ [th[t] EXCEPT !.n = n] \in TuneCalls
<1>1. th[t] \in TuneCalls
  BY Heads
<1> HIDE DEF TuneOps
<1> QED
  BY <1>1 DEF TuneCalls

LEMMA OutcomesAreTyped ==
    ASSUME TypeInv, NEW t \in Threads, th[t].todo # <<>>, th[t].call # "lnb",
           NEW op
    PROVE  Onward(t) \in TuneCalls /\ Again(t, op) \in TuneCalls
<1>1. th[t] \in TuneCalls /\ Tail(th[t].todo) \in Seq(TuneOps) /\ <<>> \in Seq(TuneOps)
  BY Heads
<1>2. th[t].n + 1 \in Nat
  BY <1>1 DEF TuneCalls
<1>3. Onward(t) \in TuneCalls
  BY <1>1, ListsAreKept DEF Onward
<1>4. [th[t] EXCEPT !.todo = <<>>, !.n = 0] \in TuneCalls
  BY <1>1, ListsAreKept
<1>5. [th[t] EXCEPT !.n = @ + 1] \in TuneCalls
  <2> HIDE DEF TuneOps
  <2> QED
    BY <1>1, <1>2 DEF TuneCalls
<1> QED
  BY <1>3, <1>4, <1>5, Zenon DEF Again

(* Identifiers that were read, or half of them. *)
LEMMA TakeIsTyped ==
    ASSUME TypeInv, NEW t \in Threads, th[t].todo # <<>>, th[t].call # "lnb",
           NEW op, op.val \in 0 .. Slots - 1, op.val + 1 \in 0 .. Slots - 1,
           NEW a \in Nat, NEW b \in Nat
    PROVE  TakeIds(t, op, <<a, b>>) \in TuneCalls
<1> DEFINE got == [th[t] EXCEPT !.ids[op.val] = a, !.ids[op.val + 1] = b]
<1>1. th[t] \in TuneCalls /\ Tail(th[t].todo) \in Seq(TuneOps)
  BY Heads
<1>2. got \in TuneCalls
  BY <1>1 DEF TuneCalls, Asking
<1>3. Again(t, op) \in TuneCalls
  BY OutcomesAreTyped
<1>4. Again(t, op).todo \in Seq(TuneOps) /\ Again(t, op).n \in Nat
  BY <1>3 DEF TuneCalls
<1>5. /\ [got EXCEPT !.todo = Tail(@), !.n = 0] \in TuneCalls
      /\ [got EXCEPT !.todo = Again(t, op).todo, !.n = Again(t, op).n] \in TuneCalls
  <2>1. Tail(got.todo) = Tail(th[t].todo)
    BY <1>1 DEF TuneCalls
  <2> HIDE DEF got, TuneOps, Again
  <2> QED
    BY <1>1, <1>2, <1>4, <2>1 DEF TuneCalls
<1>6. <<a, b>>[1] = a /\ <<a, b>>[2] = b
  OBVIOUS
<1>7. TakeIds(t, op, <<a, b>>) \in
        {[got EXCEPT !.todo = Tail(@), !.n = 0],
         [got EXCEPT !.todo = Again(t, op).todo, !.n = Again(t, op).n]}
  BY <1>6, Zenon DEF TakeIds
<1> QED
  BY <1>5, <1>7

(* A register is written. *)
LEMMA WriteIsTyped ==
    ASSUME TypeInv, NEW op \in Writes
    PROVE  LET new == IF op.reg = "restart" THEN [hw EXCEPT !.valid = FALSE]
                      ELSE [hw EXCEPT ![op.reg] = op.val]
           IN  new \in Registers /\ new.tmcc = hw.tmcc
<1>1. hw \in Registers
  BY DEF TypeInv
<1>2. op.reg \in {"pll1", "pll2", "pll3", "restart", "ts_set"} /\ op.val \in Vals
  BY DEF Writes
<1> HIDE DEF Vals
<1> QED
  BY <1>1, <1>2 DEF Registers

(* What a step of one thread leaves of the types. *)
LEMMA TypeOfStep ==
    ASSUME TypeInv, NEW t \in Threads, NEW new \in TuneCalls \cup LnbCalls,
           th' = [th EXCEPT ![t] = new]
    PROVE  th' \in [Threads -> TuneCalls \cup LnbCalls]
BY DEF TypeInv

LEMMA SetsStay ==
    ASSUME type' = type, cardtype' = cardtype
    PROVE  /\ TuneCalls' = TuneCalls /\ LnbCalls' = LnbCalls
           /\ Registers' = Registers /\ Questions' = Questions
           /\ TuneOps' = TuneOps
BY DEF TuneCalls, LnbCalls, Registers, Questions, TuneOps, Writes, Polls, Readings, Thoughts,
       Vals, Asking, Looks, Wholes, Halves, First, Second, Look, Pins, SetLnb, Channels

LEMMA WatchIsTyped ==
    ASSUME NEW t \in Threads, NEW well \in BOOLEAN, Watch(t, well), TypeInv
    PROVE  clean' \in [Threads -> BOOLEAN]
BY DEF Watch, TypeInv

LEMMA CallsAreTyped ==
    ASSUME TypeInv, NEW t \in Threads, Tune(t) \/ SwitchLnb(t) \/ Return(t)
    PROVE  TypeInv'
<1>1. NoCall \in TuneCalls
  <2>1. 0 \in Channels
    BY PtxTuneAssumption DEF Channels
  <2>2. NoCall.ask \in Questions /\ NoCall.ids \in Asking
    BY <2>1, PtxTuneAssumption DEF NoCall, Questions, Asking
  <2> QED
    BY <2>2 DEF NoCall, TuneCalls
<1>2. type' = type /\ cardtype' = cardtype
  BY DEF Tune, SwitchLnb, Return
<1>3. CASE Tune(t)
  <2>1. tunings' \in 0 .. MaxTunings /\ tunings' \in Channels
    BY <1>3, PtxTuneAssumption DEF TypeInv, Tune, Channels
  <2>2. freq' \in Questions
    BY <2>1, <1>3, PtxTuneAssumption DEF Tune, Questions
  <2> DEFINE new == [NoCall EXCEPT !.call = "tune", !.ask = freq', !.todo = <<Local("split")>>]
  <2>3. new \in TuneCalls
    <3>1. Local("split") \in TuneOps
      BY PtxTuneAssumption DEF Local, TuneOps, Thoughts
    <3> HIDE DEF TuneOps, NoCall
    <3>2. <<Local("split")>> \in Seq(TuneOps)
      BY <3>1
    <3>3. ASSUME NEW ask \in Questions, NEW s \in Seq(TuneOps)
          PROVE  [NoCall EXCEPT !.call = "tune", !.ask = ask, !.todo = s] \in TuneCalls
      BY <1>1 DEF TuneCalls
    <3> QED
      BY <2>2, <3>2, <3>3
  <2>4. th' \in [Threads -> TuneCalls \cup LnbCalls]
    <3>1. th' = [th EXCEPT ![t] = new]
      BY <1>3 DEF Tune
    <3> HIDE DEF new
    <3> QED
      BY <2>3, <3>1, TypeOfStep
  <2>5. clean' \in [Threads -> BOOLEAN]
    BY <1>3, WatchIsTyped DEF Tune
  <2> QED
    BY <1>2, <1>3, <2>1, <2>2, <2>4, <2>5, SetsStay DEF TypeInv, Tune, history
<1>4. CASE SwitchLnb(t)
  <2>1. PICK v \in 0 .. 3 :
            th' = [th EXCEPT ![t] = [NoCall EXCEPT !.call = "lnb",
                                    !.todo = <<[Local("lnb?") EXCEPT !.val = v]>>]]
    BY <1>4 DEF SwitchLnb
  <2>2. [Local("lnb?") EXCEPT !.val = v] = Look(v)
    BY LnbSteps
  <2>3. [NoCall EXCEPT !.call = "lnb", !.todo = <<Look(v)>>] \in LnbCalls
    <3> HIDE DEF NoCall
    <3> QED
      BY <1>1 DEF TuneCalls, LnbCalls, Looks
  <2>4. th' \in [Threads -> TuneCalls \cup LnbCalls]
    BY <2>1, <2>2, <2>3, TypeOfStep
  <2>5. switches' \in Nat
    BY <1>4 DEF SwitchLnb, TypeInv
  <2> QED
    BY <1>2, <1>4, <2>4, <2>5, SetsStay DEF TypeInv, SwitchLnb, driver, history
<1>5. CASE Return(t)
  <2>1. th' \in [Threads -> TuneCalls \cup LnbCalls]
    BY <1>5, <1>1, TypeOfStep DEF Return
  <2>2. clean' \in [Threads -> BOOLEAN]
    BY <1>5 DEF Return, TypeInv
  <2> QED
    BY <1>2, <1>5, <2>1, <2>2, SetsStay DEF TypeInv, Return, driver, counts, history
<1> QED
  BY <1>3, <1>4, <1>5

LEMMA LnbIsTyped ==
    ASSUME TypeInv, NEW t \in Threads, ChangeLnb(t)
    PROVE  TypeInv'
<1> DEFINE op == Head(th[t].todo)
<1>1. th[t].todo # <<>> /\ type' = type /\ cardtype' = cardtype
  BY DEF ChangeLnb
<1>2. op.do \in {"lnb?", "pins", "set_lnb"}
  BY DEF ChangeLnb, TestLnb, SetOne
<1>3. th[t].call = "lnb" /\ th[t] \in LnbCalls
  <2>1. \A o \in TuneOps : o.do \notin {"lnb?", "pins", "set_lnb"}
    BY DEF TuneOps, Writes, Polls, Thoughts, Readings
  <2> HIDE DEF TuneOps
  <2> QED
    BY <1>1, <1>2, <2>1, Heads
<1>4. ASSUME NEW s \in {<<>>} \cup Looks \cup Wholes \cup Halves
      PROVE  [th[t] EXCEPT !.todo = s] \in LnbCalls
  BY <1>3 DEF LnbCalls
<1>5. CASE TestLnb(t, op)
  <2>1. PICK v \in 0 .. 3 : th[t].todo = <<Look(v)>>
    BY <1>1, <1>2, <1>3, <1>5, Heads
       DEF TestLnb, Looks, Wholes, Halves, First, Second, Pins, SetLnb
  <2>2. op = Look(v) /\ op.val = v
    BY <2>1 DEF Look
  <2>3. CASE op.val # lnb /\ op.val <= 2
    <3>1. v \in 0 .. 2 /\ SetBoth(op) = <<First(v), Second(v)>>
      BY <2>2, <2>3, LnbSteps
    <3>2. SetBoth(op) \in Wholes
      BY <3>1 DEF Wholes
    <3>3. th' = [th EXCEPT ![t] = [th[t] EXCEPT !.todo = SetBoth(op)]]
      BY <1>5, <2>3 DEF TestLnb, Go, TypeInv
    <3>4. th' \in [Threads -> TuneCalls \cup LnbCalls]
      BY <3>2, <3>3, <1>4, TypeOfStep
    <3>5. mixed' \in BOOLEAN /\ agreed' \in BOOLEAN /\ lnb' = lnb
      BY <1>5, <2>3 DEF TestLnb
    <3> QED
      BY <1>1, <3>4, <3>5, SetsStay DEF ChangeLnb, TypeInv, counts
  <2>4. CASE ~ (op.val # lnb /\ op.val <= 2)
    <3>1. th' = [th EXCEPT ![t] = [th[t] EXCEPT !.todo = <<>>]] /\ UNCHANGED history /\ lnb' = lnb
      BY <1>5, <2>4 DEF TestLnb, Go, TypeInv
    <3>2. th' \in [Threads -> TuneCalls \cup LnbCalls]
      BY <3>1, <1>4, TypeOfStep
    <3> QED
      BY <1>1, <3>1, <3>2, SetsStay DEF ChangeLnb, TypeInv, counts, history
  <2> QED
    BY <2>3, <2>4
<1>6. CASE SetOne(t, op)
  <2>1. op.do \in {"pins", "set_lnb"}
    BY <1>6 DEF SetOne
  <2>2. PICK v \in 0 .. 2 : th[t].todo \in {<<First(v), Second(v)>>, <<Second(v)>>}
    BY <1>1, <1>3, <2>1, Heads DEF Looks, Wholes, Halves, Look
  <2>3. /\ Tail(th[t].todo) \in {<<>>} \cup Halves
        /\ op.val = v
    <3>1. CASE th[t].todo = <<First(v), Second(v)>>
      <4>1. op = First(v) /\ Tail(th[t].todo) = <<Second(v)>>
        BY <3>1
      <4> QED
        BY <4>1 DEF Halves, First, Pins, SetLnb
    <3>2. CASE th[t].todo = <<Second(v)>>
      <4>1. op = Second(v) /\ Tail(th[t].todo) = <<>>
        BY <3>2
      <4> QED
        BY <4>1 DEF Second, Pins, SetLnb
    <3> QED
      BY <2>2, <3>1, <3>2
  <2>4. th' = [th EXCEPT ![t] = [th[t] EXCEPT !.todo = Tail(th[t].todo)]]
    BY <1>6 DEF SetOne, Go, TypeInv
  <2>5. th' \in [Threads -> TuneCalls \cup LnbCalls]
    BY <2>3, <2>4, <1>4, TypeOfStep
  <2>6. lnb' \in 0 .. 2 /\ agreed' \in BOOLEAN /\ mixed' = mixed
    BY <1>6, <2>3 DEF SetOne, TypeInv
  <2> QED
    BY <1>1, <2>5, <2>6, SetsStay DEF ChangeLnb, TypeInv, counts
<1> QED
  BY <1>5, <1>6 DEF ChangeLnb

LEMMA ThoughtsAreTyped ==
    ASSUME TypeInv, NEW t \in Threads, Think(t)
    PROVE  TypeInv'
<1> DEFINE op == Head(th[t].todo)
           rest == Tail(th[t].todo)
<1>1. th[t].todo # <<>> /\ type' = type /\ cardtype' = cardtype
  BY DEF Think
<1>2. op.do \in {"split", "try", "lock"}
  BY DEF Think
<1>3. th[t].call # "lnb"
  BY <1>1, <1>2, Heads
<1>4. th[t] \in TuneCalls /\ op \in TuneOps /\ rest \in Seq(TuneOps)
  BY <1>1, <1>3, Heads
<1>5. th[t].ids \in Asking
  BY <1>4 DEF TuneCalls
<1>6. ASSUME NEW s \in Seq(TuneOps), Go(t, s \o rest)
      PROVE  TypeInv'
  <2>1. s \o rest \in Seq(TuneOps)
    BY <1>4, ConcatProperties
  <2>2. [th[t] EXCEPT !.todo = s \o rest] \in TuneCalls
    BY <1>1, <1>3, <2>1, ListsAreKept, 0 \in Nat
  <2>3. th' = [th EXCEPT ![t] = [th[t] EXCEPT !.todo = s \o rest]]
    BY <1>6 DEF Go, TypeInv
  <2>4. th' \in [Threads -> TuneCalls \cup LnbCalls]
    BY <2>2, <2>3, TypeOfStep
  <2> QED
    BY <1>1, <2>4, SetsStay DEF Think, TypeInv, driver, counts, history
<1>7. SetFreq(freq) \in Seq(TuneOps)
  BY SetFreqIsSteps DEF TypeInv
<1>8. Trials(t) \in Seq(TuneOps)
  BY <1>5, TrialsAreSteps
<1>9. ASSUME op.do = "lock"
      PROVE  ts_lock(th[t].ids[op.val]) \in Seq(TuneOps)
  <2>1. op.val \in 0 .. Slots - 1
    BY <1>4, <1>9 DEF TuneOps, Writes, Polls, Thoughts, Readings
  <2>2. th[t].ids[op.val] \in Nat
    BY <1>5, <2>1 DEF Asking
  <2>3. ASSUME NEW id \in Nat
        PROVE  WriteReg("ts_set", id) \in TuneOps /\ Poll("ts_lock", id) \in TuneOps
    BY WritesAreTuneOps DEF Vals
  <2> HIDE DEF TuneOps
  <2> QED
    BY <2>2, <2>3 DEF ts_lock
<1> QED
  BY <1>6, <1>7, <1>8, <1>9 DEF Think

LEMMA TransferredIsTyped ==
    ASSUME TypeInv, NEW t \in Threads, NEW new \in TuneCalls, NEW well \in BOOLEAN,
           Transferred(t, new, well),
           hw' \in Registers, hw'.tmcc = hw.tmcc, errors' \in Nat
    PROVE  TypeInv'
<1>1. type' = type /\ cardtype' = cardtype
  BY DEF Transferred
<1>2. th' \in [Threads -> TuneCalls \cup LnbCalls]
  BY TypeOfStep DEF Transferred
<1>3. clean' \in [Threads -> BOOLEAN]
  BY WatchIsTyped DEF Transferred
<1> QED
  BY <1>1, <1>2, <1>3, SetsStay DEF Transferred, TypeInv, driver, history

(* Identifiers are numbers. *)
LEMMA TsIdIsNat ==
    ASSUME NEW c \in Nat, NEW slot \in Nat
    PROVE  TsId(c, slot) \in Nat
BY DEF TsId, NoTsId

LEMMA TransfersAreTyped ==
    ASSUME TypeInv, NEW t \in Threads, Transfer(t)
    PROVE  TypeInv'
<1> DEFINE op == Head(th[t].todo)
<1>1. th[t].todo # <<>>
  BY DEF Transfer
<1>2. op.do \in {"write", "pll_lock", "tmcc", "ts_lock", "ts_id"}
  BY DEF Transfer, Arrive, Lose, Ask, Misread, ReadIds, MisreadIds
<1>3. th[t].call # "lnb"
  BY <1>1, <1>2, Heads
<1>4. th[t] \in TuneCalls /\ op \in TuneOps
  BY <1>1, <1>3, Heads
<1>5. Onward(t) \in TuneCalls /\ Again(t, op) \in TuneCalls
  BY <1>1, <1>3, OutcomesAreTyped
<1>6. hw \in Registers /\ errors \in Nat
  BY DEF TypeInv
<1> HIDE DEF op
<1>7. CASE Arrive(t, op)
  <2>1. op \in Writes
    BY <1>4, <1>7 DEF Arrive, TuneOps, Polls, Thoughts, Readings
  <2>2. hw' \in Registers /\ hw'.tmcc = hw.tmcc
    BY <1>7, <2>1, WriteIsTyped DEF Arrive
  <2> QED
    BY <1>5, <1>6, <1>7, <2>2, TransferredIsTyped DEF Arrive
<1>8. CASE Lose(t, op)
  <2>1. errors' \in Nat /\ hw' = hw
    BY <1>6, <1>8 DEF Lose
  <2>2. Transferred(t, Onward(t), FALSE)
    BY <1>8 DEF Lose
  <2> QED
    BY <1>5, <1>6, <2>1, <2>2, TransferredIsTyped
<1>9. CASE Ask(t, op)
  <2>1. GoesOn(t, op) \in BOOLEAN
    BY DEF GoesOn
  <2> QED
    BY <1>5, <1>6, <1>9, <2>1, TransferredIsTyped DEF Ask
<1>10. CASE Misread(t, op)
  <2>1. errors' \in Nat /\ hw' = hw
    BY <1>6, <1>10 DEF Misread
  <2>2. Transferred(t, Onward(t), FALSE) \/ Transferred(t, Again(t, op), FALSE)
    BY <1>10 DEF Misread
  <2> QED
    BY <1>5, <1>6, <2>1, <2>2, TransferredIsTyped
<1>11. ASSUME op.do = "ts_id", NEW a \in Nat, NEW b \in Nat
       PROVE  TakeIds(t, op, <<a, b>>) \in TuneCalls
  <2>1. op.val \in 0 .. Slots - 1 /\ op.val + 1 \in 0 .. Slots - 1
    BY <1>4, <1>11 DEF TuneOps, Writes, Polls, Thoughts, Readings
  <2> QED
    BY <1>1, <1>3, <2>1, TakeIsTyped
<1>12. CASE ReadIds(t, op)
  <2>1. op.val \in Nat /\ op.val + 1 \in Nat /\ type = "S"
    BY <1>4, <1>12, PtxTuneAssumption
       DEF ReadIds, TuneOps, Writes, Polls, Thoughts, Readings, TypeInv
  <2>2. Signal \subseteq Nat
    BY <2>1 DEF Signal, TypeInv
  <2>3. PICK pair \in {<<0, 0>>} \cup {Both(c, op.val) : c \in Signal} :
              Transferred(t, TakeIds(t, op, pair), TRUE)
    BY <1>12 DEF ReadIds
  <2>4. \E a, b \in Nat : pair = <<a, b>>
    <3>1. CASE pair = <<0, 0>>
      BY <3>1
    <3>2. CASE pair \in {Both(c, op.val) : c \in Signal}
      <4>1. PICK c \in Nat : pair = Both(c, op.val)
        BY <2>2, <3>2
      <4>2. TsId(c, op.val) \in Nat /\ TsId(c, op.val + 1) \in Nat
        BY <2>1, TsIdIsNat
      <4> QED
        BY <4>1, <4>2 DEF Both
    <3> QED
      BY <2>3, <3>1, <3>2
  <2>5. TakeIds(t, op, pair) \in TuneCalls
    BY <1>11, <1>12, <2>4 DEF ReadIds
  <2> QED
    BY <1>6, <1>12, <2>3, <2>5, TransferredIsTyped DEF ReadIds
<1>13. CASE MisreadIds(t, op)
  <2>1. PICK pair \in {0, TsId(0, 0)} \X {NoTsId, TsId(0, 0)} :
              Transferred(t, TakeIds(t, op, pair), FALSE)
    BY <1>13 DEF MisreadIds
  <2>2. TsId(0, 0) \in Nat /\ NoTsId \in Nat
    BY TsIdIsNat DEF NoTsId
  <2>3. \E a, b \in Nat : pair = <<a, b>>
    BY <2>1, <2>2
  <2>4. TakeIds(t, op, pair) \in TuneCalls
    BY <1>11, <1>13, <2>3 DEF MisreadIds
  <2>5. errors' \in Nat /\ hw' = hw
    BY <1>6, <1>13 DEF MisreadIds
  <2> QED
    BY <1>6, <2>1, <2>4, <2>5, TransferredIsTyped
<1> QED
  BY <1>7, <1>8, <1>9, <1>10, <1>12, <1>13 DEF Transfer, op

LEMMA DemodulatorIsTyped ==
    ASSUME TypeInv, Demodulate
    PROVE  TypeInv'
<1>1. hw \in Registers /\ type' = type /\ cardtype' = cardtype
  BY DEF TypeInv, Demodulate
<1>2. \A c \in Frequencies : c \in Vals /\ (type = "S" => c \in Nat)
  BY DEF Frequencies, Vals, Questions, Channels, TypeInv
<1>3. hw' \in Registers /\ (type = "S" => hw'.tmcc \in Nat)
  <2> HIDE DEF Vals
  <2> QED
    BY <1>1, <1>2 DEF Demodulate, Follow, Switch, Registers, TypeInv
<1> QED
  BY <1>1, <1>3, SetsStay DEF Demodulate, TypeInv, driver, counts, history

(* Every step keeps the types, and in every list the steps of its call       *)
(* (SetFreq, sysctl_lnb).                                                    *)
THEOREM TypeIsPreserved ==
    /\ TuneInit => TypeInv
    /\ TypeInv /\ [TuneNext]_tuneVars => TypeInv'
<1>1. ASSUME TuneInit
      PROVE  TypeInv
  <2>1. 0 \in Channels /\ 0 \in 0 .. Slots - 1
    BY PtxTuneAssumption DEF Channels
  <2>2. freq \in Questions /\ freq = [no |-> 0, slot |-> 0]
    BY <1>1, <2>1 DEF TuneInit, Questions
  <2>3. NoCall \in TuneCalls
    <3>1. NoCall.ask \in Questions /\ NoCall.ids \in Asking
      BY <2>1, PtxTuneAssumption DEF NoCall, Questions, Asking
    <3> QED
      BY <3>1 DEF NoCall, TuneCalls
  <2>4. th \in [Threads -> TuneCalls \cup LnbCalls]
    BY <1>1, <2>3 DEF TuneInit
  <2>5. hw \in Registers /\ (type = "S" => hw.tmcc \in Nat)
    BY <1>1, <2>2 DEF TuneInit, Registers, Vals
  <2>6. clean \in [Threads -> BOOLEAN]
    BY <1>1 DEF TuneInit
  <2>7. tunings \in 0 .. MaxTunings /\ switches \in Nat /\ errors \in Nat /\ lnb \in 0 .. 2
    BY <1>1, PtxTuneAssumption DEF TuneInit
  <2>8. /\ type \in {"S", "T"} /\ cardtype \in {"PT1", "PT2", "PT3"}
        /\ mixed \in BOOLEAN /\ agreed \in BOOLEAN
    BY <1>1 DEF TuneInit
  <2> QED
    BY <2>2, <2>4, <2>5, <2>6, <2>7, <2>8, Zenon DEF TypeInv
<1>2. ASSUME TypeInv, UNCHANGED tuneVars
      PROVE  TypeInv'
  BY <1>2, SetsStay DEF TypeInv, tuneVars, driver, counts, history
<1>3. ASSUME TypeInv, TuneNext
      PROVE  TypeInv'
  BY <1>3, CallsAreTyped, LnbIsTyped, ThoughtsAreTyped, TransfersAreTyped,
     DemodulatorIsTyped DEF TuneNext
<1> QED
  BY <1>1, <1>2, <1>3

-----------------------------------------------------------------------------
(* The antenna agrees.                                                       *)

Sets(u) == th[u].call = "lnb" /\ th[u].todo \in Wholes \cup Halves

LEMMA ListsThatSet ==
    ASSUME NEW h \in TuneCalls \cup LnbCalls
    PROVE  h.call = "lnb" /\ h.todo \in Wholes \cup Halves
           <=> \E i \in DOMAIN h.todo : h.todo[i].do \in {"pins", "set_lnb"}
<1>1. CASE h.call = "lnb"
  <2>1. h.todo \in {<<>>} \cup Looks \cup Wholes \cup Halves
    BY <1>1 DEF TuneCalls, LnbCalls
  <2>2. CASE h.todo \in Wholes \cup Halves
    <3>1. 1 \in DOMAIN h.todo /\ h.todo[1].do \in {"pins", "set_lnb"}
      BY <2>2 DEF Wholes, Halves, First, Second, Pins, SetLnb
    <3> QED
      BY <3>1, <2>2, <1>1
  <2>3. CASE h.todo = <<>>
    BY <2>3 DEF Wholes, Halves
  <2>4. CASE h.todo \in Looks
    <3>1. \A i \in DOMAIN h.todo : h.todo[i].do = "lnb?"
      BY <2>4 DEF Looks, Look
    <3>2. h.todo \notin Wholes \cup Halves
      BY <2>4 DEF Looks, Wholes, Halves, First, Second, Look, Pins, SetLnb
    <3> QED
      BY <3>1, <3>2
  <2> QED
    BY <2>1, <2>2, <2>3, <2>4
<1>2. CASE h.call # "lnb"
  <2>1. h.todo \in Seq(TuneOps)
    BY <1>2 DEF TuneCalls, LnbCalls
  <2>2. \A o \in TuneOps : o.do \notin {"lnb?", "pins", "set_lnb"}
    BY DEF TuneOps, Writes, Polls, Thoughts, Readings
  <2>3. \A i \in DOMAIN h.todo : h.todo[i] \in TuneOps
    <3> HIDE DEF TuneOps
    <3> QED
      BY <2>1
  <2> HIDE DEF TuneOps
  <2> QED
    BY <1>2, <2>2, <2>3
<1> QED
  BY <1>1, <1>2

(* Whoever still has something to set is in a call of sysctl_lnb. *)
LEMMA SwitchersSet ==
    ASSUME TypeInv
    PROVE  Switchers = {u \in Threads : Sets(u)}
<1>1. \A u \in Threads : th[u] \in TuneCalls \cup LnbCalls
  BY DEF TypeInv
<1> HIDE DEF TuneCalls, LnbCalls, Wholes, Halves
<1> QED
  BY <1>1, ListsThatSet DEF Switchers, Sets

LEMMA SwitchersSetNext ==
    ASSUME TypeInv', type' = type, cardtype' = cardtype
    PROVE  Switchers' = {u \in Threads : Sets(u)'}
<1>1. \A u \in Threads : th'[u] \in TuneCalls \cup LnbCalls
  BY SetsStay DEF TypeInv
<1>2. Wholes' = Wholes /\ Halves' = Halves
  BY DEF Wholes, Halves, First, Second, Pins, SetLnb
<1> HIDE DEF TuneCalls, LnbCalls, Wholes, Halves
<1> QED
  BY <1>1, <1>2, ListsThatSet DEF Switchers, Sets

(* What the calls do with their lists does not turn one into another. *)
LEMMA OutcomesKeepTheCall ==
    ASSUME NEW t \in Threads, NEW op
    PROVE  /\ Onward(t).call = th[t].call /\ Onward(t).ask = th[t].ask
           /\ Again(t, op).call = th[t].call /\ Again(t, op).ask = th[t].ask
           /\ Onward(t).ids = th[t].ids /\ Again(t, op).ids = th[t].ids
           /\ \A pair : /\ TakeIds(t, op, pair).call = th[t].call
                        /\ TakeIds(t, op, pair).ask = th[t].ask
BY DEF Onward, Again, TakeIds

(* Lists of one step and of two, for other values. *)
LEMMA ListsDiffer ==
    ASSUME NEW v \in 0 .. 2, NEW w \in 0 .. 2
    PROVE  /\ <<Second(v)>> = <<Second(w)>> => v = w
           /\ <<First(v), Second(v)>> # <<Second(w)>>
           /\ <<First(v), Second(v)>> # <<>> /\ <<Second(v)>> # <<>>
BY DEF First, Second, Pins, SetLnb

(* A step that switches nothing. *)
LEMMA OthersKeepLnb ==
    ASSUME TypeInv, TypeInv', LnbInv,
           type' = type, cardtype' = cardtype, lnb' = lnb, pins' = pins, history' = history,
           \A u \in Threads : Sets(u)' => Sets(u) /\ th'[u].todo = th[u].todo
    PROVE  LnbInv'
<1>1. Switchers' \subseteq Switchers
  BY SwitchersSet, SwitchersSetNext
<1>2. \A v : settuner_reset(v)' = settuner_reset(v)
  BY DEF settuner_reset, LnbPins, TunerPins
<1>3. \A v \in 0 .. 2 : Second(v)' = Second(v) /\ First(v)' = First(v)
  BY DEF First, Second, Pins, SetLnb
<1>4. ASSUME NEW u \in Threads, NEW v \in 0 .. 2,
             th'[u].call = "lnb", th'[u].todo = <<Second(v)>>
      PROVE  th[u].call = "lnb" /\ th[u].todo = <<Second(v)>>
  <2>1. Sets(u)'
    BY <1>3, <1>4 DEF Sets, Halves
  <2> QED
    BY <2>1, <1>4 DEF Sets
<1>5. (\E v \in 0 .. 2 : pins = settuner_reset(v))'
  BY <1>2 DEF LnbInv
<1>6. (agreed => Switchers = {} /\ pins = settuner_reset(lnb))'
  BY <1>1, <1>2 DEF LnbInv, history
<1>7. (~ mixed => \A t, u \in Switchers : t = u)'
  BY <1>1 DEF LnbInv, history
<1>8. (~ mixed => \A t \in Threads : \A v \in 0 .. 2 :
          th[t].call = "lnb" /\ th[t].todo = <<Second(v)>> =>
              IF cardtype = "PT3" THEN lnb = v ELSE pins = settuner_reset(v))'
  BY <1>2, <1>3, <1>4 DEF LnbInv, history
<1> QED
  BY <1>5, <1>6, <1>7, <1>8 DEF LnbInv

(* A thread that switches nothing afterwards, the others being left alone. *)
LEMMA OthersKeepLists ==
    ASSUME TypeInv, NEW t \in Threads, NEW new, th' = [th EXCEPT ![t] = new],
           cardtype' = cardtype,
           new.call # "lnb" \/ new.todo \in {<<>>} \cup Looks
    PROVE  \A u \in Threads : Sets(u)' => Sets(u) /\ th'[u].todo = th[u].todo
<1> SUFFICES ASSUME NEW u \in Threads, Sets(u)'
             PROVE  Sets(u) /\ th'[u].todo = th[u].todo
  OBVIOUS
<1>1. Wholes' = Wholes /\ Halves' = Halves
  BY DEF Wholes, Halves, First, Second, Pins, SetLnb
<1>2. CASE u = t
  <2>1. th'[u] = new
    BY <1>2 DEF TypeInv
  <2>2. new.call = "lnb" /\ new.todo \in Wholes \cup Halves
    BY <2>1, <1>1 DEF Sets
  <2> QED
    BY <2>2, SMTT(60) DEF Wholes, Halves, Looks, First, Second, Look, Pins, SetLnb
<1>3. CASE u # t
  <2>1. th'[u] = th[u]
    BY <1>3 DEF TypeInv
  <2> QED
    BY <2>1, <1>1 DEF Sets
<1> QED
  BY <1>2, <1>3

(* A step of a switching keeps what is claimed of the supply.                *)
LEMMA SwitchingKeepsLnb ==
    ASSUME TypeInv, TypeInv', LnbInv, NEW t \in Threads, ChangeLnb(t)
    PROVE  LnbInv'
<1> DEFINE op == Head(th[t].todo)
<1>1. th[t].todo # <<>> /\ type' = type /\ cardtype' = cardtype
  BY DEF ChangeLnb
<1>2. op.do \in {"lnb?", "pins", "set_lnb"}
  BY DEF ChangeLnb, TestLnb, SetOne
<1>3. th[t].call = "lnb" /\ th[t].todo \in Looks \cup Wholes \cup Halves
  <2>1. \A o \in TuneOps : o.do \notin {"lnb?", "pins", "set_lnb"}
    BY DEF TuneOps, Writes, Polls, Thoughts, Readings
  <2> HIDE DEF TuneOps
  <2> QED
    BY <1>1, <1>2, <2>1, Heads
<1>4. \A v : settuner_reset(v)' = settuner_reset(v)
  BY <1>1 DEF settuner_reset, LnbPins, TunerPins
<1>5. \A v \in 0 .. 2 : Second(v)' = Second(v) /\ First(v)' = First(v)
  BY <1>1 DEF First, Second, Pins, SetLnb
<1>6. Switchers = {u \in Threads : Sets(u)} /\ Switchers' = {u \in Threads : Sets(u)'}
  BY <1>1, SwitchersSet, SwitchersSetNext
<1>7. ASSUME NEW s, th' = [th EXCEPT ![t] = [th[t] EXCEPT !.todo = s]]
      PROVE  /\ th'[t].todo = s /\ th'[t].call = "lnb"
             /\ \A u \in Threads \ {t} : th'[u] = th[u] /\ (Sets(u)' <=> Sets(u))
             /\ Sets(t)' <=> s \in Wholes \cup Halves
  <2>1. th'[t] = [th[t] EXCEPT !.todo = s] /\ \A u \in Threads \ {t} : th'[u] = th[u]
    BY <1>7 DEF TypeInv
  <2>2. th[t] \in LnbCalls
    BY <1>1, <1>3, Heads
  <2>3. th'[t].todo = s /\ th'[t].call = "lnb"
    BY <2>1, <2>2, <1>3 DEF LnbCalls
  <2>4. Wholes' = Wholes /\ Halves' = Halves
    BY <1>1 DEF Wholes, Halves, First, Second, Pins, SetLnb
  <2> QED
    BY <2>1, <2>3, <2>4 DEF Sets
<1>8. CASE TestLnb(t, op)
  <2>1. PICK v \in 0 .. 3 : th[t].todo = <<Look(v)>>
    BY <1>1, <1>2, <1>3, <1>8
       DEF TestLnb, Looks, Wholes, Halves, First, Second, Pins, SetLnb
  <2>2. op = Look(v) /\ op.val = v
    BY <2>1 DEF Look
  <2>3. CASE op.val # lnb /\ op.val <= 2
    <3>1. v \in 0 .. 2 /\ SetBoth(op) = <<First(v), Second(v)>>
      BY <2>2, <2>3, LnbSteps
    <3>2. th' = [th EXCEPT ![t] = [th[t] EXCEPT !.todo = <<First(v), Second(v)>>]]
      BY <3>1, <1>8, <2>3 DEF TestLnb, Go, TypeInv
    <3>3. /\ th'[t].todo = <<First(v), Second(v)>> /\ th'[t].call = "lnb"
          /\ \A u \in Threads \ {t} : th'[u] = th[u] /\ (Sets(u)' <=> Sets(u))
          /\ Sets(t)'
      BY <3>1, <3>2, <1>7 DEF Wholes
    <3>4. /\ mixed' = (Switchers # {}) /\ agreed' = FALSE /\ lnb' = lnb /\ pins' = pins
      BY <1>8, <2>3 DEF TestLnb
    <3>5. ~ mixed' => Switchers' = {t}
      BY <3>3, <3>4, <1>6
    <3>6. ASSUME ~ mixed', NEW u \in Threads, NEW w \in 0 .. 2,
                 th'[u].call = "lnb", th'[u].todo = <<Second(w)>>
          PROVE  FALSE
      <4>1. Sets(u)'
        BY <1>5, <3>6 DEF Sets, Halves
      <4>2. u = t
        BY <4>1, <3>5, <3>6, <1>6
      <4> QED
        BY <4>2, <3>1, <3>3, <3>6, ListsDiffer
    <3>7. (\E w \in 0 .. 2 : pins = settuner_reset(w))'
      BY <1>4, <3>4 DEF LnbInv
    <3>8. (~ mixed => \A s, u \in Switchers : s = u)'
      BY <3>5
    <3>9. (~ mixed => \A u \in Threads : \A w \in 0 .. 2 :
              th[u].call = "lnb" /\ th[u].todo = <<Second(w)>> =>
                  IF cardtype = "PT3" THEN lnb = w ELSE pins = settuner_reset(w))'
      BY <3>6, <1>5
    <3> QED
      BY <3>4, <3>7, <3>8, <3>9 DEF LnbInv
  <2>4. CASE ~ (op.val # lnb /\ op.val <= 2)
    <3>1. /\ th' = [th EXCEPT ![t] = [th[t] EXCEPT !.todo = <<>>]]
          /\ UNCHANGED history /\ lnb' = lnb /\ pins' = pins
      BY <1>8, <2>4 DEF TestLnb, Go, TypeInv
    <3>2. \A u \in Threads : Sets(u)' => Sets(u) /\ th'[u].todo = th[u].todo
      <4>1. <<>> \notin Wholes \cup Halves
        BY DEF Wholes, Halves
      <4> QED
        BY <3>1, <4>1, <1>7
    <3> QED
      BY <1>1, <3>1, <3>2, OthersKeepLnb
  <2> QED
    BY <2>3, <2>4
<1>9. CASE SetOne(t, op)
  <2>1. op.do \in {"pins", "set_lnb"}
    BY <1>9 DEF SetOne
  <2>2. PICK v \in 0 .. 2 : th[t].todo \in {<<First(v), Second(v)>>, <<Second(v)>>}
    BY <1>1, <1>3, <2>1 DEF Looks, Wholes, Halves, Look
  <2>3. th' = [th EXCEPT ![t] = [th[t] EXCEPT !.todo = Tail(th[t].todo)]] /\ mixed' = mixed
    BY <1>9 DEF SetOne, Go, TypeInv
  <2>4. Sets(t)
    BY <2>2, <1>3 DEF Sets, Wholes, Halves
  <2>5. ~ mixed => Switchers = {t}
    BY <2>4, <1>6 DEF LnbInv
  <2>6. CASE th[t].todo = <<First(v), Second(v)>>
    <3>1. op = First(v) /\ Tail(th[t].todo) = <<Second(v)>> /\ Len(th[t].todo) = 2
      BY <2>6
    <3>2. /\ th'[t].todo = <<Second(v)>> /\ th'[t].call = "lnb"
          /\ \A u \in Threads \ {t} : th'[u] = th[u] /\ (Sets(u)' <=> Sets(u))
          /\ Sets(t)'
      BY <3>1, <2>3, <1>7 DEF Halves
    <3>3. Switchers' = Switchers /\ agreed' = FALSE
      <4>1. \A u \in Threads : Sets(u)' <=> Sets(u)
        BY <2>4, <3>2
      <4>2. Switchers' = Switchers
        <5> HIDE DEF Sets
        <5> QED
          BY <4>1, <1>6
      <4>3. agreed' = (Len(th[t].todo) = 1 /\ Switchers = {t} /\ ~ mixed)
        BY <1>9 DEF SetOne
      <4>4. Len(th[t].todo) # 1
        BY <3>1
      <4> QED
        BY <4>2, <4>3, <4>4, Zenon
    <3>4. IF cardtype = "PT3" THEN lnb' = v /\ pins' = pins
          ELSE pins' = settuner_reset(v) /\ lnb' = lnb
      BY <3>1, <1>9 DEF SetOne, First, Pins, SetLnb
    <3>5. ASSUME ~ mixed, NEW u \in Threads, NEW w \in 0 .. 2,
                 th'[u].call = "lnb", th'[u].todo = <<Second(w)>>
          PROVE  u = t /\ w = v
      <4>1. Sets(u)'
        BY <1>5, <3>5 DEF Sets, Halves
      <4>2. u = t
        BY <4>1, <2>5, <3>3, <3>5, <1>6
      <4> QED
        BY <4>2, <3>2, <3>5, ListsDiffer
    <3>6. (\E w \in 0 .. 2 : pins = settuner_reset(w))'
      BY <1>4, <3>4 DEF LnbInv
    <3>7. (~ mixed => \A s, u \in Switchers : s = u)'
      BY <2>3, <3>3 DEF LnbInv
    <3>8. (~ mixed => \A u \in Threads : \A w \in 0 .. 2 :
              th[u].call = "lnb" /\ th[u].todo = <<Second(w)>> =>
                  IF cardtype = "PT3" THEN lnb = w ELSE pins = settuner_reset(w))'
      BY <3>4, <3>5, <2>3, <1>1, <1>4, <1>5
    <3> QED
      BY <3>3, <3>6, <3>7, <3>8 DEF LnbInv
  <2>7. CASE th[t].todo = <<Second(v)>>
    <3>1. op = Second(v) /\ Tail(th[t].todo) = <<>> /\ Len(th[t].todo) = 1
      BY <2>7
    <3>2. /\ th'[t].todo = <<>>
          /\ \A u \in Threads \ {t} : th'[u] = th[u] /\ (Sets(u)' <=> Sets(u))
          /\ ~ Sets(t)'
      <4>1. <<>> \notin Wholes \cup Halves
        BY DEF Wholes, Halves
      <4> QED
        BY <3>1, <4>1, <2>3, <1>7
    <3>3. Switchers' = Switchers \ {t} /\ agreed' = (Switchers = {t} /\ ~ mixed)
      BY <3>1, <3>2, <1>6, <1>9 DEF SetOne
    <3>4. IF cardtype = "PT3" THEN pins' = settuner_reset(v) /\ lnb' = lnb
          ELSE lnb' = v /\ pins' = pins
      BY <3>1, <1>9 DEF SetOne, Second, Pins, SetLnb
    <3>5. ~ mixed => Switchers' = {} /\ lnb' = v /\ pins' = settuner_reset(v)
      BY <3>3, <3>4, <2>5, <2>7, <1>3 DEF LnbInv
    <3>6. ASSUME ~ mixed, NEW u \in Threads, NEW w \in 0 .. 2,
                 th'[u].call = "lnb", th'[u].todo = <<Second(w)>>
          PROVE  FALSE
      <4>1. Sets(u)'
        BY <1>5, <3>6 DEF Sets, Halves
      <4> QED
        BY <4>1, <3>5, <3>6, <1>6
    <3>7. (\E w \in 0 .. 2 : pins = settuner_reset(w))'
      BY <1>4, <3>4 DEF LnbInv
    <3>8. (agreed => Switchers = {} /\ pins = settuner_reset(lnb))'
      BY <3>3, <3>5, <1>4
    <3>9. (~ mixed => \A s, u \in Switchers : s = u)'
      BY <2>3, <3>5
    <3>10. (~ mixed => \A u \in Threads : \A w \in 0 .. 2 :
              th[u].call = "lnb" /\ th[u].todo = <<Second(w)>> =>
                  IF cardtype = "PT3" THEN lnb = w ELSE pins = settuner_reset(w))'
      BY <3>6, <2>3, <1>5
    <3> QED
      BY <3>7, <3>8, <3>9, <3>10 DEF LnbInv
  <2> QED
    BY <2>2, <2>6, <2>7
<1> QED
  BY <1>8, <1>9 DEF ChangeLnb

(* Whatever else is done, a call stays the call it is. *)
LEMMA OtherStepsKeepLnb ==
    ASSUME TypeInv, TypeInv', LnbInv, NEW t \in Threads,
           Tune(t) \/ SwitchLnb(t) \/ Return(t) \/ Think(t) \/ Transfer(t)
    PROVE  LnbInv'
<1>1. /\ type' = type /\ cardtype' = cardtype /\ lnb' = lnb /\ pins' = pins
      /\ history' = history
  BY DEF Tune, SwitchLnb, Return, Think, Transfer, Arrive, Lose, Ask, Misread, ReadIds,
         MisreadIds, Transferred, driver
<1>2. \E new : /\ th' = [th EXCEPT ![t] = new]
               /\ new.call # "lnb" \/ new.todo \in {<<>>} \cup Looks
  <2>1. CASE Tune(t)
    <3>1. [NoCall EXCEPT !.call = "tune", !.ask = freq', !.todo = <<Local("split")>>].call = "tune"
      BY DEF NoCall
    <3> QED
      BY <2>1, <3>1 DEF Tune
  <2>2. CASE SwitchLnb(t)
    <3>1. PICK v \in 0 .. 3 :
            th' = [th EXCEPT ![t] = [NoCall EXCEPT !.call = "lnb",
                                    !.todo = <<[Local("lnb?") EXCEPT !.val = v]>>]]
      BY <2>2 DEF SwitchLnb
    <3>2. [NoCall EXCEPT !.call = "lnb", !.todo = <<[Local("lnb?") EXCEPT !.val = v]>>].todo
              \in Looks
      BY LnbSteps DEF NoCall, Looks
    <3> QED
      BY <3>1, <3>2
  <2>3. CASE Return(t)
    <3>1. NoCall.call # "lnb"
      BY DEF NoCall
    <3> QED
      BY <2>3, <3>1 DEF Return
  <2>4. CASE Think(t)
    <3>1. th[t].todo # <<>> /\ Head(th[t].todo).do \in {"split", "try", "lock"}
      BY <2>4 DEF Think
    <3>2. th[t].call # "lnb"
      BY <3>1, Heads
    <3>3. \A s : [th[t] EXCEPT !.todo = s].call # "lnb"
      BY <3>2
    <3>4. PICK s : Go(t, s)
      BY <2>4 DEF Think
    <3>5. th' = [th EXCEPT ![t] = [th[t] EXCEPT !.todo = s]]
      BY <3>4 DEF Go, TypeInv
    <3> QED
      BY <3>3, <3>5
  <2>5. CASE Transfer(t)
    <3> DEFINE op == Head(th[t].todo)
    <3>1. /\ th[t].todo # <<>>
          /\ op.do \in {"write", "pll_lock", "tmcc", "ts_lock", "ts_id"}
      BY <2>5 DEF Transfer, Arrive, Lose, Ask, Misread, ReadIds, MisreadIds
    <3>2. th[t].call # "lnb"
      BY <3>1, Heads
    <3>3. PICK new, well : /\ Transferred(t, new, well)
                           /\ \/ new \in {Onward(t), Again(t, op)}
                              \/ \E pair : new = TakeIds(t, op, pair)
      BY <2>5 DEF Transfer, Arrive, Lose, Ask, Misread, ReadIds, MisreadIds
    <3>4. new.call # "lnb"
      BY <3>2, <3>3, OutcomesKeepTheCall
    <3> QED
      BY <3>3, <3>4 DEF Transferred
  <2> QED
    BY <2>1, <2>2, <2>3, <2>4, <2>5
<1>3. \A u \in Threads : Sets(u)' => Sets(u) /\ th'[u].todo = th[u].todo
  BY <1>1, <1>2, OthersKeepLists
<1> QED
  BY <1>1, <1>3, OthersKeepLnb

(* Every step keeps the invariant about the supply.                          *)
LEMMA LnbIsPreserved ==
    /\ TuneInit => LnbInv
    /\ TypeInv /\ TypeInv' /\ LnbInv /\ [TuneNext]_tuneVars => LnbInv'
<1>1. ASSUME TuneInit
      PROVE  LnbInv
  <2>1. \A u \in Threads : th[u].call = "none" /\ th[u].todo = <<>>
    BY <1>1 DEF TuneInit, NoCall
  <2>2. Switchers = {}
    BY <2>1 DEF Switchers
  <2>3. pins = settuner_reset(0) /\ lnb = 0
    BY <1>1 DEF TuneInit, settuner_reset
  <2> QED
    BY <2>1, <2>2, <2>3 DEF LnbInv
<1>2. ASSUME TypeInv, TypeInv', LnbInv, UNCHANGED tuneVars \/ Demodulate
      PROVE  LnbInv'
  <2>1. /\ type' = type /\ cardtype' = cardtype /\ lnb' = lnb /\ pins' = pins
        /\ history' = history /\ th' = th
    BY <1>2 DEF tuneVars, Demodulate, driver, history
  <2>2. \A u \in Threads : Sets(u)' => Sets(u) /\ th'[u].todo = th[u].todo
    BY <2>1 DEF Sets, Wholes, Halves, First, Second, Pins, SetLnb
  <2> QED
    BY <1>2, <2>1, <2>2, OthersKeepLnb
<1>3. ASSUME TypeInv, TypeInv', LnbInv, TuneNext
      PROVE  LnbInv'
  BY <1>2, <1>3, SwitchingKeepsLnb, OtherStepsKeepLnb DEF TuneNext
<1> QED
  BY <1>1, <1>2, <1>3

(* Switching the antenna never takes the power from a tuner or leaves it in  *)
(* reset; and after a switching that overlapped no other the antenna has the *)
(* supply that sysctl_lnb remembers (sysctl_lnb, settuner_reset, set_lnb).   *)
THEOREM LnbAlwaysAgrees == TuneSpec => []LnbAgrees
<1>1. TypeInv /\ LnbInv => LnbAgrees
  BY DEF LnbInv, LnbAgrees, settuner_reset
<1>2. TuneInit => TypeInv /\ LnbInv
  BY TypeIsPreserved, LnbIsPreserved
<1>3. TypeInv /\ LnbInv /\ [TuneNext]_tuneVars => (TypeInv /\ LnbInv)'
  BY TypeIsPreserved, LnbIsPreserved
<1> QED
  BY <1>1, <1>2, <1>3, PTL DEF TuneSpec

-----------------------------------------------------------------------------
(* A tuning gets where it was asked to.                                      *)

(* A search ends with the lock, whatever of it is done or put before it. *)
LEMMA SearchesGoOn ==
    ASSUME NEW h, NEW s \in Searches(h)
    PROVE  /\ s # <<>>
           /\ s \in Seq(SearchOps \cup {Lock(h)})
           /\ s = <<Lock(h)>> \/ (Head(s) \in SearchOps /\ Tail(s) \in Searches(h))
           /\ \A y \in Seq(SearchOps) : y \o s \in Searches(h)
<1> DEFINE l == Lock(h)
<1> HIDE DEF l
<1>1. PICK x \in Seq(SearchOps) : s = x \o <<l>>
  BY DEF Searches, l
<1>2. ASSUME NEW z \in Seq(SearchOps), NEW u, u = z \o <<l>>
      PROVE  u \in Searches(h)
  BY <1>2 DEF Searches, l
<1> HIDE DEF SearchOps
<1>3. s # <<>> /\ s \in Seq(SearchOps \cup {l})
  BY <1>1
<1>4. s = <<l>> \/ (Head(s) \in SearchOps /\ Tail(s) \in Searches(h))
  <2>1. CASE x = <<>>
    BY <1>1, <2>1
  <2>2. CASE x # <<>>
    <3>1. Head(s) = Head(x) /\ Head(x) \in SearchOps
      BY <1>1, <2>2
    <3>2. Tail(s) = Tail(x) \o <<l>> /\ Tail(x) \in Seq(SearchOps)
      BY <1>1, <2>2
    <3> QED
      BY <3>1, <3>2, <1>2
  <2> QED
    BY <2>1, <2>2
<1>5. ASSUME NEW y \in Seq(SearchOps)
      PROVE  y \o s \in Searches(h)
  <2>1. y \o s = (y \o x) \o <<l>>
    BY <1>1, <1>5
  <2>2. y \o x \in Seq(SearchOps)
    BY <1>1, <1>5, ConcatProperties
  <2> QED
    BY <2>1, <2>2, <1>2
<1> QED
  BY <1>3, <1>4, <1>5 DEF l

(* A transfer that leaves a tuning undisturbed: a write has arrived, a poll  *)
(* has got its answer or goes on, and what was read is right.                *)
LEMMA UndisturbedTransfer ==
    ASSUME TypeInv, NEW t \in Threads, Transfer(t), Undisturbed(t)'
    PROVE  LET op == Head(th[t].todo)
               h  == th[t]
               g  == th'[t]
           IN  /\ h.todo # <<>> /\ Undisturbed(t) /\ g.ask = h.ask
               /\ \/ /\ op.do = "write" /\ g.todo = Tail(h.todo) /\ g.ids = h.ids
                     /\ hw' = IF op.reg = "restart" THEN [hw EXCEPT !.valid = FALSE]
                              ELSE [hw EXCEPT ![op.reg] = op.val]
                  \/ /\ op.do \in {"pll_lock", "tmcc", "ts_lock"}
                     /\ g.ids = h.ids /\ hw' = hw
                     /\ \/ g.todo = h.todo
                        \/ /\ g.todo = Tail(h.todo)
                           /\ op.do = "ts_lock" /\ op.reg = "ends" => hw.ts = op.val
                  \/ /\ op.do = "ts_id" /\ hw' = hw /\ op \in Readings /\ type = "S"
                     /\ g.todo \in {h.todo, Tail(h.todo)}
                     /\ \E a, b : /\ g.ids = [h.ids EXCEPT ![op.val] = a, ![op.val + 1] = b]
                                  /\ \/ a = 0 /\ b = 0
                                     \/ /\ hw.valid
                                        /\ a = TsId(hw.tmcc, op.val)
                                        /\ b = TsId(hw.tmcc, op.val + 1)
<1> DEFINE op == Head(th[t].todo)
           h  == th[t]
           g  == th'[t]
<1>1. h.todo # <<>>
  BY DEF Transfer
<1>2. op.do \in {"write", "pll_lock", "tmcc", "ts_lock", "ts_id"}
  BY DEF Transfer, Arrive, Lose, Ask, Misread, ReadIds, MisreadIds
<1>3. h.call # "lnb"
  BY <1>1, <1>2, Heads
<1>4. h \in TuneCalls /\ op \in TuneOps
  BY <1>1, <1>3, Heads
<1> HIDE DEF op
<1>5. ASSUME NEW new, NEW well, Transferred(t, new, well)
      PROVE  g = new /\ (new.call = h.call => h.call = "tune" /\ clean[t] /\ well)
  <2>1. g = new
    BY <1>5 DEF Transferred, TypeInv
  <2>2. clean'[t] = (h.call # "tune" \/ (clean[t] /\ well))
    BY <1>5 DEF Transferred, Watch
  <2> QED
    BY <2>1, <2>2 DEF Undisturbed
<1>6. /\ Onward(t).call = h.call /\ Onward(t).ask = h.ask /\ Onward(t).ids = h.ids
      /\ Onward(t).todo = Tail(h.todo)
  BY <1>4 DEF Onward, TuneCalls
<1>7. /\ Again(t, op).call = h.call /\ Again(t, op).ask = h.ask /\ Again(t, op).ids = h.ids
      /\ Again(t, op).todo \in {h.todo, <<>>, Tail(h.todo)}
      /\ op.reg = "ends" => Again(t, op).todo \in {h.todo, <<>>}
      /\ op.reg # "ends" => Again(t, op).todo \in {h.todo, Tail(h.todo)}
  <2>1. /\ [h EXCEPT !.n = @ + 1].todo = h.todo
        /\ [h EXCEPT !.todo = <<>>, !.n = 0].todo = <<>>
    BY <1>4 DEF TuneCalls
  <2>2. /\ Again(t, op) \in {[h EXCEPT !.n = @ + 1], [h EXCEPT !.todo = <<>>, !.n = 0], Onward(t)}
        /\ op.reg = "ends" => Again(t, op) # Onward(t) \/ Again(t, op).todo = <<>>
                              \/ Again(t, op).todo = h.todo
        /\ op.reg # "ends" => Again(t, op) \in {[h EXCEPT !.n = @ + 1], Onward(t)}
    BY <2>1 DEF Again
  <2> QED
    BY <2>1, <2>2, <1>6, OutcomesKeepTheCall
<1>8. CASE Arrive(t, op)
  <2>1. Transferred(t, Onward(t), TRUE)
    BY <1>8 DEF Arrive
  <2>2. g = Onward(t) /\ Undisturbed(t)
    BY <2>1, <1>5, <1>6 DEF Undisturbed
  <2> QED
    BY <1>1, <1>6, <1>8, <2>2 DEF Arrive, op
<1>9. CASE Lose(t, op)
  <2>1. Transferred(t, Onward(t), FALSE)
    BY <1>9 DEF Lose
  <2> QED
    BY <2>1, <1>5, <1>6
<1>10. CASE Ask(t, op)
  <2>1. op.do \in {"pll_lock", "tmcc", "ts_lock"} /\ hw' = hw
    BY <1>10 DEF Ask
  <2>2. CASE Answer(op) /\ Transferred(t, Onward(t), TRUE)
    <3>1. g = Onward(t) /\ Undisturbed(t)
      BY <2>2, <1>5, <1>6 DEF Undisturbed
    <3>2. op.do = "ts_lock" => hw.ts = op.val
      BY <2>2 DEF Answer
    <3> QED
      BY <1>1, <1>6, <2>1, <3>1, <3>2 DEF op
  <2>3. CASE Transferred(t, Again(t, op), GoesOn(t, op))
    <3>1. g = Again(t, op) /\ Undisturbed(t) /\ GoesOn(t, op)
      BY <2>3, <1>5, <1>7 DEF Undisturbed
    <3>2. g.todo \in {h.todo, Tail(h.todo)} /\ (op.reg = "ends" => g.todo = h.todo)
      BY <3>1, <1>7 DEF GoesOn
    <3> QED
      BY <1>1, <1>7, <2>1, <3>1, <3>2 DEF op
  <2> QED
    BY <1>10, <2>2, <2>3 DEF Ask
<1>11. CASE Misread(t, op)
  <2>1. Transferred(t, Onward(t), FALSE) \/ Transferred(t, Again(t, op), FALSE)
    BY <1>11 DEF Misread
  <2> QED
    BY <2>1, <1>5, <1>6, <1>7
<1>12. ASSUME op.do = "ts_id", NEW pair
       PROVE  /\ op \in Readings /\ type = "S"
              /\ TakeIds(t, op, pair).call = h.call /\ TakeIds(t, op, pair).ask = h.ask
              /\ TakeIds(t, op, pair).todo \in {h.todo, Tail(h.todo)}
              /\ TakeIds(t, op, pair).ids =
                    [h.ids EXCEPT ![op.val] = pair[1], ![op.val + 1] = pair[2]]
  <2>1. op \in Readings /\ type = "S"
    BY <1>4, <1>12 DEF TuneOps, Writes, Polls, Thoughts
  <2>2. op.reg # "ends" /\ op.val \in 0 .. Slots - 1 /\ op.val + 1 \in 0 .. Slots - 1
    BY <2>1 DEF Readings
  <2> DEFINE got == [th[t] EXCEPT !.ids[op.val] = pair[1], !.ids[op.val + 1] = pair[2]]
  <2>3. /\ got.todo = h.todo /\ got.call = h.call /\ got.ask = h.ask
        /\ got.ids = [h.ids EXCEPT ![op.val] = pair[1], ![op.val + 1] = pair[2]]
    BY <1>4 DEF TuneCalls
  <2>4. TakeIds(t, op, pair) \in
            {[got EXCEPT !.todo = Tail(@), !.n = 0],
             [got EXCEPT !.todo = Again(t, op).todo, !.n = Again(t, op).n]}
    BY Zenon DEF TakeIds
  <2>5. DOMAIN got = {"call", "todo", "n", "ask", "ids"}
    BY <1>4 DEF TuneCalls
  <2> HIDE DEF got
  <2> QED
    BY <1>7, <2>1, <2>2, <2>3, <2>4, <2>5
<1>13. CASE ReadIds(t, op)
  <2>1. PICK pair \in {<<0, 0>>} \cup {Both(c, op.val) : c \in Signal} :
              Transferred(t, TakeIds(t, op, pair), TRUE)
    BY <1>13 DEF ReadIds
  <2>2. op.do = "ts_id" /\ hw' = hw
    BY <1>13 DEF ReadIds
  <2>3. g = TakeIds(t, op, pair) /\ Undisturbed(t)
    BY <2>1, <2>2, <1>5, <1>12 DEF Undisturbed
  <2>4. \/ pair[1] = 0 /\ pair[2] = 0
        \/ /\ hw.valid
           /\ pair[1] = TsId(hw.tmcc, op.val)
           /\ pair[2] = TsId(hw.tmcc, op.val + 1)
    BY <2>1 DEF Signal, Both
  <2>5. /\ op \in Readings /\ type = "S" /\ g.ask = h.ask
        /\ g.todo \in {h.todo, Tail(h.todo)}
        /\ g.ids = [h.ids EXCEPT ![op.val] = pair[1], ![op.val + 1] = pair[2]]
    BY <1>12, <2>2, <2>3
  <2> QED
    BY <1>1, <2>2, <2>3, <2>4, <2>5, Zenon DEF op
<1>14. CASE MisreadIds(t, op)
  <2>1. PICK pair \in {0, TsId(0, 0)} \X {NoTsId, TsId(0, 0)} :
              Transferred(t, TakeIds(t, op, pair), FALSE)
    BY <1>14 DEF MisreadIds
  <2>2. op.do = "ts_id"
    BY <1>14 DEF MisreadIds
  <2> QED
    BY <2>1, <2>2, <1>5, <1>12
<1> QED
  BY <1>8, <1>9, <1>10, <1>11, <1>13, <1>14 DEF Transfer, op

(* Identifiers that were read of the right channel are right. *)
LEMMA IdsStayRight ==
    ASSUME NEW h, h.ids \in Asking, IdsAreRight(h), NEW i \in 0 .. Slots - 1, i + 1 \in 0 .. Slots - 1,
           NEW a \in {0, TsId(h.ask.no, i)}, NEW b \in {0, TsId(h.ask.no, i + 1)},
           NEW g, g.ask = h.ask, g.ids = [h.ids EXCEPT ![i] = a, ![i + 1] = b]
    PROVE  IdsAreRight(g)
BY DEF IdsAreRight, Asking

(* What a transfer of a tuning does to the place the tuning is at.           *)
LEMMA TransferOnTheWay ==
    ASSUME TypeInv, NEW t \in Threads, Transfer(t), Undisturbed(t)',
           type = "S", IdsAreRight(th[t]), NEW s \in Searches(th[t]), SBefore(th[t], hw, s)
    PROVE  SPlace(th'[t], hw')
<1> DEFINE op == Head(th[t].todo)
           h  == th[t]
           g  == th'[t]
           c  == h.ask.no
           T  == SearchOps \cup {Lock(h)}
           W(reg) == WriteReg(reg, c)
<1>1. g.ask = h.ask
  BY UndisturbedTransfer
<1>2. Searches(g) = Searches(h) /\ s \in Seq(T)
  BY <1>1, SearchesGoOn DEF Searches, Lock
<1>3. ASSUME op.do = "write"
      PROVE  /\ g.todo = Tail(h.todo) /\ g.ids = h.ids
             /\ hw' = IF op.reg = "restart" THEN [hw EXCEPT !.valid = FALSE]
                      ELSE [hw EXCEPT ![op.reg] = op.val]
  BY <1>3, UndisturbedTransfer
<1>4. ASSUME op.do \in {"pll_lock", "tmcc"}
      PROVE  g.todo \in {h.todo, Tail(h.todo)} /\ g.ids = h.ids /\ hw' = hw
  BY <1>4, UndisturbedTransfer
<1>5. hw \in Registers
  BY DEF TypeInv
<1>6. ASSUME g.ids = h.ids
      PROVE  IdsAreRight(g)
  BY <1>1, <1>6 DEF IdsAreRight
<1>7. ASSUME g.ids = h.ids, SBefore(g, hw', s)
      PROVE  SPlace(g, hw')
  BY <1>2, <1>6, <1>7 DEF SPlace
<1>8. /\ W("pll1") = [do |-> "write", reg |-> "pll1", val |-> c]
      /\ W("pll2") = [do |-> "write", reg |-> "pll2", val |-> c]
      /\ W("pll3") = [do |-> "write", reg |-> "pll3", val |-> c]
      /\ anew.do = "write" /\ anew.reg = "restart"
      /\ pll.do = "pll_lock" /\ tmcc.do = "tmcc"
  BY DEF WriteReg, anew, pll, tmcc, Poll
<1> HIDE DEF T
<1>9. CASE h.todo = <<W("pll1"), W("pll2"), W("pll3"), pll, anew, tmcc>> \o s
  <2>1. /\ op = W("pll1")
        /\ Tail(h.todo) = <<W("pll2"), W("pll3"), pll, anew, tmcc>> \o s
    <3> HIDE DEF W
    <3> QED
      BY <1>2, <1>9
  <2>2. g.todo = Tail(h.todo) /\ g.ids = h.ids /\ hw'.pll1 = c
    BY <2>1, <1>3, <1>5, <1>8 DEF Registers
  <2>3. SBefore(g, hw', s)
    BY <2>1, <2>2, <1>1, Zenon DEF SBefore
  <2> QED
    BY <2>2, <2>3, <1>7
<1>10. CASE h.todo = <<W("pll2"), W("pll3"), pll, anew, tmcc>> \o s /\ hw.pll1 = c
  <2>1. op = W("pll2") /\ Tail(h.todo) = <<W("pll3"), pll, anew, tmcc>> \o s
    <3> HIDE DEF W
    <3> QED
      BY <1>2, <1>10
  <2>2. g.todo = Tail(h.todo) /\ g.ids = h.ids /\ hw'.pll1 = c /\ hw'.pll2 = c
    BY <2>1, <1>3, <1>5, <1>8, <1>10 DEF Registers
  <2>3. SBefore(g, hw', s)
    BY <2>1, <2>2, <1>1, Zenon DEF SBefore
  <2> QED
    BY <2>2, <2>3, <1>7
<1>11. CASE h.todo = <<W("pll3"), pll, anew, tmcc>> \o s /\ hw.pll1 = c /\ hw.pll2 = c
  <2>1. op = W("pll3") /\ Tail(h.todo) = <<pll, anew, tmcc>> \o s
    <3> HIDE DEF W
    <3> QED
      BY <1>2, <1>11
  <2>2. g.todo = Tail(h.todo) /\ g.ids = h.ids /\ There(g, hw')
    BY <2>1, <1>1, <1>3, <1>5, <1>8, <1>11 DEF Registers, There
  <2>3. SBefore(g, hw', s)
    BY <2>1, <2>2, <1>1, Zenon DEF SBefore
  <2> QED
    BY <2>2, <2>3, <1>7
<1>12. CASE h.todo = <<pll, anew, tmcc>> \o s /\ There(h, hw)
  <2>1. op = pll /\ Tail(h.todo) = <<anew, tmcc>> \o s
    BY <1>2, <1>12
  <2>2. g.todo \in {h.todo, Tail(h.todo)} /\ g.ids = h.ids /\ There(g, hw')
    BY <2>1, <1>1, <1>4, <1>8, <1>12 DEF There
  <2>3. SBefore(g, hw', s)
    BY <2>1, <2>2, <1>12 DEF SBefore
  <2> QED
    BY <2>2, <2>3, <1>7
<1>13. CASE h.todo = <<anew, tmcc>> \o s /\ There(h, hw)
  <2>1. op = anew /\ Tail(h.todo) = <<tmcc>> \o s
    BY <1>2, <1>13
  <2>2. g.todo = Tail(h.todo) /\ g.ids = h.ids /\ Settled(g, hw')
    BY <2>1, <1>1, <1>3, <1>5, <1>8, <1>13 DEF Registers, There, Settled
  <2>3. SBefore(g, hw', s)
    BY <2>1, <2>2, <1>1, Zenon DEF SBefore
  <2> QED
    BY <2>2, <2>3, <1>7
<1>14. CASE h.todo = <<tmcc>> \o s /\ Settled(h, hw)
  <2>1. op = tmcc /\ Tail(h.todo) = s
    BY <1>2, <1>14
  <2>2. g.todo \in {h.todo, Tail(h.todo)} /\ g.ids = h.ids /\ Settled(g, hw')
    BY <2>1, <1>1, <1>4, <1>8, <1>14 DEF There, Settled
  <2>3. CASE g.todo = h.todo
    <3>1. SBefore(g, hw', s)
      BY <2>2, <2>3, <1>14 DEF SBefore
    <3> QED
      BY <2>2, <3>1, <1>7
  <2>4. CASE g.todo = s
    BY <2>2, <2>4, <1>2, <1>6 DEF SPlace
  <2> QED
    BY <2>1, <2>2, <2>3, <2>4
<1> QED
  BY <1>9, <1>10, <1>11, <1>12, <1>13, <1>14 DEF SBefore

LEMMA TransferOfASearch ==
    ASSUME TypeInv, NEW t \in Threads, Transfer(t), Undisturbed(t)',
           type = "S", IdsAreRight(th[t]), th[t].todo \in Searches(th[t]), Settled(th[t], hw)
    PROVE  SPlace(th'[t], hw')
<1> DEFINE op == Head(th[t].todo)
           h  == th[t]
           g  == th'[t]
<1>1. g.ask = h.ask
  BY UndisturbedTransfer
<1>2. Searches(g) = Searches(h)
  BY <1>1 DEF Searches, Lock
<1>3. op.do \in {"write", "pll_lock", "tmcc", "ts_lock", "ts_id"}
  BY DEF Transfer, Arrive, Lose, Ask, Misread, ReadIds, MisreadIds
<1>4. op \in SearchOps /\ Tail(h.todo) \in Searches(h)
  <2>1. CASE h.todo = <<Lock(h)>>
    BY <1>3, <2>1 DEF Lock
  <2>2. CASE h.todo # <<Lock(h)>>
    BY <2>2, SearchesGoOn
  <2> QED
    BY <2>1, <2>2
<1>5. h.ids \in Asking /\ hw \in Registers
  <2>1. h.todo # <<>> /\ h.call # "lnb"
    BY UndisturbedTransfer DEF Undisturbed
  <2> QED
    BY <2>1, Heads DEF TuneCalls, TypeInv
<1>6. ASSUME g.ids = h.ids
      PROVE  IdsAreRight(g)
  BY <1>1, <1>6 DEF IdsAreRight
<1>7. CASE op.do = "write"
  <2>1. /\ g.todo = Tail(h.todo) /\ g.ids = h.ids
        /\ hw' = IF op.reg = "restart" THEN [hw EXCEPT !.valid = FALSE]
                 ELSE [hw EXCEPT ![op.reg] = op.val]
    BY <1>7, UndisturbedTransfer
  <2>2. op.reg = "ts_set"
    BY <1>4, <1>7 DEF SearchOps, Readings
  <2>3. Settled(g, hw')
    BY <2>1, <2>2, <1>1, <1>5 DEF Settled, There, Registers
  <2> QED
    BY <2>1, <2>3, <1>2, <1>4, <1>6 DEF SPlace
<1>8. CASE op.do \in {"pll_lock", "tmcc", "ts_lock"}
  <2>1. g.todo \in {h.todo, Tail(h.todo)} /\ g.ids = h.ids /\ hw' = hw
    BY <1>8, UndisturbedTransfer
  <2>2. Settled(g, hw')
    BY <2>1, <1>1 DEF Settled, There
  <2> QED
    BY <2>1, <2>2, <1>2, <1>4, <1>6 DEF SPlace
<1>9. CASE op.do = "ts_id"
  <2>1. /\ g.todo \in {h.todo, Tail(h.todo)} /\ hw' = hw /\ op \in Readings
        /\ \E a, b : /\ g.ids = [h.ids EXCEPT ![op.val] = a, ![op.val + 1] = b]
                     /\ \/ a = 0 /\ b = 0
                        \/ /\ hw.valid
                           /\ a = TsId(hw.tmcc, op.val)
                           /\ b = TsId(hw.tmcc, op.val + 1)
    BY <1>9, UndisturbedTransfer
  <2>2. PICK a, b : /\ g.ids = [h.ids EXCEPT ![op.val] = a, ![op.val + 1] = b]
                    /\ \/ a = 0 /\ b = 0
                       \/ /\ hw.valid
                          /\ a = TsId(hw.tmcc, op.val)
                          /\ b = TsId(hw.tmcc, op.val + 1)
    BY <2>1
  <2>3. /\ a \in {0, TsId(h.ask.no, op.val)}
        /\ b \in {0, TsId(h.ask.no, op.val + 1)}
    BY <2>2 DEF Settled
  <2>4. op.val \in 0 .. Slots - 1 /\ op.val + 1 \in 0 .. Slots - 1
    BY <2>1 DEF Readings
  <2>5. IdsAreRight(g)
    BY <1>1, <1>5, <2>2, <2>3, <2>4, IdsStayRight
  <2>6. Settled(g, hw')
    BY <2>1, <1>1 DEF Settled, There
  <2> QED
    BY <2>1, <2>5, <2>6, <1>2, <1>4 DEF SPlace
<1> QED
  BY <1>3, <1>7, <1>8, <1>9

LEMMA TransferAfterASearch ==
    ASSUME TypeInv, NEW t \in Threads, Transfer(t), Undisturbed(t)',
           type = "S", IdsAreRight(th[t]), There(th[t], hw), SAfter(th[t], hw)
    PROVE  SPlace(th'[t], hw')
<1> DEFINE op == Head(th[t].todo)
           h  == th[t]
           g  == th'[t]
           id == h.ids[h.ask.slot]
<1>1. g.ask = h.ask /\ h.todo # <<>>
  BY UndisturbedTransfer
<1>2. ASSUME g.ids = h.ids, There(h, hw'), SAfter(g, hw')
      PROVE  SPlace(g, hw')
  BY <1>1, <1>2 DEF SPlace, IdsAreRight, There
<1>3. CASE h.todo = <<WriteReg("ts_set", id), Poll("ts_lock", id)>>
  <2>1. op = WriteReg("ts_set", id) /\ Tail(h.todo) = <<Poll("ts_lock", id)>>
    BY <1>3
  <2>2. op.do = "write" /\ op.reg = "ts_set" /\ op.val = id
    BY <2>1 DEF WriteReg
  <2>3. /\ g.todo = Tail(h.todo) /\ g.ids = h.ids /\ hw' = [hw EXCEPT !["ts_set"] = id]
    BY <2>2, UndisturbedTransfer
  <2>4. There(h, hw') /\ hw'.ts_set = id
    BY <2>3 DEF There, TypeInv, Registers
  <2> QED
    BY <2>1, <2>3, <2>4, <1>1, <1>2 DEF SAfter
<1>4. CASE h.todo = <<Poll("ts_lock", id)>> /\ hw.ts_set = id
  <2>1. op = Poll("ts_lock", id) /\ Tail(h.todo) = <<>>
    BY <1>4
  <2>2. op.do = "ts_lock" /\ op.reg = "ends" /\ op.val = id
    BY <2>1 DEF Poll
  <2>3. /\ g.ids = h.ids /\ hw' = hw
        /\ g.todo = h.todo \/ (g.todo = <<>> /\ hw.ts = id)
    BY <2>1, <2>2, UndisturbedTransfer
  <2> QED
    BY <2>3, <1>1, <1>2, <1>4 DEF SAfter
<1> QED
  BY <1>1, <1>3, <1>4 DEF SAfter

LEMMA TransferOfATerrestrial ==
    ASSUME TypeInv, NEW t \in Threads, Transfer(t), Undisturbed(t)', TPlace(th[t], hw)
    PROVE  TPlace(th'[t], hw')
<1> DEFINE op == Head(th[t].todo)
           h  == th[t]
           g  == th'[t]
<1>1. g.ask = h.ask /\ h.todo # <<>>
  BY UndisturbedTransfer
<1>2. ASSUME op.do = "write"
      PROVE  /\ g.todo = Tail(h.todo)
             /\ hw' = IF op.reg = "restart" THEN [hw EXCEPT !.valid = FALSE]
                      ELSE [hw EXCEPT ![op.reg] = op.val]
  BY <1>2, UndisturbedTransfer
<1>3. ASSUME op.do \in {"pll_lock", "tmcc"}
      PROVE  g.todo \in {h.todo, Tail(h.todo)} /\ hw' = hw
  BY <1>3, UndisturbedTransfer
<1>4. hw \in Registers
  BY DEF TypeInv
<1>5. CASE h.todo = <<WriteReg("pll1", h.ask), pll, anew, tmcc>>
  <2>1. op = WriteReg("pll1", h.ask) /\ Tail(h.todo) = <<pll, anew, tmcc>>
    BY <1>5
  <2>2. g.todo = Tail(h.todo) /\ hw'.pll1 = h.ask
    BY <2>1, <1>2, <1>4 DEF Registers, WriteReg
  <2> QED
    BY <2>1, <2>2, <1>1 DEF TPlace
<1>6. CASE hw.pll1 = h.ask /\ h.todo = <<pll, anew, tmcc>>
  <2>1. op = pll /\ Tail(h.todo) = <<anew, tmcc>>
    BY <1>6
  <2>2. g.todo \in {h.todo, Tail(h.todo)} /\ hw' = hw
    BY <2>1, <1>3 DEF pll, Poll
  <2> QED
    BY <2>1, <2>2, <1>1, <1>6 DEF TPlace
<1>7. CASE hw.pll1 = h.ask /\ h.todo = <<anew, tmcc>>
  <2>1. op = anew /\ Tail(h.todo) = <<tmcc>>
    BY <1>7
  <2>2. g.todo = Tail(h.todo) /\ hw'.pll1 = h.ask
    BY <2>1, <1>2, <1>4, <1>7 DEF Registers, WriteReg, anew
  <2> QED
    BY <2>1, <2>2, <1>1 DEF TPlace
<1>8. CASE hw.pll1 = h.ask /\ h.todo = <<tmcc>>
  <2>1. op = tmcc /\ Tail(h.todo) = <<>>
    BY <1>8
  <2>2. g.todo \in {h.todo, Tail(h.todo)} /\ hw' = hw
    BY <2>1, <1>3 DEF tmcc, Poll
  <2> QED
    BY <2>1, <2>2, <1>1, <1>8 DEF TPlace
<1> QED
  BY <1>1, <1>5, <1>6, <1>7, <1>8 DEF TPlace

(* A transfer leads an undisturbed tuning from one place to the next.        *)
LEMMA OwnTransferKeepsPlace ==
    ASSUME TypeInv, NEW t \in Threads, Transfer(t), Undisturbed(t)', Place(th[t], hw, freq)
    PROVE  Place(th'[t], hw', freq')
<1>1. th[t].todo # <<Local("split")>>
  <2>1. Head(th[t].todo).do # "split"
    BY DEF Transfer, Arrive, Lose, Ask, Misread, ReadIds, MisreadIds
  <2> QED
    BY <2>1 DEF Local
<1>2. CASE type = "S" /\ SPlace(th[t], hw)
  BY <1>2, TransferOnTheWay, TransferOfASearch, TransferAfterASearch DEF SPlace, Place
<1>3. CASE type = "T" /\ TPlace(th[t], hw)
  BY <1>3, TransferOfATerrestrial DEF Place
<1> QED
  BY <1>1, <1>2, <1>3 DEF Place

(* What a tuning on its way to a search does next. *)
LEMMA WaysBegin ==
    ASSUME NEW h, NEW r, NEW s \in Searches(h), SBefore(h, r, s)
    PROVE  /\ h.todo # <<>>
           /\ Head(h.todo) \in {WriteReg("pll1", h.ask.no), WriteReg("pll2", h.ask.no),
                                WriteReg("pll3", h.ask.no), pll, anew, tmcc}
<1> DEFINE T == SearchOps \cup {Lock(h)}
<1>1. s \in Seq(T)
  BY SearchesGoOn
<1> HIDE DEF T
<1>2. ASSUME NEW a, NEW b, NEW c
      PROVE  <<a, b, c, pll, anew, tmcc>> \o s # <<>> /\ <<b, c, pll, anew, tmcc>> \o s # <<>>
             /\ <<c, pll, anew, tmcc>> \o s # <<>> /\ <<pll, anew, tmcc>> \o s # <<>>
             /\ <<anew, tmcc>> \o s # <<>> /\ <<tmcc>> \o s # <<>>
  BY <1>1
<1>3. h.todo # <<>>
  BY <1>2, Zenon DEF SBefore
<1> QED
  BY <1>1, <1>3 DEF SBefore

(* On its way and after the search a tuning has nothing to think about. *)
LEMMA ThoughtsAreInSearches ==
    ASSUME NEW h, NEW r, h.todo # <<>>, Head(h.todo).do \in {"split", "try", "lock"},
           Place(h, r, freq)
    PROVE  \/ h.todo = <<Local("split")>> /\ freq = h.ask /\ IdsAreRight(h)
           \/ type = "S" /\ IdsAreRight(h) /\ h.todo \in Searches(h) /\ Settled(h, r)
<1>1. \A reg, v, what : /\ WriteReg(reg, v).do = "write" /\ anew.do = "write"
                        /\ Poll(what, v).do = what
                        /\ pll.do = "pll_lock" /\ tmcc.do = "tmcc"
  BY DEF WriteReg, Poll, pll, anew, tmcc
<1>2. ASSUME NEW s \in Searches(h), SBefore(h, r, s)
      PROVE  FALSE
  BY <1>1, <1>2, WaysBegin
<1>3. ~ SAfter(h, r)
  BY <1>1 DEF SAfter
<1>4. ~ TPlace(h, r)
  BY <1>1 DEF TPlace
<1> QED
  BY <1>2, <1>3, <1>4 DEF Place, SPlace

(* So does a decision it makes.                                              *)
LEMMA OwnThoughtKeepsPlace ==
    ASSUME TypeInv, NEW t \in Threads, Think(t), Undisturbed(t), Place(th[t], hw, freq)
    PROVE  Place(th'[t], hw', freq')
<1> DEFINE op == Head(th[t].todo)
           h  == th[t]
           g  == th'[t]
<1>1. h.todo # <<>> /\ op.do \in {"split", "try", "lock"} /\ hw' = hw /\ freq' = freq
  BY DEF Think, driver
<1>2. h \in TuneCalls /\ hw \in Registers /\ freq \in Questions
  BY <1>1, Heads DEF Undisturbed, TypeInv
<1>3. ASSUME NEW s, Go(t, s)
      PROVE  g.todo = s /\ g.ask = h.ask /\ g.ids = h.ids
  <2>1. g = [h EXCEPT !.todo = s]
    BY <1>3 DEF Go, TypeInv
  <2> QED
    BY <2>1, <1>2 DEF TuneCalls
<1>4. CASE h.todo = <<Local("split")>>
  <2>1. freq = h.ask /\ IdsAreRight(h)
    <3>1. ASSUME h.todo \in Searches(h)
          PROVE  FALSE
      <4>1. h.todo = <<Lock(h)>> \/ op \in SearchOps
        BY <3>1, SearchesGoOn
      <4>2. op.do = "split" /\ Lock(h).do = "lock" /\ \A o \in SearchOps : o.do # "split"
        BY <1>4 DEF Local, Lock, SearchOps, Readings
      <4> QED
        BY <4>1, <4>2, <1>4
    <3> QED
      BY <3>1, <1>1, ThoughtsAreInSearches
  <2>2. op.do = "split" /\ Tail(h.todo) = <<>>
    BY <1>4 DEF Local
  <2>3. Go(t, SetFreq(freq) \o <<>>)
    BY <2>2 DEF Think
  <2>4. SetFreq(freq) \in Seq(TuneOps)
    BY <1>2, SetFreqIsSteps
  <2>5. g.todo = SetFreq(h.ask) /\ g.ask = h.ask /\ g.ids = h.ids
    <3> HIDE DEF TuneOps
    <3> QED
      BY <2>1, <2>3, <2>4, <1>3, ConcatEmptySeq
  <2>6. IdsAreRight(g)
    BY <2>1, <2>5 DEF IdsAreRight
  <2>7. CASE type = "S"
    <3>1. PICK x \in Seq(SearchOps) :
                SetFreq(h.ask) = bs_frequency(h.ask.no) \o
                        (x \o <<[do |-> "lock", reg |-> "none", val |-> h.ask.slot]>>)
      BY <1>2, <2>1, <2>7, SatelliteTuning
    <3> DEFINE s == x \o <<Lock(g)>>
    <3>2. s \in Searches(g)
      BY DEF Searches
    <3>3. g.todo = bs_frequency(g.ask.no) \o s
      BY <3>1, <2>5 DEF Lock
    <3>4. SBefore(g, hw', s)
      BY <3>3, Zenon DEF SBefore, bs_frequency, pll, anew, tmcc
    <3> QED
      BY <2>6, <2>7, <3>2, <3>4, Zenon DEF Place, SPlace
  <2>8. CASE type = "T"
    BY <2>5, <2>8 DEF Place, TPlace, SetFreq, isdb_t_frequency, pll, anew, tmcc
  <2> QED
    BY <2>7, <2>8 DEF TypeInv
<1>5. CASE h.todo # <<Local("split")>>
  <2>1. type = "S" /\ IdsAreRight(h) /\ h.todo \in Searches(h) /\ Settled(h, hw)
    BY <1>1, <1>5, ThoughtsAreInSearches
  <2>2. CASE h.todo = <<Lock(h)>>
    <3> DEFINE id == h.ids[h.ask.slot]
    <3>1. op.do = "lock" /\ op.val = h.ask.slot /\ Tail(h.todo) = <<>>
      BY <2>2 DEF Lock
    <3>2. Go(t, ts_lock(id) \o <<>>)
      BY <3>1 DEF Think
    <3>3. ts_lock(id) \o <<>> = <<WriteReg("ts_set", id), Poll("ts_lock", id)>>
      BY DEF ts_lock
    <3>4. /\ g.todo = <<WriteReg("ts_set", id), Poll("ts_lock", id)>>
          /\ g.ask = h.ask /\ g.ids = h.ids
      BY <3>2, <3>3, <1>3
    <3>5. IdsAreRight(g) /\ There(g, hw') /\ SAfter(g, hw')
      BY <3>4, <2>1, <1>1 DEF IdsAreRight, There, Settled, SAfter
    <3> QED
      BY <2>1, <3>5 DEF Place, SPlace
  <2>3. CASE h.todo # <<Lock(h)>>
    <3>1. op \in SearchOps /\ Tail(h.todo) \in Searches(h)
      BY <2>1, <2>3, SearchesGoOn
    <3>2. op.do = "try"
      BY <1>1, <3>1 DEF SearchOps, Readings
    <3>3. Go(t, Trials(t) \o Tail(h.todo))
      BY <3>2 DEF Think
    <3>4. Trials(t) \in Seq(SearchOps)
      BY <1>2, TrialsAreSteps DEF TuneCalls
    <3>5. Trials(t) \o Tail(h.todo) \in Searches(h)
      BY <3>1, <3>4, SearchesGoOn
    <3>6. g.todo \in Searches(h) /\ g.ask = h.ask /\ g.ids = h.ids
      BY <3>3, <3>5, <1>3
    <3>7. g.todo \in Searches(g) /\ IdsAreRight(g) /\ Settled(g, hw')
      BY <3>6, <2>1, <1>1 DEF Searches, Lock, IdsAreRight, Settled, There
    <3> QED
      BY <2>1, <3>7 DEF Place, SPlace
  <2> QED
    BY <2>2, <2>3
<1> QED
  BY <1>4, <1>5

(* A demodulator that follows does not leave the channel, nor the stream.    *)
LEMMA DemodulatorKeepsPlace ==
    ASSUME TypeInv, Demodulate, NEW h, Place(h, hw, freq)
    PROVE  Place(h, hw', freq')
<1>1. /\ freq' = freq /\ hw' \in Registers /\ hw \in Registers
      /\ hw'.pll1 = hw.pll1 /\ hw'.pll2 = hw.pll2 /\ hw'.pll3 = hw.pll3
      /\ hw'.ts_set = hw.ts_set
  <2>1. hw \in Registers
    BY DEF TypeInv
  <2>2. hw' \in Registers
    BY DemodulatorIsTyped, SetsStay DEF TypeInv, Demodulate
  <2> QED
    BY <2>1, <2>2 DEF Demodulate, Follow, Switch, Registers, driver
<1>2. There(h, hw) => There(h, hw')
  BY <1>1 DEF There
<1>3. Settled(h, hw) /\ type = "S" => Settled(h, hw')
  <2>1. ASSUME Settled(h, hw), type = "S"
        PROVE  hw'.valid => hw'.tmcc = h.ask.no
    <3>1. CASE Follow
      BY <3>1, <2>1, <1>1 DEF Follow, AtChannel, Settled, There, Registers
    <3>2. CASE Switch
      BY <3>2, <2>1, <1>1 DEF Switch, Settled, Registers
    <3> QED
      BY <3>1, <3>2 DEF Demodulate
  <2> QED
    BY <2>1, <1>2 DEF Settled
<1>4. SAfter(h, hw) => SAfter(h, hw')
  <2>1. hw'.ts = hw.ts \/ hw'.ts = hw.ts_set
    BY <1>1 DEF Demodulate, Follow, Switch, Registers
  <2> QED
    BY <2>1, <1>1 DEF SAfter
<1>5. ASSUME NEW s, SBefore(h, hw, s), type = "S"
      PROVE  SBefore(h, hw', s)
  BY <1>1, <1>2, <1>3, <1>5 DEF SBefore
<1>6. TPlace(h, hw) => TPlace(h, hw')
  BY <1>1 DEF TPlace
<1> QED
  BY <1>1, <1>2, <1>3, <1>4, <1>5, <1>6 DEF Place, SPlace

(* Every step keeps the invariant about tunings.                             *)
LEMMA TuneIsPreserved ==
    /\ TuneInit => TuneInv
    /\ TypeInv /\ TuneInv /\ [TuneNext]_tuneVars => TuneInv'
<1>1. ASSUME TuneInit
      PROVE  TuneInv
  BY <1>1 DEF TuneInit, TuneInv, Undisturbed, NoCall
<1>2. ASSUME TypeInv, TuneInv, UNCHANGED tuneVars
      PROVE  TuneInv'
  <2>1. type' = type /\ freq' = freq /\ hw' = hw /\ th' = th /\ clean' = clean
    BY <1>2 DEF tuneVars, driver
  <2> QED
    BY <2>1, <1>2, Zenon DEF TuneInv, Undisturbed, Place, SPlace, TPlace
<1>3. ASSUME type' = type, NEW u \in Threads, Place(th'[u], hw', freq')
      PROVE  Place(th[u], hw, freq)'
  BY <1>3 DEF Place
<1>4. ASSUME TypeInv, TuneInv, Demodulate
      PROVE  TuneInv'
  <2>1. type' = type /\ th' = th /\ clean' = clean
    BY <1>4 DEF Demodulate
  <2>2. ASSUME NEW u \in Threads, Undisturbed(u)'
        PROVE  Place(th[u], hw, freq)'
    <3>1. Place(th[u], hw, freq)
      BY <1>4, <2>1, <2>2 DEF TuneInv, Undisturbed
    <3> QED
      BY <1>3, <1>4, <2>1, <3>1, DemodulatorKeepsPlace
  <2> QED
    BY <2>2 DEF TuneInv
<1>5. ASSUME TypeInv, TuneInv, NEW t \in Threads, NEW u \in Threads,
             type' = type, th'[u] = th[u], Undisturbed(u)',
             clean'[u] => clean[u] /\ hw' = hw /\ freq' = freq
      PROVE  Place(th[u], hw, freq)'
  <2>1. Undisturbed(u) /\ hw' = hw /\ freq' = freq
    BY <1>5 DEF Undisturbed
  <2>2. Place(th'[u], hw', freq')
    BY <2>1, <1>5 DEF TuneInv
  <2> QED
    BY <2>2, <1>3, <1>5
<1>6. ASSUME TypeInv, TuneInv, NEW t \in Threads, Tune(t)
      PROVE  TuneInv'
  <2>1. type' = type /\ hw' = hw
    BY <1>6 DEF Tune
  <2>2. ASSUME NEW u \in Threads, u # t, Undisturbed(u)'
        PROVE  Place(th[u], hw, freq)'
    <3>1. th'[u] = th[u]
      BY <1>6, <2>2 DEF Tune, TypeInv
    <3>2. th[u].call = "tune"
      BY <2>2, <3>1 DEF Undisturbed
    <3>3. clean'[u] => clean[u] /\ hw' = hw /\ freq' = freq
      BY <1>6, <2>2, <3>2 DEF Tune, Watch
    <3> QED
      BY <1>5, <1>6, <2>1, <2>2, <3>1, <3>3
  <2>3. Place(th[t], hw, freq)'
    <3>1. th'[t] = [NoCall EXCEPT !.call = "tune", !.ask = freq', !.todo = <<Local("split")>>]
      BY <1>6 DEF Tune, TypeInv
    <3>2. th'[t].todo = <<Local("split")>> /\ th'[t].ask = freq' /\ IdsAreRight(th'[t])
      BY <3>1 DEF NoCall, IdsAreRight
    <3> QED
      BY <3>2, Zenon DEF Place
  <2> QED
    BY <2>2, <2>3 DEF TuneInv
<1>7. ASSUME TypeInv, TuneInv, NEW t \in Threads, SwitchLnb(t) \/ Return(t) \/ ChangeLnb(t)
      PROVE  TuneInv'
  <2>1. type' = type /\ hw' = hw /\ freq' = freq
    BY <1>7 DEF SwitchLnb, Return, ChangeLnb, driver
  <2>2. ~ Undisturbed(t)'
    <3>1. CASE SwitchLnb(t)
      <4>1. PICK v \in 0 .. 3 : th'[t] = [NoCall EXCEPT !.call = "lnb",
                                    !.todo = <<[Local("lnb?") EXCEPT !.val = v]>>]
        BY <3>1, <1>7 DEF SwitchLnb, TypeInv
      <4> QED
        BY <4>1 DEF Undisturbed, NoCall
    <3>2. CASE Return(t)
      <4>1. th'[t] = NoCall
        BY <3>2, <1>7 DEF Return, TypeInv
      <4> QED
        BY <4>1 DEF Undisturbed, NoCall
    <3>3. CASE ChangeLnb(t)
      <4>1. th[t].todo # <<>> /\ Head(th[t].todo).do \in {"lnb?", "pins", "set_lnb"}
        BY <3>3 DEF ChangeLnb, TestLnb, SetOne
      <4>2. \A o \in TuneOps : o.do \notin {"lnb?", "pins", "set_lnb"}
        BY DEF TuneOps, Writes, Polls, Thoughts, Readings
      <4>3. th[t].call = "lnb"
        <5> HIDE DEF TuneOps
        <5> QED
          BY <1>7, <4>1, <4>2, Heads
      <4>4. PICK s : Go(t, s)
        BY <3>3 DEF ChangeLnb, TestLnb, SetOne
      <4>5. th'[t] = [th[t] EXCEPT !.todo = s]
        BY <4>4, <1>7 DEF Go, TypeInv
      <4> QED
        BY <4>3, <4>5 DEF Undisturbed
    <3> QED
      BY <1>7, <3>1, <3>2, <3>3
  <2>3. ASSUME NEW u \in Threads, u # t, Undisturbed(u)'
        PROVE  Place(th[u], hw, freq)'
    <3>1. th'[u] = th[u]
      BY <1>7, <2>3 DEF SwitchLnb, Return, ChangeLnb, TestLnb, SetOne, Go, TypeInv
    <3>2. clean'[u] = clean[u]
      BY <1>7, <2>3 DEF SwitchLnb, Return, ChangeLnb, TypeInv
    <3> QED
      BY <1>5, <1>7, <2>1, <2>3, <3>1, <3>2
  <2> QED
    BY <2>2, <2>3 DEF TuneInv
<1>8. ASSUME TypeInv, TuneInv, NEW t \in Threads, Think(t)
      PROVE  TuneInv'
  <2>1. type' = type /\ hw' = hw /\ freq' = freq /\ clean' = clean
    BY <1>8 DEF Think, driver
  <2>2. PICK s : Go(t, s)
    BY <1>8 DEF Think
  <2>3. ASSUME NEW u \in Threads, u # t, Undisturbed(u)'
        PROVE  Place(th[u], hw, freq)'
    <3>1. th'[u] = th[u]
      BY <1>8, <2>2, <2>3 DEF Go, TypeInv
    <3> QED
      BY <1>5, <1>8, <2>1, <2>3, <3>1
  <2>4. ASSUME Undisturbed(t)'
        PROVE  Place(th[t], hw, freq)'
    <3>1. th'[t] = [th[t] EXCEPT !.todo = s]
      BY <1>8, <2>2 DEF Go, TypeInv
    <3>2. th[t] \in TuneCalls \cup LnbCalls
      BY <1>8 DEF TypeInv
    <3>3. th[t].call = th'[t].call
      BY <3>1, <3>2 DEF TuneCalls, LnbCalls
    <3>4. Undisturbed(t) /\ Place(th[t], hw, freq)
      BY <1>8, <2>1, <2>4, <3>3 DEF Undisturbed, TuneInv
    <3> QED
      BY <1>3, <1>8, <2>1, <3>4, OwnThoughtKeepsPlace
  <2> QED
    BY <2>3, <2>4 DEF TuneInv
<1>9. ASSUME TypeInv, TuneInv, NEW t \in Threads, Transfer(t)
      PROVE  TuneInv'
  <2>1. PICK new, well : Transferred(t, new, well)
    BY <1>9 DEF Transfer, Arrive, Lose, Ask, Misread, ReadIds, MisreadIds
  <2>2. type' = type /\ freq' = freq /\ Watch(t, well) /\ th' = [th EXCEPT ![t] = new]
    BY <2>1 DEF Transferred, driver
  <2>3. ASSUME NEW u \in Threads, u # t, Undisturbed(u)'
        PROVE  Place(th[u], hw, freq)'
    <3>1. th'[u] = th[u]
      BY <1>9, <2>2, <2>3 DEF TypeInv
    <3>2. th[u].call = "tune"
      BY <2>3, <3>1 DEF Undisturbed
    <3>3. clean'[u] => clean[u] /\ hw' = hw /\ freq' = freq
      BY <2>2, <2>3, <3>2 DEF Watch
    <3> QED
      BY <1>5, <1>9, <2>2, <2>3, <3>1, <3>3
  <2>4. ASSUME Undisturbed(t)'
        PROVE  Place(th[t], hw, freq)'
    <3>1. Undisturbed(t)
      BY <1>9, <2>4, UndisturbedTransfer
    <3>2. Place(th[t], hw, freq)
      BY <3>1, <1>9 DEF TuneInv
    <3> QED
      BY <1>3, <1>9, <2>2, <2>4, <3>2, OwnTransferKeepsPlace
  <2> QED
    BY <2>3, <2>4 DEF TuneInv
<1> QED
  BY <1>1, <1>2, <1>4, <1>6, <1>7, <1>8, <1>9 DEF TuneNext

(* A tuning that no failed transfer and no other thread disturbed leaves the *)
(* tuner at the channel, and a satellite one at the stream, that was asked   *)
(* for, whatever it tried on the way and whatever was left of earlier calls  *)
(* (sysctl_freq, SetFreq, bs_tune, ts_lock).                                 *)
THEOREM TunedAsAskedAlways == TuneSpec => []TunedAsAsked
<1>1. ASSUME TypeInv, TuneInv
      PROVE  TunedAsAsked
  <2> SUFFICES ASSUME NEW t \in Threads,
                      th[t].call = "tune", th[t].todo = <<>>, clean[t]
               PROVE  /\ AtChannel(IF type = "S" THEN th[t].ask.no ELSE th[t].ask)
                      /\ type = "S" /\ th[t].ids[th[t].ask.slot] # 0 =>
                            /\ hw.ts = TsId(th[t].ask.no, th[t].ask.slot)
                            /\ hw.ts_set = hw.ts
    BY DEF TunedAsAsked
  <2>1. Place(th[t], hw, freq)
    BY <1>1 DEF TuneInv, Undisturbed
  <2>2. CASE type = "T" /\ TPlace(th[t], hw)
    BY <2>2 DEF TPlace, AtChannel
  <2>3. CASE type = "S" /\ SPlace(th[t], hw)
    <3>1. th[t].todo \notin Searches(th[t])
      BY SearchesGoOn
    <3>2. ASSUME NEW s \in Searches(th[t]), SBefore(th[t], hw, s)
          PROVE  FALSE
      BY <3>2, WaysBegin
    <3>3. There(th[t], hw) /\ SAfter(th[t], hw) /\ IdsAreRight(th[t])
      BY <2>3, <3>1, <3>2 DEF SPlace
    <3>4. LET id == th[t].ids[th[t].ask.slot] IN hw.ts_set = id /\ hw.ts = id
      BY <3>3 DEF SAfter
    <3>5. th[t].ask.slot \in 0 .. Slots - 1
      BY <1>1 DEF TypeInv, TuneCalls, LnbCalls, Questions
    <3> QED
      BY <2>3, <3>3, <3>4, <3>5 DEF There, AtChannel, IdsAreRight
  <2> QED
    BY <2>1, <2>2, <2>3 DEF Place
<1>2. TuneInit => TypeInv /\ TuneInv
  BY TypeIsPreserved, TuneIsPreserved
<1>3. TypeInv /\ TuneInv /\ [TuneNext]_tuneVars => (TypeInv /\ TuneInv)'
  BY TypeIsPreserved, TuneIsPreserved
<1> QED
  BY <1>1, <1>2, <1>3, PTL DEF TuneSpec
=============================================================================
