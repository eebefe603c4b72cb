-------------------------- MODULE Pt3Channel_proofs --------------------------
(***************************************************************************)
(* Proofs about Pt3Channel, for any number of threads, channels, tries,    *)
(* calls and failures: the saved state of sleep is that of the chips, an   *)
(* open channel is awake, and a tuning that nothing disturbed has tuned as *)
(* it was asked.                                                           *)
(***************************************************************************)
EXTENDS Pt3Channel, SequenceLemmas

-----------------------------------------------------------------------------
(* Types.                                                                    *)

(* What a tuning does when its tuner is awake. *)
AgcOps  == [do : {"write"}, reg : {"agc"}, val : {"manual", "auto"}, drop : {All}]
ChanOps == [do : {"write"}, reg : {"N", "sd1", "sd2", "rf1", "rf2", "id"}, val : Nat,
            drop : {0, All}]
MemOps  == [do : {"sd", "mxfreq"}, reg : {None}, val : Nat, drop : {0}]
CopyOps == [do : {"copy"}, reg : {"sd2"}, val : {None}, drop : {All}]
PollOps == [do : {"locked", "tmcc_s", "tmcc_t"}, reg : {None}, val : {None}, drop : {0, All}]
IdOps   == [do : {"get_id"}, reg : {None}, val : Nat, drop : {All}]
FreqOps == AgcOps \cup ChanOps \cup MemOps \cup CopyOps \cup PollOps \cup IdOps

(* What set_tuner_sleep does besides, and what a call begins with. *)
SleepOps ==
    [do : {"write"}, reg : {"demod", "r01", "r05"}, val : BOOLEAN, drop : {0, 1}]
    \cup [do : {"copy"}, reg : {"r01", "r05"}, val : {None}, drop : {0}]
    \cup [do : {"issleep", "standby"}, reg : {None}, val : BOOLEAN, drop : {0}]
    \cup [do : {"mode", "wakeup", "slept"}, reg : {None}, val : {None}, drop : {0}]
CallOps == [do : {"wake?", "frequency"}, reg : {None}, val : {None}, drop : {0}]

Ops == FreqOps \cup SleepOps \cup CallOps

Chips == [demod : BOOLEAN, r01 : BOOLEAN, r05 : BOOLEAN, agc : {"manual", "auto"},
          id : Nat, N : Nat, sd1 : Nat, sd2 : Nat, rf1 : Nat, rf2 : Nat]

Copies == [r01 : BOOLEAN, r05 : BOOLEAN, sd2 : Nat]

Calls == [call : {"none", "open", "close", "tune"}, todo : Seq(Ops), n : Nat,
          ch : Nat \cup {None}]

TypeInv ==
    /\ type \in {"S", "T"} /\ valid \in Threads \cup {None}
    /\ issleep \in BOOLEAN /\ standby \in BOOLEAN /\ sfreq \in Nat /\ mxfreq \in Nat
    /\ reg \in Copies /\ hw \in Chips
    /\ th \in [Threads -> Calls]
    /\ clean \in [Threads -> BOOLEAN]
    /\ mixed \in BOOLEAN /\ agreed \in BOOLEAN /\ crossed \in BOOLEAN
    /\ signal \in {"searching", "locked", "retryov"}

-----------------------------------------------------------------------------
(* Sleep.                                                                    *)

(* What set_tuner_sleep reads and writes. *)
Sleep == [issleep |-> issleep, standby |-> standby, c01 |-> reg.r01, c05 |-> reg.r05,
          demod |-> hw.demod, r01 |-> hw.r01, r05 |-> hw.r05]

(* A call tells whether it puts the tuner to sleep, and what it does then.   *)
Sleeps(h) == h.call = "close"
Rest(h)   == IF h.call = "tune" THEN <<Local("frequency", None)>> ELSE <<>>

manual == Write("agc", "manual", All)
mode   == Local("mode", None)
slept  == Local("slept", None)
Demod(x) == Write("demod", x, 0)

(* The first transfer of a satellite tuner, and the last steps of both.      *)
Begin(x)  == IF x THEN manual ELSE Demod(FALSE)
End(h)    == IF Sleeps(h) THEN <<Demod(TRUE), slept>> \o Rest(h) ELSE <<slept>> \o Rest(h)

Fresh(h)   == h.call # "close" /\ h.call # "none" /\ h.todo = <<Local("wake?", None)>> \o Rest(h)

(* About to begin set_tuner_sleep; k is the type of the channel. *)
Waiting(k, h) ==
    LET x == Sleeps(h)
    IN  /\ h.call # "none"
        /\ \/ /\ k = "S"
              /\ h.todo = <<Local("issleep", x), Local("standby", x), Begin(x), mode>> \o End(h)
           \/ /\ k = "T" /\ x
              /\ h.todo = <<Local("issleep", x), manual, Write("r01", x, 0)>> \o End(h)
           \/ /\ k = "T" /\ ~ x
              /\ h.todo = <<Local("issleep", x), Demod(x), Write("r01", x, 0),
                            Local("wakeup", None)>> \o End(h)

(* In the middle of it: if no other was there and nothing failed (ok), f is  *)
(* what has been reached.                                                    *)
WithinS(h, ok, f) ==
    LET x == Sleeps(h)
    IN  \/ /\ h.todo = <<Local("standby", x), Begin(x), mode>> \o End(h)
           /\ ok => f.issleep = x
        \/ /\ h.todo = <<Begin(x), mode>> \o End(h)
           /\ ok => f.issleep = x /\ f.standby = x
        \/ /\ h.todo = <<mode>> \o End(h)
           /\ ok => f.issleep = x /\ f.standby = x /\ (~ x => ~ f.demod)
        \/ /\ h.todo = <<Write("r05", TRUE, 1), Copy("r01", 0)>> \o End(h)
           /\ ok => f.issleep = x /\ x /\ f.c01
        \/ /\ h.todo = <<Write("r01", FALSE, 1), Copy("r05", 0)>> \o End(h)
           /\ ok => f.issleep = x /\ ~ x /\ ~ f.c05 /\ ~ f.demod
        \/ /\ h.todo = <<Copy("r01", 0)>> \o End(h)
           /\ ok => f.issleep = x /\ x /\ f.c01 /\ f.r05
        \/ /\ h.todo = <<Copy("r05", 0)>> \o End(h)
           /\ ok => f.issleep = x /\ ~ x /\ ~ f.c05 /\ ~ f.demod /\ ~ f.r01
        \/ \E v \in BOOLEAN :
              /\ h.todo = <<Write("r01", v, 0)>> \o End(h)
              /\ ok => f.issleep = x /\ x /\ v /\ f.r05
        \/ \E v \in BOOLEAN :
              /\ h.todo = <<Write("r05", v, 0)>> \o End(h)
              /\ ok => f.issleep = x /\ ~ x /\ ~ v /\ ~ f.demod /\ ~ f.r01

WithinT(h, ok, f) ==
    LET x == Sleeps(h)
    IN  \/ /\ x /\ h.todo = <<manual, Write("r01", x, 0)>> \o End(h)
           /\ ok => f.issleep = x
        \/ /\ h.todo = <<Write("r01", x, 0)>> \o End(h) /\ x
           /\ ok => f.issleep = x
        \/ /\ ~ x /\ h.todo = <<Demod(x), Write("r01", x, 0), Local("wakeup", None)>> \o End(h)
           /\ ok => f.issleep = x
        \/ /\ ~ x /\ h.todo = <<Write("r01", x, 0), Local("wakeup", None)>> \o End(h)
           /\ ok => f.issleep = x /\ ~ f.demod
        \/ /\ ~ x /\ h.todo = <<Local("wakeup", None)>> \o End(h)
           /\ ok => f.issleep = x /\ ~ f.demod /\ ~ f.r01
        \/ \E v \in Nat :
              /\ ~ x /\ h.todo = <<Write("rf1", v, 0), Write("rf2", v, 0)>> \o End(h)
              /\ ok => f.issleep = x /\ ~ f.demod /\ ~ f.r01
        \/ \E v \in Nat :
              /\ ~ x /\ h.todo = <<Write("rf2", v, 0)>> \o End(h)
              /\ ok => f.issleep = x /\ ~ f.demod /\ ~ f.r01

Ended(k, h, ok, f) ==
    LET x == Sleeps(h)
    IN  \/ /\ h.todo = End(h)
           /\ ok => /\ f.issleep = x /\ f.r01 = x /\ (k = "S" => f.r05 = x)
                    /\ ~ x => ~ f.demod
        \/ /\ h.todo = <<slept>> \o Rest(h)
           /\ ok => /\ f.issleep = x /\ f.r01 = x /\ (k = "S" => f.r05 = x)
                    /\ f.demod = x

Within(k, h, ok, f) ==
    /\ h.call # "none"
    /\ \/ k = "S" /\ WithinS(h, ok, f)
       \/ k = "T" /\ WithinT(h, ok, f)
       \/ Ended(k, h, ok, f)

Begun(k, h) == Within(k, h, FALSE, None)

(* Outside of it, and after it. *)
Outside(h) ==
    \/ h.todo = <<>>
    \/ h.call = "tune" /\ (h.todo = Rest(h) \/ h.todo \in Seq(FreqOps))

(* If the latest command to sleep overlapped none and did not fail, it is    *)
(* alone, and has reached what its place says; when it has ended well,       *)
(* nobody is in the middle of another.                                       *)
SleepInv ==
    /\ \A t \in Threads : LET h == th[t]
          IN  Fresh(h) \/ Waiting(type, h) \/ Within(type, h, ~ mixed, Sleep) \/ Outside(h)
    /\ ~ mixed => \A t, u \in Threads : Begun(type, th[t]) /\ Begun(type, th[u]) => t = u
    /\ agreed => /\ \A t \in Threads : ~ Begun(type, th[t])
                 /\ IF issleep THEN Asleep ELSE Awake

(* A channel that is open and was not opened during a close is awake, or     *)
(* about to be woken by the thread that opened it; nobody else is at it.     *)
OpenInv ==
    valid # None /\ ~ crossed =>
        /\ \A t \in Threads : th[t].call # "close"
        /\ \/ ~ issleep
           \/ th[valid].call = "open" /\ (Fresh(th[valid]) \/ Waiting(type, th[valid]))

-----------------------------------------------------------------------------
(* A tuning.                                                                 *)

(* The places of SetChannel: r are the registers of the chips, c is the copy *)
(* of one.                                                                   *)
Up(k, r) == ~ r.demod /\ ~ r.r01 /\ (k = "S" => ~ r.r05)

auto == Write("agc", "auto", All)

SetS(l, ch, r, c) ==
    LET W(n)  == Write(n, ch, All)
        lock  == Poll("locked", All)
        tmcc  == Poll("tmcc_s", 0)
        there == r.N = ch /\ r.sd1 = ch /\ r.sd2 = ch
    IN  \/ l = <<manual, W("N"), Local("sd", ch), W("sd1"), Copy("sd2", All),
                      lock, auto, tmcc>>
        \/ l = <<W("N"), Local("sd", ch), W("sd1"), Copy("sd2", All), lock, auto, tmcc>>
        \/ /\ l = <<Local("sd", ch), W("sd1"), Copy("sd2", All), lock, auto, tmcc>>
           /\ r.N = ch
        \/ /\ l = <<W("sd1"), Copy("sd2", All), lock, auto, tmcc>>
           /\ r.N = ch /\ c = ch
        \/ /\ l = <<Copy("sd2", All), lock, auto, tmcc>>
           /\ r.N = ch /\ c = ch /\ r.sd1 = ch
        \/ l = <<W("sd2"), lock, auto, tmcc>> /\ r.N = ch /\ r.sd1 = ch
        \/ l = <<lock, auto, tmcc>> /\ there
        \/ l = <<auto, tmcc>> /\ there /\ Up("S", r)
        \/ l = <<tmcc>> /\ there /\ Up("S", r) /\ r.agc = "auto"
        \/ /\ l = <<W("id"), [Poll("get_id", All) EXCEPT !.val = ch]>>
           /\ there /\ Up("S", r) /\ r.agc = "auto"
        \/ /\ l = <<[Poll("get_id", All) EXCEPT !.val = ch]>>
           /\ there /\ Up("S", r) /\ r.agc = "auto"
        \/ l = <<>> /\ there /\ Up("S", r) /\ r.agc = "auto" /\ r.id = ch

SetT(l, ch, r) ==
    LET W(n)  == Write(n, ch, 0)
        lock  == Poll("locked", 0)
        tmcc  == Poll("tmcc_t", 0)
        there == r.rf1 = ch /\ r.rf2 = ch
    IN  \/ l = <<manual, Local("mxfreq", ch), W("rf1"), W("rf2"), lock, auto, tmcc>>
        \/ l = <<Local("mxfreq", ch), W("rf1"), W("rf2"), lock, auto, tmcc>>
        \/ l = <<W("rf1"), W("rf2"), lock, auto, tmcc>>
        \/ l = <<W("rf2"), lock, auto, tmcc>> /\ r.rf1 = ch
        \/ l = <<lock, auto, tmcc>> /\ there
        \/ l = <<auto, tmcc>> /\ there /\ Up("T", r)
        \/ l = <<tmcc>> /\ there /\ Up("T", r) /\ r.agc = "auto"
        \/ l = <<>> /\ there /\ Up("T", r) /\ r.agc = "auto"

(* Before it the driver remembers the channel. *)
Place(k, h, f, r, c) ==
    \/ h.ch = f /\ (Fresh(h) \/ Waiting(k, h) \/ Begun(k, h) \/ h.todo = Rest(h))
    \/ k = "S" /\ SetS(h.todo, h.ch, r, c)
    \/ k = "T" /\ SetT(h.todo, h.ch, r)

Undisturbed(t) == th[t].call = "tune" /\ clean[t]

TuneInv == \A t \in Threads : Undisturbed(t) => Place(type, th[t], sfreq, hw, reg.sd2)

-----------------------------------------------------------------------------
(* Types are kept.                                                           *)

LEMMA StepsAreOps ==
    /\ \A v \in {"manual", "auto"} : Write("agc", v, All) \in FreqOps
    /\ \A r \in {"N", "sd1", "sd2", "rf1", "rf2", "id"} : \A v \in Nat : \A d \in {0, All} :
          Write(r, v, d) \in FreqOps
    /\ \A r \in {"demod", "r01", "r05"} : \A v \in BOOLEAN : \A d \in {0, 1} :
          Write(r, v, d) \in SleepOps
    /\ \A v \in Nat : Local("sd", v) \in FreqOps /\ Local("mxfreq", v) \in FreqOps
    /\ \A v \in BOOLEAN : Local("issleep", v) \in SleepOps /\ Local("standby", v) \in SleepOps
    /\ \A w \in {"mode", "wakeup", "slept"} : Local(w, None) \in SleepOps
    /\ \A w \in {"wake?", "frequency"} : Local(w, None) \in CallOps
    /\ Copy("sd2", All) \in FreqOps
    /\ Copy("r01", 0) \in SleepOps /\ Copy("r05", 0) \in SleepOps
    /\ \A w \in {"locked", "tmcc_s", "tmcc_t"} : \A d \in {0, All} : Poll(w, d) \in FreqOps
    /\ \A v \in Nat : [Poll("get_id", All) EXCEPT !.val = v] \in FreqOps
<1>1. \A v \in Nat : [Poll("get_id", All) EXCEPT !.val = v] \in FreqOps
  <2> SUFFICES ASSUME NEW v \in Nat, NEW p, p = Poll("get_id", All)
               PROVE  [p EXCEPT !.val = v] \in FreqOps
    OBVIOUS
  <2>1. [p EXCEPT !.val = v] = [do |-> "get_id", reg |-> None, val |-> v, drop |-> All]
    BY DEF Poll
  <2> QED
    BY <2>1 DEF FreqOps, IdOps
<1>2. \A v \in {"manual", "auto"} : Write("agc", v, All) \in AgcOps
  BY DEF Write, AgcOps
<1>3. \A r \in {"N", "sd1", "sd2", "rf1", "rf2", "id"} : \A v \in Nat : \A d \in {0, All} :
          Write(r, v, d) \in ChanOps
  BY DEF Write, ChanOps
<1>4. /\ \A v \in Nat : Local("sd", v) \in MemOps /\ Local("mxfreq", v) \in MemOps
      /\ Copy("sd2", All) \in CopyOps
      /\ \A w \in {"locked", "tmcc_s", "tmcc_t"} : \A d \in {0, All} : Poll(w, d) \in PollOps
  BY DEF Local, Copy, Poll, MemOps, CopyOps, PollOps
<1>5. /\ \A r \in {"demod", "r01", "r05"} : \A v \in BOOLEAN : \A d \in {0, 1} :
            Write(r, v, d) \in SleepOps
      /\ \A v \in BOOLEAN : Local("issleep", v) \in SleepOps /\ Local("standby", v) \in SleepOps
      /\ \A w \in {"mode", "wakeup", "slept"} : Local(w, None) \in SleepOps
      /\ Copy("r01", 0) \in SleepOps /\ Copy("r05", 0) \in SleepOps
      /\ \A w \in {"wake?", "frequency"} : Local(w, None) \in CallOps
  BY DEF Write, Local, Copy, SleepOps, CallOps
<1> QED
  BY <1>1, <1>2, <1>3, <1>4, <1>5, Zenon DEF FreqOps

(* The functions of the code as lists. *)
LEMMA SleepIsSteps ==
    ASSUME NEW x \in BOOLEAN
    PROVE  /\ type = "S" => set_tuner_sleep(x) =
                IF x THEN <<Local("issleep", x), Local("standby", x), manual, mode,
                            Demod(x), slept>>
                ELSE <<Local("issleep", x), Local("standby", x), Demod(x), mode, slept>>
           /\ type # "S" => set_tuner_sleep(x) =
                IF x THEN <<Local("issleep", x), manual, Write("r01", x, 0), Demod(x), slept>>
                ELSE <<Local("issleep", x), Demod(x), Write("r01", x, 0),
                       Local("wakeup", None), slept>>
<1> DEFINE i == Local("issleep", x)
           s == Local("standby", x)
           w == Local("wakeup", None)
           r == Write("r01", x, 0)
           d == Write("demod", x, 0)
           m == Write("agc", "manual", All)
           o == Local("mode", None)
           l == Local("slept", None)
<1>1. pt3_qm_set_sleep(x) = IF x THEN <<s, m, o, d>> ELSE <<s, d, o>>
  <2>1. /\ x => pt3_qm_set_sleep(x) = <<s>> \o (<<m>> \o <<o, d>>)
        /\ ~ x => pt3_qm_set_sleep(x) = <<s>> \o <<d, o>>
    BY Zenon DEF pt3_qm_set_sleep, set_agc
  <2> HIDE DEF s, m, o, d
  <2>2. <<m>> \o <<o, d>> = <<m, o, d>> /\ <<s>> \o <<m, o, d>> = <<s, m, o, d>>
        /\ <<s>> \o <<d, o>> = <<s, d, o>>
    BY Join12, Join13, Zenon
  <2> QED
    BY <2>1, <2>2, Zenon
<1>2. pt3_mx_set_sleep(x) = IF x THEN <<m, r, d>> ELSE <<d, r, w>>
  <2>1. /\ x => pt3_mx_set_sleep(x) = <<m>> \o <<r, d>>
        /\ ~ x => pt3_mx_set_sleep(x) = <<d, r, w>>
    BY Zenon DEF pt3_mx_set_sleep, set_agc
  <2> HIDE DEF w, r, d, m
  <2>2. <<m>> \o <<r, d>> = <<m, r, d>>
    BY Join12, Zenon
  <2> QED
    BY <2>1, <2>2, Zenon
<1>3. /\ type = "S" => set_tuner_sleep(x) = (<<i>> \o pt3_qm_set_sleep(x)) \o <<l>>
      /\ type # "S" => set_tuner_sleep(x) = (<<i>> \o pt3_mx_set_sleep(x)) \o <<l>>
  BY Zenon DEF set_tuner_sleep
<1> HIDE DEF i, s, w, r, d, m, o, l
<1>4. /\ (<<i>> \o <<s, m, o, d>>) \o <<l>> = <<i, s, m, o, d, l>>
      /\ (<<i>> \o <<s, d, o>>) \o <<l>> = <<i, s, d, o, l>>
      /\ (<<i>> \o <<m, r, d>>) \o <<l>> = <<i, m, r, d, l>>
      /\ (<<i>> \o <<d, r, w>>) \o <<l>> = <<i, d, r, w, l>>
  <2>1. /\ <<i>> \o <<s, m, o, d>> = <<i, s, m, o, d>>
        /\ <<i>> \o <<s, d, o>> = <<i, s, d, o>>
        /\ <<i>> \o <<m, r, d>> = <<i, m, r, d>>
        /\ <<i>> \o <<d, r, w>> = <<i, d, r, w>>
    <3>1. <<i>> \o <<s, m, o, d>> = <<i, s, m, o, d>>
      BY Join14, Zenon
    <3>2. <<i>> \o <<s, d, o>> = <<i, s, d, o>>
      BY Join13, Zenon
    <3>3. <<i>> \o <<m, r, d>> = <<i, m, r, d>>
      BY Join13, Zenon
    <3>4. <<i>> \o <<d, r, w>> = <<i, d, r, w>>
      BY Join13, Zenon
    <3> QED
      BY <3>1, <3>2, <3>3, <3>4, Zenon
  <2>2. /\ <<i, s, m, o, d>> \o <<l>> = <<i, s, m, o, d, l>>
        /\ <<i, s, d, o>> \o <<l>> = <<i, s, d, o, l>>
        /\ <<i, m, r, d>> \o <<l>> = <<i, m, r, d, l>>
        /\ <<i, d, r, w>> \o <<l>> = <<i, d, r, w, l>>
    <3>1. <<i, s, m, o, d>> \o <<l>> = <<i, s, m, o, d, l>>
      BY Join51, Zenon
    <3>2. <<i, s, d, o>> \o <<l>> = <<i, s, d, o, l>>
      BY Join41, Zenon
    <3>3. <<i, m, r, d>> \o <<l>> = <<i, m, r, d, l>>
      BY Join41, Zenon
    <3>4. <<i, d, r, w>> \o <<l>> = <<i, d, r, w, l>>
      BY Join41, Zenon
    <3> QED
      BY <3>1, <3>2, <3>3, <3>4, Zenon
  <2> QED
    BY <2>1, <2>2, Zenon
<1> QED
  BY <1>1, <1>2, <1>3, <1>4, Zenon DEF i, s, w, r, d, m, o, l, manual, mode, slept, Demod

(* The list of steps that tunes, and that they touch nothing of sleep. *)
SetSteps(k, c) ==
    IF k = "S"
    THEN <<manual, Write("N", c, All), Local("sd", c), Write("sd1", c, All),
           Copy("sd2", All), Poll("locked", All), auto, Poll("tmcc_s", 0)>>
    ELSE <<manual, Local("mxfreq", c), Write("rf1", c, 0), Write("rf2", c, 0),
           Poll("locked", 0), auto, Poll("tmcc_t", 0)>>

(* SetChannel makes a list of steps.                                         *)
LEMMA SetChannelIsSteps ==
    ASSUME NEW c \in Nat
    PROVE  SetChannel(c) = SetSteps(type, c) /\ SetSteps(type, c) \in Seq(FreqOps)
<1> DEFINE m == Write("agc", "manual", All)
           a == Write("agc", "auto", All)
           n == Write("N", c, All)
           s == Local("sd", c)
           w == Write("sd1", c, All)
           p == Copy("sd2", All)
           l == Poll("locked", All)
           q == Poll("tmcc_s", 0)
           x == Local("mxfreq", c)
           r == Write("rf1", c, 0)
           v == Write("rf2", c, 0)
           k == Poll("locked", 0)
           z == Poll("tmcc_t", 0)
<1>1. /\ type = "S" => SetChannel(c) = (((<<m>> \o <<n, s, w, p>>) \o <<l>>) \o <<a>>) \o <<q>>
      /\ type # "S" => SetChannel(c) =
            ((((<<m>> \o <<x>>) \o <<r, v>>) \o <<k>>) \o <<a>>) \o <<z>>
  BY Zenon DEF SetChannel, pt3_qm_set_frequency, pt3_mx_set_frequency, set_agc, rftune
<1>2. /\ m \in FreqOps /\ a \in FreqOps /\ n \in FreqOps /\ s \in FreqOps /\ w \in FreqOps
      /\ p \in FreqOps /\ l \in FreqOps /\ q \in FreqOps
      /\ x \in FreqOps /\ r \in FreqOps /\ v \in FreqOps /\ k \in FreqOps /\ z \in FreqOps
  BY StepsAreOps
<1>3. /\ type = "S" => SetSteps(type, c) = <<m, n, s, w, p, l, a, q>>
      /\ type # "S" => SetSteps(type, c) = <<m, x, r, v, k, a, z>>
  BY Zenon DEF SetSteps, manual, auto
<1> HIDE DEF m, a, n, s, w, p, l, q, x, r, v, k, z
<1>4. (((<<m>> \o <<n, s, w, p>>) \o <<l>>) \o <<a>>) \o <<q>> = <<m, n, s, w, p, l, a, q>>
  <2>1. <<m>> \o <<n, s, w, p>> = <<m, n, s, w, p>>
    BY Join14, Zenon
  <2>2. <<m, n, s, w, p>> \o <<l>> = <<m, n, s, w, p, l>>
    BY Join51, ZenonT(60)
  <2>3. <<m, n, s, w, p, l>> \o <<a>> = <<m, n, s, w, p, l, a>>
    BY Join61, ZenonT(60)
  <2>4. <<m, n, s, w, p, l, a>> \o <<q>> = <<m, n, s, w, p, l, a, q>>
    BY Join71, ZenonT(60)
  <2> QED
    BY <2>1, <2>2, <2>3, <2>4, Zenon
<1>5. ((((<<m>> \o <<x>>) \o <<r, v>>) \o <<k>>) \o <<a>>) \o <<z>> = <<m, x, r, v, k, a, z>>
  <2>1. <<m>> \o <<x>> = <<m, x>>
    BY Join11, Zenon
  <2>2. <<m, x>> \o <<r, v>> = <<m, x, r, v>>
    BY Join22, Zenon
  <2>3. <<m, x, r, v>> \o <<k>> = <<m, x, r, v, k>>
    BY Join41, Zenon
  <2>4. <<m, x, r, v, k>> \o <<a>> = <<m, x, r, v, k, a>>
    BY Join51, ZenonT(60)
  <2>5. <<m, x, r, v, k, a>> \o <<z>> = <<m, x, r, v, k, a, z>>
    BY Join61, ZenonT(60)
  <2> QED
    BY <2>1, <2>2, <2>3, <2>4, <2>5, Zenon
<1>6. <<m, n, s, w, p, l, a, q>> \in Seq(FreqOps) /\ <<m, x, r, v, k, a, z>> \in Seq(FreqOps)
  <2> HIDE DEF FreqOps
  <2> QED
    BY <1>2
<1> QED
  BY <1>1, <1>3, <1>4, <1>5, <1>6, Zenon

(* set_tuner_sleep does too.                                                 *)
LEMMA SleepIsOps ==
    ASSUME type \in {"S", "T"}, NEW x \in BOOLEAN
    PROVE  set_tuner_sleep(x) \in Seq(Ops)
<1> DEFINE i == Local("issleep", x)
           s == Local("standby", x)
           w == Local("wakeup", None)
           r == Write("r01", x, 0)
           d == Write("demod", x, 0)
           m == Write("agc", "manual", All)
           o == Local("mode", None)
           l == Local("slept", None)
<1>1. /\ i \in Ops /\ s \in Ops /\ w \in Ops /\ r \in Ops /\ d \in Ops /\ m \in Ops
      /\ o \in Ops /\ l \in Ops
  BY StepsAreOps DEF Ops
<1>2. set_tuner_sleep(x) \in
        {<<i, s, m, o, d, l>>, <<i, s, d, o, l>>, <<i, m, r, d, l>>, <<i, d, r, w, l>>}
  <2>1. CASE type = "S"
    BY <2>1, SleepIsSteps, Zenon DEF i, s, w, r, d, m, o, l, manual, mode, slept, Demod
  <2>2. CASE type # "S"
    BY <2>2, SleepIsSteps, Zenon DEF i, s, w, r, d, m, o, l, manual, mode, slept, Demod
  <2> QED
    BY <2>1, <2>2
<1>3. /\ <<i, s, m, o, d, l>> \in Seq(Ops) /\ <<i, s, d, o, l>> \in Seq(Ops)
      /\ <<i, m, r, d, l>> \in Seq(Ops) /\ <<i, d, r, w, l>> \in Seq(Ops)
  <2> HIDE DEF Ops, i, s, w, r, d, m, o, l
  <2> QED
    BY <1>1
<1> QED
  <2> HIDE DEF Ops, i, s, w, r, d, m, o, l
  <2> QED
    BY <1>2, <1>3

(* What is told of a step by its name. *)
LEMMA KindsOfSteps ==
    ASSUME NEW op \in Ops
    PROVE  /\ op.do \in {"issleep", "standby"} => op.val \in BOOLEAN
           /\ op.do \in {"sd", "mxfreq", "get_id"} => op.val \in Nat
           /\ op.do = "write" =>
                /\ \/ op.reg \in {"demod", "r01", "r05"} /\ op.val \in BOOLEAN
                   \/ op.reg = "agc" /\ op.val \in {"manual", "auto"}
                   \/ op.reg \in {"N", "sd1", "sd2", "rf1", "rf2", "id"} /\ op.val \in Nat
                /\ op.drop \in {0, 1, All}
           /\ op.do = "copy" =>
                \/ op.reg \in {"r01", "r05"} /\ op.drop = 0
                \/ op.reg = "sd2" /\ op.drop = All
           /\ op.do \in {"issleep", "standby", "mode", "wakeup", "slept", "sd", "mxfreq", "copy",
                         "wake?", "frequency", "write", "locked", "tmcc_s", "tmcc_t", "get_id"}
<1>1. CASE op \in FreqOps
  BY <1>1 DEF FreqOps, AgcOps, ChanOps, MemOps, CopyOps, PollOps, IdOps
<1>2. CASE op \in SleepOps
  BY <1>2 DEF SleepOps
<1>3. CASE op \in CallOps
  BY <1>3 DEF CallOps
<1> QED
  BY <1>1, <1>2, <1>3 DEF Ops

LEMMA Lists ==
    ASSUME TypeInv, NEW t \in Threads
    PROVE  /\ th[t] \in Calls /\ th[t].todo \in Seq(Ops)
           /\ th[t].todo # <<>> => Head(th[t].todo) \in Ops /\ Tail(th[t].todo) \in Seq(Ops)
<1>1. th[t] \in Calls
  BY DEF TypeInv
<1>2. th[t].todo \in Seq(Ops)
  BY <1>1 DEF Calls
<1> HIDE DEF Ops
<1> QED
  BY <1>1, <1>2

(* Thread t goes on with the steps s, and with its call. *)
Goes(t, s) ==
    /\ th' \in [Threads -> Calls]
    /\ th'[t].todo = s /\ th'[t].call = th[t].call /\ th'[t].ch = th[t].ch
    /\ \A u \in Threads \ {t} : th'[u] = th[u]

LEMMA GoGoes ==
    ASSUME TypeInv, NEW t \in Threads, NEW s \in Seq(Ops)
    PROVE  /\ Go(t, s) => Goes(t, s)
           /\ \A new \in Calls : /\ th' = [th EXCEPT ![t] = new]
                                 /\ new.call = th[t].call /\ new.ch = th[t].ch
                                 => Goes(t, new.todo)
<1>1. th[t] \in Calls /\ th \in [Threads -> Calls]
  BY DEF TypeInv
<1>2. [th[t] EXCEPT !.todo = s] \in Calls
  BY <1>1 DEF Calls
<1>3. ASSUME Go(t, s) PROVE Goes(t, s)
  <2>1. th' = [th EXCEPT ![t] = [th[t] EXCEPT !.todo = s]]
    BY <1>3 DEF Go
  <2>2. LET h == [th[t] EXCEPT !.todo = s]
        IN  h.todo = s /\ h.call = th[t].call /\ h.ch = th[t].ch
    BY <1>1 DEF Calls
  <2> HIDE DEF Calls
  <2>3. th'[t] = [th[t] EXCEPT !.todo = s] /\ th' \in [Threads -> Calls]
    BY <1>1, <1>2, <2>1
  <2> QED
    BY <2>1, <2>2, <2>3, <1>1 DEF Goes
<1>4. ASSUME NEW new \in Calls, th' = [th EXCEPT ![t] = new],
             new.call = th[t].call, new.ch = th[t].ch
      PROVE  Goes(t, new.todo)
  BY <1>1, <1>4 DEF Goes
<1> QED
  BY <1>3, <1>4

(* Outcomes of a transfer. *)
LEMMA Outcomes ==
    ASSUME TypeInv, NEW t \in Threads, th[t].todo # <<>>, NEW op \in Ops
    PROVE  /\ Done(t) \in Calls /\ Done(t).todo = Tail(th[t].todo)
           /\ op.drop \in Nat =>
                Drop(t, op) \in Calls
                /\ Drop(t, op).todo = SubSeq(th[t].todo, 2 + op.drop, Len(th[t].todo))
           /\ GiveUp(t) \in Calls /\ GiveUp(t).todo = <<>>
           /\ Retry(t) \in Calls
           /\ Retry(t).todo = IF th[t].n + 1 < Tries THEN th[t].todo ELSE <<>>
           /\ \A new \in {Done(t), Drop(t, op), GiveUp(t), Retry(t), th[t]} :
                new.call = th[t].call /\ new.ch = th[t].ch
<1>1. /\ th[t] \in Calls /\ th[t].todo \in Seq(Ops) /\ Tail(th[t].todo) \in Seq(Ops)
      /\ <<>> \in Seq(Ops)
  BY Lists
<1>2. th[t].n + 1 \in Nat
  BY <1>1 DEF Calls
<1>3. ASSUME op.drop \in Nat
      PROVE  SubSeq(th[t].todo, 2 + op.drop, Len(th[t].todo)) \in Seq(Ops)
  <2> HIDE DEF Ops
  <2> QED
    BY <1>1, <1>3
<1> HIDE DEF Ops
<1>4. Done(t) \in Calls /\ Done(t).todo = Tail(th[t].todo)
  BY <1>1 DEF Done, Calls
<1>5. op.drop \in Nat =>
        /\ Drop(t, op) \in Calls
        /\ Drop(t, op).todo = SubSeq(th[t].todo, 2 + op.drop, Len(th[t].todo))
  BY <1>1, <1>3 DEF Drop, Calls
<1>6. GiveUp(t) \in Calls /\ GiveUp(t).todo = <<>>
  BY <1>1 DEF GiveUp, Calls
<1>7. /\ [th[t] EXCEPT !.n = @ + 1] \in Calls
      /\ [th[t] EXCEPT !.n = @ + 1].todo = th[t].todo
      /\ [th[t] EXCEPT !.n = @ + 1].call = th[t].call
      /\ [th[t] EXCEPT !.n = @ + 1].ch = th[t].ch
  BY <1>1, <1>2 DEF Calls
<1>8. \A new \in {Done(t), Drop(t, op), GiveUp(t)} : new.call = th[t].call /\ new.ch = th[t].ch
  BY <1>1 DEF Done, Drop, GiveUp, Calls
<1>9. Retry(t) = IF th[t].n + 1 < Tries THEN [th[t] EXCEPT !.n = @ + 1] ELSE GiveUp(t)
  BY DEF Retry
<1>10. CASE th[t].n + 1 < Tries
  <2>1. Retry(t) = [th[t] EXCEPT !.n = @ + 1]
    BY <1>9, <1>10
  <2> QED
    BY <1>4, <1>5, <1>6, <1>7, <1>8, <1>10, <2>1
<1>11. CASE ~ (th[t].n + 1 < Tries)
  <2>1. Retry(t) = GiveUp(t)
    BY <1>9, <1>11
  <2> QED
    BY <1>4, <1>5, <1>6, <1>8, <1>11, <2>1
<1> QED
  BY <1>10, <1>11

(* The effect of each step in the memory of the driver. *)
LEMMA Thoughts ==
    ASSUME TypeInv, NEW t \in Threads, th[t].todo # <<>>, Think(t),
           NEW op, op = Head(th[t].todo), NEW s, s = Tail(th[t].todo)
    PROVE  /\ op.do \in {"issleep", "slept", "standby", "sd", "mxfreq", "wake?", "frequency",
                         "mode", "wakeup", "copy"}
           /\ UNCHANGED <<type, valid, sfreq, hw, signal, crossed>> /\ Watch(t, TRUE)
           /\ op.do = "issleep" =>
                /\ issleep' = op.val /\ mixed' = (Sleepers # {t}) /\ agreed' = FALSE
                /\ Goes(t, s) /\ UNCHANGED <<standby, reg, mxfreq>>
           /\ op.do = "slept" =>
                /\ agreed' = (Sleepers = {t} /\ ~ mixed) /\ mixed' = mixed
                /\ Goes(t, s) /\ UNCHANGED <<issleep, standby, reg, mxfreq>>
           /\ op.do \notin {"issleep", "slept"} => UNCHANGED <<issleep, mixed, agreed>>
           /\ op.do = "standby" => standby' = op.val /\ Goes(t, s) /\ UNCHANGED <<reg, mxfreq>>
           /\ op.do = "sd" => /\ reg' = [reg EXCEPT !.sd2 = op.val]
                              /\ Goes(t, s) /\ UNCHANGED <<standby, mxfreq>>
           /\ op.do = "mxfreq" => mxfreq' = op.val /\ Goes(t, s) /\ UNCHANGED <<standby, reg>>
           /\ op.do \in {"wake?", "frequency", "wakeup", "copy"} => UNCHANGED <<standby, reg, mxfreq>>
           /\ op.do = "wake?" =>
                Go(t, (IF issleep THEN set_tuner_sleep(FALSE) ELSE <<>>) \o s)
           /\ op.do = "frequency" => Go(t, SetChannel(sfreq) \o s)
           /\ op.do = "mode" =>
                /\ reg' = [reg EXCEPT !.r01 = standby, !.r05 = standby]
                /\ Go(t, SleepMode \o s) /\ UNCHANGED <<standby, mxfreq>>
           /\ op.do = "wakeup" => Go(t, rftune(mxfreq) \o s)
           /\ op.do = "copy" => Go(t, <<Write(op.reg, reg[op.reg], op.drop)>> \o s)
<1>1. op \in Ops /\ s \in Seq(Ops)
  BY Lists
<1>2. Go(t, s) => Goes(t, s)
  BY <1>1, GoGoes
<1>3. /\ UNCHANGED <<type, valid, hw, signal, crossed>> /\ Watch(t, TRUE)
      /\ BeginSleep(t, op) \/ EndSleep(t, op) \/ SetCopies(t, op) \/ Branch(t, op)
  BY Zenon DEF Think, Head1
<1>4. CASE BeginSleep(t, op)
  BY <1>2, <1>3, <1>4 DEF BeginSleep
<1>5. CASE EndSleep(t, op)
  BY <1>2, <1>3, <1>5 DEF EndSleep, driver
<1>6. CASE SetCopies(t, op)
  BY <1>2, <1>3, <1>6 DEF SetCopies, history
<1>7. CASE Branch(t, op)
  BY <1>3, <1>7 DEF Branch, history, MustWake
<1> QED
  BY <1>3, <1>4, <1>5, <1>6, <1>7

(* That of each transfer. *)
LEMMA Transfers ==
    ASSUME TypeInv, NEW t \in Threads, th[t].todo # <<>>, Transfer(t),
           NEW op, op = Head(th[t].todo), NEW s, s = Tail(th[t].todo)
    PROVE  /\ op.do \in {"write", "locked", "tmcc_s", "get_id", "tmcc_t"}
           /\ UNCHANGED <<type, valid, driver, agreed, crossed>>
           /\ op.do = "write" =>
                \/ /\ hw' = [hw EXCEPT ![op.reg] = op.val] /\ mixed' = mixed
                   /\ Goes(t, s) /\ Watch(t, TRUE)
                   /\ signal' \in {"searching", signal}
                \/ /\ hw' = hw /\ mixed' = (mixed \/ t \in Sleepers)
                   /\ Goes(t, SubSeq(th[t].todo, 2 + op.drop, Len(th[t].todo)))
                   /\ Watch(t, FALSE) /\ signal' = signal
           /\ op.do # "write" =>
                /\ hw' = hw /\ mixed' = mixed /\ signal' = signal
                /\ \/ \E new \in {s, <<>>, th[t].todo} : Goes(t, new) /\ Watch(t, FALSE)
                   \/ Goes(t, th[t].todo) /\ Watch(t, TRUE)
                   \/ /\ Goes(t, s) /\ Watch(t, TRUE)
                      /\ op.do = "locked" => Awake
                      /\ op.do = "get_id" => hw.id = op.val
                      /\ op.do # "tmcc_s"
                   \/ /\ op.do = "tmcc_s" /\ Awake
                      /\ \E c \in 0 .. Channels :
                            /\ TunedTo(c)
                            /\ Goes(t, <<Write("id", c, All),
                                         [Poll("get_id", All) EXCEPT !.val = c]>> \o s)
                      /\ Watch(t, TRUE)
<1> DEFINE l == th[t].todo
           Result ==
              \/ \E new \in {s, <<>>, l} : Goes(t, new) /\ Watch(t, FALSE)
              \/ Goes(t, l) /\ Watch(t, TRUE)
              \/ /\ Goes(t, s) /\ Watch(t, TRUE)
                 /\ op.do = "locked" => Awake
                 /\ op.do = "get_id" => hw.id = op.val
                 /\ op.do # "tmcc_s"
              \/ /\ op.do = "tmcc_s" /\ Awake
                 /\ \E c \in 0 .. Channels :
                       /\ TunedTo(c)
                       /\ Goes(t, <<Write("id", c, All),
                                    [Poll("get_id", All) EXCEPT !.val = c]>> \o s)
                 /\ Watch(t, TRUE)
<1>1. op \in Ops /\ s \in Seq(Ops) /\ th[t] \in Calls /\ l \in Seq(Ops)
  BY Lists
<1>2. \A new \in Calls, well \in BOOLEAN :
         Transferred(t, new, well) /\ new.call = th[t].call /\ new.ch = th[t].ch
         => /\ Goes(t, new.todo) /\ Watch(t, well)
            /\ UNCHANGED <<type, valid, driver, crossed>>
  <2> SUFFICES ASSUME NEW new \in Calls, NEW well \in BOOLEAN, Transferred(t, new, well),
                      new.call = th[t].call, new.ch = th[t].ch
               PROVE  /\ Goes(t, new.todo) /\ Watch(t, well)
                      /\ UNCHANGED <<type, valid, driver, crossed>>
    BY Zenon
  <2>1. /\ th' = [th EXCEPT ![t] = new] /\ Watch(t, well)
        /\ UNCHANGED <<type, valid, driver, crossed>>
    BY Zenon DEF Transferred
  <2>2. Goes(t, new.todo)
    <3> HIDE DEF Calls
    <3> QED
      BY GoGoes, <1>1, <2>1
  <2> QED
    BY <2>1, <2>2, Zenon
<1>3. /\ Done(t) \in Calls /\ Done(t).todo = s
      /\ GiveUp(t) \in Calls /\ GiveUp(t).todo = <<>>
      /\ Retry(t) \in Calls /\ Retry(t).todo = IF th[t].n + 1 < Tries THEN l ELSE <<>>
      /\ op.drop \in Nat => Drop(t, op) \in Calls /\ Drop(t, op).todo = SubSeq(l, 2 + op.drop, Len(l))
      /\ \A new \in {Done(t), Drop(t, op), GiveUp(t), Retry(t), th[t]} :
            new.call = th[t].call /\ new.ch = th[t].ch
  BY <1>1, Outcomes
<1>4. Again(t) => (Result /\ UNCHANGED <<type, valid, driver, crossed>>)
  <2>1. SUFFICES ASSUME Again(t)
                 PROVE  Result /\ UNCHANGED <<type, valid, driver, crossed>>
    OBVIOUS
  <2>2. Transferred(t, Retry(t), th[t].n + 1 < Tries) /\ (th[t].n + 1 < Tries) \in BOOLEAN
    BY <2>1 DEF Again
  <2>3. /\ Goes(t, Retry(t).todo) /\ Watch(t, th[t].n + 1 < Tries)
        /\ UNCHANGED <<type, valid, driver, crossed>>
    <3> HIDE DEF Calls
    <3> QED
      BY <2>2, <1>2, <1>3
  <2>4. CASE th[t].n + 1 < Tries
    <3>1. Watch(t, TRUE)
      BY <2>3, <2>4 DEF Watch
    <3>2. Goes(t, l)
      BY <2>3, <2>4, <1>3
    <3> QED
      BY <3>1, <3>2, <2>3, Zenon
  <2>5. CASE ~ (th[t].n + 1 < Tries)
    <3>1. Watch(t, FALSE)
      BY <2>3, <2>5 DEF Watch
    <3>2. Goes(t, <<>>)
      BY <2>3, <2>5, <1>3
    <3> QED
      BY <3>1, <3>2, <2>3, Zenon
  <2> QED
    BY <2>4, <2>5
<1>5. ASSUME Transferred(t, Done(t), TRUE)
      PROVE  Goes(t, s) /\ Watch(t, TRUE) /\ UNCHANGED <<type, valid, driver, crossed>>
  <2> HIDE DEF Calls
  <2> QED
    BY <1>2, <1>3, <1>5
<1> DEFINE Kept == UNCHANGED <<type, valid, driver, agreed, crossed>>
<1>6. CASE Arrive(t, op)
  <2>1. Transferred(t, Done(t), TRUE)
    BY <1>6, Zenon DEF Arrive
  <2>2. Goes(t, s) /\ Watch(t, TRUE) /\ UNCHANGED <<type, valid, driver, crossed>>
    BY <1>5, <2>1
  <2> QED
    BY <1>6, <2>2 DEF Arrive, history
<1>7. CASE Fail(t, op)
  <2>1. Transferred(t, Drop(t, op), FALSE) /\ op.do = "write"
    BY <1>7, Zenon DEF Fail
  <2>2. op.drop \in Nat
    BY <1>1, <2>1, KindsOfSteps DEF All
  <2>3. /\ Goes(t, SubSeq(l, 2 + op.drop, Len(l))) /\ Watch(t, FALSE)
        /\ UNCHANGED <<type, valid, driver, crossed>>
    <3> HIDE DEF Calls, l
    <3> QED
      BY <1>2, <1>3, <2>1, <2>2
  <2> QED
    BY <1>7, <2>1, <2>3 DEF Fail
<1> DEFINE Polled == /\ op.do \in {"locked", "tmcc_s", "get_id", "tmcc_t"}
                     /\ Kept /\ hw' = hw /\ mixed' = mixed /\ signal' = signal /\ Result
<1>8. ASSUME PollLocked(t, op)
      PROVE  Polled
  <2>1. CASE Awake /\ Transferred(t, Done(t), TRUE)
    BY <1>8, <2>1, <1>5 DEF PollLocked, history
  <2>2. CASE Again(t)
    <3> HIDE DEF Result
    <3> QED
      BY <1>8, <2>2, <1>4 DEF PollLocked, history
  <2>3. Again(t) \/ (Awake /\ Transferred(t, Done(t), TRUE))
    BY <1>8, Zenon DEF PollLocked
  <2> QED
    BY <2>1, <2>2, <2>3
<1>9. ASSUME PollTmccS(t, op)
      PROVE  Polled
  <2>1. ASSUME NEW c \in 0 .. Channels, TunedTo(c), Awake,
               Transferred(t, [Done(t) EXCEPT !.todo =
                    <<Write("id", c, All), [Poll("get_id", All) EXCEPT !.val = c]>> \o @], TRUE)
        PROVE  Polled
    <3> DEFINE two == <<Write("id", c, All), [Poll("get_id", All) EXCEPT !.val = c]>>
               new == [Done(t) EXCEPT !.todo = two \o @]
    <3>1. Write("id", c, All) \in Ops /\ [Poll("get_id", All) EXCEPT !.val = c] \in Ops
      BY Pt3ChannelAssumption, StepsAreOps DEF Ops
    <3>2. two \in Seq(Ops)
      <4> HIDE DEF Ops
      <4> QED
        BY <3>1
    <3>3. two \o s \in Seq(Ops)
      <4> HIDE DEF Ops, two
      <4> QED
        BY <1>1, <3>2, ConcatProperties
    <3>4. /\ new \in Calls /\ new.todo = two \o s
          /\ new.call = th[t].call /\ new.ch = th[t].ch
      <4> HIDE DEF Ops, two
      <4>1. Done(t).call = th[t].call /\ Done(t).ch = th[t].ch
        BY <1>3
      <4> HIDE DEF Done
      <4> QED
        BY <1>3, <3>3, <4>1 DEF Calls
    <3>5. Goes(t, two \o s) /\ Watch(t, TRUE) /\ UNCHANGED <<type, valid, driver, crossed>>
      <4> HIDE DEF Calls, two
      <4>1. Transferred(t, new, TRUE)
        BY <2>1 DEF two
      <4> HIDE DEF new
      <4> QED
        BY <1>2, <3>4, <4>1
    <3> QED
      BY <1>9, <2>1, <3>5, Zenon DEF PollTmccS, two, history
  <2>2. CASE Again(t)
    <3> HIDE DEF Result
    <3> QED
      BY <1>9, <2>2, <1>4 DEF PollTmccS, history
  <2>3. \/ Again(t)
        \/ \E c \in 0 .. Channels :
              /\ TunedTo(c) /\ Awake
              /\ Transferred(t, [Done(t) EXCEPT !.todo =
                    <<Write("id", c, All), [Poll("get_id", All) EXCEPT !.val = c]>> \o @], TRUE)
    BY <1>9, Zenon DEF PollTmccS
  <2> HIDE DEF Polled
  <2> QED
    BY <2>1, <2>2, <2>3, Zenon
<1>10. ASSUME PollId(t, op)
      PROVE  Polled
  <2>1. CASE hw.id = op.val /\ Transferred(t, Done(t), TRUE)
    BY <1>10, <2>1, <1>5 DEF PollId, history
  <2>2. CASE Again(t)
    <3> HIDE DEF Result
    <3> QED
      BY <1>10, <2>2, <1>4 DEF PollId, history
  <2>3. Again(t) \/ (hw.id = op.val /\ Transferred(t, Done(t), TRUE))
    BY <1>10, Zenon DEF PollId
  <2> QED
    BY <2>1, <2>2, <2>3
<1>11. ASSUME PollTmccT(t, op)
      PROVE  Polled
  <2>1. \/ Transferred(t, Done(t), TRUE) \/ Again(t) \/ Transferred(t, th[t], TRUE)
    <3>1. /\ signal = "locked" => Transferred(t, Done(t), TRUE)
          /\ signal = "retryov" => Again(t)
          /\ signal = "searching" => Transferred(t, th[t], TRUE)
      BY <1>11 DEF PollTmccT, AgainOuter
    <3> QED
      BY <3>1 DEF TypeInv
  <2>2. CASE Transferred(t, Done(t), TRUE)
    BY <1>11, <2>2, <1>5 DEF PollTmccT, history
  <2>3. CASE Again(t)
    <3> HIDE DEF Result
    <3> QED
      BY <1>11, <2>3, <1>4 DEF PollTmccT, history
  <2>4. CASE Transferred(t, th[t], TRUE)
    <3>1. Goes(t, l) /\ Watch(t, TRUE) /\ UNCHANGED <<type, valid, driver, crossed>>
      <4> HIDE DEF Calls
      <4> QED
        BY <1>1, <1>2, <2>4
    <3> QED
      BY <1>11, <3>1 DEF PollTmccT, history
  <2> QED
    BY <2>1, <2>2, <2>3, <2>4
<1>12. ASSUME FailPoll(t, op)
      PROVE  Polled
  <2>1. PICK new \in {GiveUp(t), Retry(t), Done(t), th[t]} : Transferred(t, new, FALSE)
    BY <1>12, Zenon DEF FailPoll
  <2>2. new \in Calls /\ new.todo \in {s, <<>>, l} /\ new.call = th[t].call /\ new.ch = th[t].ch
    <3> HIDE DEF Calls
    <3> QED
      BY <1>1, <1>3, <2>1
  <2>3. Goes(t, new.todo) /\ Watch(t, FALSE) /\ UNCHANGED <<type, valid, driver, crossed>>
    <3> HIDE DEF Calls
    <3> QED
      BY <1>2, <2>1, <2>2
  <2> QED
    BY <1>12, <2>2, <2>3 DEF FailPoll, history
<1>13. \/ Arrive(t, op) \/ Fail(t, op) \/ PollLocked(t, op) \/ PollTmccS(t, op)
       \/ PollId(t, op) \/ PollTmccT(t, op) \/ FailPoll(t, op)
  BY Zenon DEF Transfer, Head1
<1> QED
  BY <1>6, <1>7, <1>8, <1>9, <1>10, <1>11, <1>12, <1>13, Zenon

LEMMA WatchIsTyped ==
    ASSUME TypeInv, NEW t \in Threads, NEW well \in BOOLEAN, Watch(t, well)
    PROVE  clean' \in [Threads -> BOOLEAN]
<1>1. \A u \in Threads :
        (\/ th[u].call # "tune"
         \/ clean[u] /\ IF u = t THEN well ELSE shared' = shared) \in BOOLEAN
  OBVIOUS
<1> QED
  BY <1>1, Zenon DEF Watch

(* A call that begins. *)
Begins(t, call, ops, ch) ==
    /\ th' \in [Threads -> Calls]
    /\ th'[t].call = call /\ th'[t].todo = ops /\ th'[t].ch = ch
    /\ \A u \in Threads \ {t} : th'[u] = th[u]

LEMMA CallBegins ==
    ASSUME TypeInv, NEW t \in Threads, NEW call \in {"open", "close", "tune"},
           NEW ops \in Seq(Ops), NEW ch \in Nat \cup {None}, Call(t, call, ops, ch)
    PROVE  /\ Begins(t, call, ops, ch) /\ th[t].call = "none"
           /\ Watch(t, TRUE) /\ UNCHANGED <<type, signal, mixed, agreed>>
<1> DEFINE new == [Idle EXCEPT !.call = call, !.todo = ops, !.ch = ch]
<1>1. Idle \in Calls
  BY EmptySeq DEF Idle, Calls
<1>2. new \in Calls /\ new.call = call /\ new.todo = ops /\ new.ch = ch
  <2> HIDE DEF Ops, Idle
  <2> QED
    BY <1>1 DEF Calls
<1>3. th' = [th EXCEPT ![t] = new]
  BY DEF Call
<1>4. Begins(t, call, ops, ch)
  <2> HIDE DEF new, Calls
  <2> QED
    BY <1>2, <1>3 DEF Begins, TypeInv
<1> QED
  BY <1>4 DEF Call, Busy, history

LEMMA BranchesAreOps ==
    ASSUME TypeInv, NEW t \in Threads, th[t].todo # <<>>,
           NEW op, op = Head(th[t].todo), NEW s, s = Tail(th[t].todo)
    PROVE  /\ (IF issleep THEN set_tuner_sleep(FALSE) ELSE <<>>) \o s \in Seq(Ops)
           /\ SetChannel(sfreq) \o s \in Seq(Ops)
           /\ SleepMode \o s \in Seq(Ops)
           /\ rftune(mxfreq) \o s \in Seq(Ops)
           /\ op.do = "copy" => <<Write(op.reg, reg[op.reg], op.drop)>> \o s \in Seq(Ops)
<1>1. op \in Ops /\ s \in Seq(Ops)
  BY Lists
<1>2. (IF issleep THEN set_tuner_sleep(FALSE) ELSE <<>>) \in Seq(Ops)
  <2>1. set_tuner_sleep(FALSE) \in Seq(Ops)
    BY SleepIsOps DEF TypeInv
  <2>2. <<>> \in Seq(Ops)
    BY EmptySeq
  <2> QED
    BY <2>1, <2>2, Zenon
<1>3. SetChannel(sfreq) \in Seq(Ops)
  <2>1. SetChannel(sfreq) \in Seq(FreqOps)
    BY SetChannelIsSteps DEF TypeInv
  <2>2. FreqOps \subseteq Ops
    BY DEF Ops
  <2> QED
    BY <2>1, <2>2, SeqMonotonic, Zenon
<1>4. SleepMode \in Seq(Ops)
  <2> DEFINE a == Write("r05", standby, 1)
             b == Copy("r01", 0)
             c == Write("r01", standby, 1)
             d == Copy("r05", 0)
  <2>1. a \in Ops /\ b \in Ops /\ c \in Ops /\ d \in Ops
    BY StepsAreOps DEF TypeInv, Ops
  <2>2. SleepMode \in {<<a, b>>, <<c, d>>}
    BY Zenon DEF SleepMode
  <2> HIDE DEF Ops, a, b, c, d
  <2>3. <<a, b>> \in Seq(Ops) /\ <<c, d>> \in Seq(Ops)
    BY <2>1
  <2> QED
    BY <2>2, <2>3, Zenon
<1>5. rftune(mxfreq) \in Seq(Ops)
  <2>1. Write("rf1", mxfreq, 0) \in Ops /\ Write("rf2", mxfreq, 0) \in Ops
    BY StepsAreOps DEF TypeInv, Ops
  <2> HIDE DEF Ops
  <2> QED
    BY <2>1 DEF rftune
<1>6. op.do = "copy" => <<Write(op.reg, reg[op.reg], op.drop)>> \in Seq(Ops)
  <2>1. SUFFICES ASSUME op.do = "copy"
                 PROVE  <<Write(op.reg, reg[op.reg], op.drop)>> \in Seq(Ops)
    OBVIOUS
  <2>2. \/ op.reg \in {"r01", "r05"} /\ op.drop = 0
        \/ op.reg = "sd2" /\ op.drop = All
    BY <1>1, <2>1, KindsOfSteps
  <2>3. Write(op.reg, reg[op.reg], op.drop) \in Ops
    <3>1. CASE op.reg \in {"r01", "r05"} /\ op.drop = 0
      <4>1. reg[op.reg] \in BOOLEAN
        BY <3>1 DEF TypeInv, Copies
      <4> QED
        BY <3>1, <4>1, StepsAreOps DEF Ops
    <3>2. CASE op.reg = "sd2" /\ op.drop = All
      <4>1. reg[op.reg] \in Nat
        BY <3>2 DEF TypeInv, Copies
      <4> QED
        BY <3>2, <4>1, StepsAreOps DEF Ops
    <3> QED
      BY <2>2, <3>1, <3>2
  <2> HIDE DEF Ops
  <2> QED
    BY <2>3
<1> QED
  <2> HIDE DEF Ops
  <2> DEFINE w == (IF issleep THEN set_tuner_sleep(FALSE) ELSE <<>>)
             f == SetChannel(sfreq)
             m == SleepMode
             r == rftune(mxfreq)
             c == <<Write(op.reg, reg[op.reg], op.drop)>>
  <2>1. w \in Seq(Ops) /\ f \in Seq(Ops) /\ m \in Seq(Ops) /\ r \in Seq(Ops)
    BY <1>2, <1>3, <1>4, <1>5
  <2>2. op.do = "copy" => c \in Seq(Ops)
    BY <1>6
  <2> HIDE DEF w, f, m, r, c
  <2>3. /\ w \o s \in Seq(Ops) /\ f \o s \in Seq(Ops) /\ m \o s \in Seq(Ops)
        /\ r \o s \in Seq(Ops) /\ (op.do = "copy" => c \o s \in Seq(Ops))
    BY <1>1, <2>1, <2>2, ConcatProperties
  <2> QED
    BY <2>3 DEF w, f, m, r, c

(* So every such step goes on with these steps. *)
LEMMA Branches ==
    ASSUME TypeInv, NEW t \in Threads, th[t].todo # <<>>, Think(t),
           NEW op, op = Head(th[t].todo), NEW s, s = Tail(th[t].todo)
    PROVE  /\ op.do = "wake?" =>
                Goes(t, (IF issleep THEN set_tuner_sleep(FALSE) ELSE <<>>) \o s)
           /\ op.do = "frequency" => Goes(t, SetChannel(sfreq) \o s)
           /\ op.do = "mode" => Goes(t, SleepMode \o s)
           /\ op.do = "wakeup" => Goes(t, rftune(mxfreq) \o s)
           /\ op.do = "copy" => Goes(t, <<Write(op.reg, reg[op.reg], op.drop)>> \o s)
<1> DEFINE w == (IF issleep THEN set_tuner_sleep(FALSE) ELSE <<>>) \o s
           f == SetChannel(sfreq) \o s
           m == SleepMode \o s
           r == rftune(mxfreq) \o s
           c == <<Write(op.reg, reg[op.reg], op.drop)>> \o s
<1>1. /\ w \in Seq(Ops) /\ f \in Seq(Ops) /\ m \in Seq(Ops) /\ r \in Seq(Ops)
      /\ op.do = "copy" => c \in Seq(Ops)
  BY BranchesAreOps
<1>2. /\ op.do = "wake?" => Go(t, w)
      /\ op.do = "frequency" => Go(t, f)
      /\ op.do = "mode" => Go(t, m)
      /\ op.do = "wakeup" => Go(t, r)
      /\ op.do = "copy" => Go(t, c)
  BY Thoughts
<1> HIDE DEF w, f, m, r, c, Ops
<1>3. \A x \in Seq(Ops) : Go(t, x) => Goes(t, x)
  BY GoGoes
<1>4. /\ op.do = "wake?" => Goes(t, w)
      /\ op.do = "frequency" => Goes(t, f)
      /\ op.do = "mode" => Goes(t, m)
      /\ op.do = "wakeup" => Goes(t, r)
      /\ op.do = "copy" => Goes(t, c)
  BY <1>1, <1>2, <1>3
<1> QED
  BY <1>4 DEF w, f, m, r, c

LEMMA ThoughtsAreTyped ==
    ASSUME TypeInv, NEW t \in Threads, th[t].todo # <<>>, Think(t)
    PROVE  TypeInv'
<1> DEFINE op == Head(th[t].todo)
           s  == Tail(th[t].todo)
<1>1. op \in Ops
  BY Lists
<1>2. /\ op.do \in {"issleep", "slept", "standby", "sd", "mxfreq", "wake?", "frequency",
                    "mode", "wakeup", "copy"}
      /\ UNCHANGED <<type, valid, sfreq, hw, signal, crossed>> /\ Watch(t, TRUE)
  BY Thoughts, Zenon
<1>3. clean' \in [Threads -> BOOLEAN]
  BY <1>2, WatchIsTyped
<1>4. /\ op.do \in {"issleep", "standby"} => op.val \in BOOLEAN
      /\ op.do \in {"sd", "mxfreq"} => op.val \in Nat
  BY <1>1, KindsOfSteps
<1>5. issleep' \in BOOLEAN /\ mixed' \in BOOLEAN /\ agreed' \in BOOLEAN
  <2>1. /\ op.do = "issleep" => issleep' = op.val /\ mixed' = (Sleepers # {t}) /\ agreed' = FALSE
        /\ op.do = "slept" => issleep' = issleep /\ mixed' = mixed
                              /\ agreed' = (Sleepers = {t} /\ ~ mixed)
        /\ op.do \notin {"issleep", "slept"} => UNCHANGED <<issleep, mixed, agreed>>
    BY Thoughts, Zenon
  <2> HIDE DEF op
  <2> QED
    BY <1>4, <2>1 DEF TypeInv
<1>6. standby' \in BOOLEAN /\ mxfreq' \in Nat /\ reg' \in Copies
  <2>1. /\ op.do = "standby" => standby' = op.val /\ UNCHANGED <<reg, mxfreq>>
        /\ op.do = "sd" => reg' = [reg EXCEPT !.sd2 = op.val] /\ UNCHANGED <<standby, mxfreq>>
        /\ op.do = "mxfreq" => mxfreq' = op.val /\ UNCHANGED <<standby, reg>>
        /\ op.do = "mode" => reg' = [reg EXCEPT !.r01 = standby, !.r05 = standby]
                             /\ UNCHANGED <<standby, mxfreq>>
        /\ op.do \in {"issleep", "slept", "wake?", "frequency", "wakeup", "copy"}
              => UNCHANGED <<standby, reg, mxfreq>>
    BY Thoughts, Zenon
  <2>2. CASE op.do = "sd"
    <3> HIDE DEF op
    <3> QED
      BY <1>4, <2>1, <2>2 DEF TypeInv, Copies
  <2>3. CASE op.do = "mode"
    <3> HIDE DEF op
    <3> QED
      BY <2>1, <2>3 DEF TypeInv, Copies
  <2> HIDE DEF op
  <2> QED
    BY <1>2, <1>4, <2>1, <2>2, <2>3 DEF TypeInv
<1>7. th' \in [Threads -> Calls]
  <2>1. /\ op.do \in {"issleep", "slept", "standby", "sd", "mxfreq"} => Goes(t, s)
        /\ op.do \in {"wake?", "frequency", "mode", "wakeup", "copy"} => \E x : Goes(t, x)
    <3>1. op.do \in {"issleep", "slept", "standby", "sd", "mxfreq"} => Goes(t, s)
      BY Thoughts, Zenon
    <3>2. op.do \in {"wake?", "frequency", "mode", "wakeup", "copy"} => \E x : Goes(t, x)
      BY Branches, Zenon
    <3> QED
      BY <3>1, <3>2
  <2>2. \E x : Goes(t, x)
    BY <1>2, <2>1, Zenon
  <2> QED
    BY <2>2 DEF Goes
<1> QED
  BY <1>2, <1>3, <1>5, <1>6, <1>7 DEF TypeInv

LEMMA TransfersAreTyped ==
    ASSUME TypeInv, NEW t \in Threads, th[t].todo # <<>>, Transfer(t)
    PROVE  TypeInv'
<1> DEFINE op == Head(th[t].todo)
           s  == Tail(th[t].todo)
           Some == \E x : Goes(t, x)
           Seen == Watch(t, TRUE) \/ Watch(t, FALSE)
<1>1. op \in Ops
  BY Lists
<1>2. UNCHANGED <<type, valid, driver, agreed, crossed>>
  BY Transfers, Zenon
<1>3. /\ hw' \in Chips /\ mixed' \in BOOLEAN /\ signal' \in {"searching", "locked", "retryov"}
      /\ Some /\ Seen
  <2>1. CASE op.do = "write"
    <3>1. \/ op.reg \in {"demod", "r01", "r05"} /\ op.val \in BOOLEAN
          \/ op.reg = "agc" /\ op.val \in {"manual", "auto"}
          \/ op.reg \in {"N", "sd1", "sd2", "rf1", "rf2", "id"} /\ op.val \in Nat
      BY <1>1, <2>1, KindsOfSteps
    <3>2. \/ /\ hw' = [hw EXCEPT ![op.reg] = op.val] /\ mixed' = mixed
             /\ Some /\ Watch(t, TRUE) /\ signal' \in {"searching", signal}
          \/ /\ hw' = hw /\ mixed' = (mixed \/ t \in Sleepers)
             /\ Some /\ Watch(t, FALSE) /\ signal' = signal
      BY <2>1, Transfers, Zenon
    <3>3. [hw EXCEPT ![op.reg] = op.val] \in Chips
      <4> HIDE DEF op
      <4> QED
        BY <3>1 DEF TypeInv, Chips
    <3> HIDE DEF op, Some
    <3> QED
      BY <3>2, <3>3 DEF TypeInv
  <2>2. CASE op.do # "write"
    <3>1. hw' = hw /\ mixed' = mixed /\ signal' = signal /\ Some /\ Seen
      BY <2>2, Transfers, Zenon
    <3> QED
      BY <3>1 DEF TypeInv
  <2> QED
    BY <2>1, <2>2
<1>4. clean' \in [Threads -> BOOLEAN]
  BY <1>3, WatchIsTyped
<1>5. th' \in [Threads -> Calls]
  BY <1>3 DEF Goes
<1> QED
  BY <1>2, <1>3, <1>4, <1>5 DEF TypeInv, driver

LEMMA ReturnEnds ==
    ASSUME TypeInv, NEW t \in Threads, Return(t)
    PROVE  /\ Begins(t, "none", <<>>, None) /\ th[t].todo = <<>>
           /\ clean' = [clean EXCEPT ![t] = TRUE]
           /\ UNCHANGED <<type, valid, shared, signal, history, crossed>>
<1>1. Idle \in Calls /\ Idle.call = "none" /\ Idle.todo = <<>> /\ Idle.ch = None
  BY EmptySeq DEF Idle, Calls
<1>2. th' = [th EXCEPT ![t] = Idle] /\ th \in [Threads -> Calls]
  BY DEF Return, TypeInv
<1>3. Begins(t, "none", <<>>, None)
  <2> HIDE DEF Idle, Calls
  <2> QED
    BY <1>1, <1>2 DEF Begins
<1> QED
  BY <1>3, Zenon DEF Return

(* Opening, closing, tuning. *)
LEMMA OpenBegins ==
    ASSUME TypeInv, NEW t \in Threads, Open(t)
    PROVE  /\ Begins(t, "open", <<Local("wake?", None)>>, None) /\ th[t].call = "none"
           /\ valid = None /\ valid' = t /\ crossed' = (\E u \in Threads : th[u].call = "close")
           /\ Watch(t, TRUE) /\ UNCHANGED <<type, shared, signal, mixed, agreed>>
<1>1. <<Local("wake?", None)>> \in Seq(Ops)
  <2>1. Local("wake?", None) \in Ops
    BY StepsAreOps DEF Ops
  <2> HIDE DEF Ops
  <2> QED
    BY <2>1
<1>2. Call(t, "open", <<Local("wake?", None)>>, None)
  BY Zenon DEF Open
<1>3. /\ Begins(t, "open", <<Local("wake?", None)>>, None) /\ th[t].call = "none"
      /\ Watch(t, TRUE) /\ UNCHANGED <<type, signal, mixed, agreed>>
  BY <1>1, <1>2, CallBegins
<1> QED
  BY <1>3, Zenon DEF Open

LEMMA CloseBegins ==
    ASSUME TypeInv, NEW t \in Threads, Close(t)
    PROVE  /\ Begins(t, "close", set_tuner_sleep(TRUE), None) /\ th[t].call = "none"
           /\ valid = t /\ valid' = None
           /\ Watch(t, TRUE) /\ UNCHANGED <<type, shared, signal, mixed, agreed, crossed>>
<1>1. set_tuner_sleep(TRUE) \in Seq(Ops)
  BY SleepIsOps DEF TypeInv
<1>2. Call(t, "close", set_tuner_sleep(TRUE), None)
  BY Zenon DEF Close
<1>3. /\ Begins(t, "close", set_tuner_sleep(TRUE), None) /\ th[t].call = "none"
      /\ Watch(t, TRUE) /\ UNCHANGED <<type, signal, mixed, agreed>>
  BY <1>1, <1>2, CallBegins
<1> QED
  BY <1>3, Zenon DEF Close

LEMMA TuneBegins ==
    ASSUME TypeInv, NEW t \in Threads, Tune(t)
    PROVE  /\ Begins(t, "tune", <<Local("wake?", None), Local("frequency", None)>>, sfreq')
           /\ th[t].call = "none" /\ sfreq' = sfreq + 1 /\ Watch(t, TRUE)
           /\ UNCHANGED <<type, valid, issleep, standby, reg, mxfreq, hw, signal,
                          mixed, agreed, crossed>>
<1>1. <<Local("wake?", None), Local("frequency", None)>> \in Seq(Ops)
  <2>1. Local("wake?", None) \in Ops /\ Local("frequency", None) \in Ops
    BY StepsAreOps DEF Ops
  <2> HIDE DEF Ops
  <2> QED
    BY <2>1
<1>2. Call(t, "tune", <<Local("wake?", None), Local("frequency", None)>>, sfreq')
  BY Zenon DEF Tune
<1>3. sfreq' \in Nat /\ sfreq' = sfreq + 1
  BY DEF Tune, TypeInv
<1>4. /\ Begins(t, "tune", <<Local("wake?", None), Local("frequency", None)>>, sfreq')
      /\ th[t].call = "none" /\ Watch(t, TRUE) /\ UNCHANGED <<type, signal, mixed, agreed>>
  BY <1>1, <1>2, <1>3, CallBegins
<1> QED
  BY <1>3, <1>4, Zenon DEF Tune

(* The types hold at first.                                                  *)
LEMMA TypeHoldsAtFirst ==
    ASSUME Init
    PROVE  TypeInv
<1>1. Idle \in Calls
  BY EmptySeq DEF Idle, Calls
<1>2. /\ reg \in Copies /\ hw \in Chips
  BY DEF Init, Copies, Chips
<1>3. th \in [Threads -> Calls] /\ clean \in [Threads -> BOOLEAN]
  <2> HIDE DEF Idle, Calls
  <2> QED
    BY <1>1 DEF Init
<1>4. /\ type \in {"S", "T"} /\ valid \in Threads \cup {None}
      /\ issleep \in BOOLEAN /\ standby \in BOOLEAN /\ sfreq \in Nat /\ mxfreq \in Nat
      /\ mixed \in BOOLEAN /\ agreed \in BOOLEAN /\ crossed \in BOOLEAN
      /\ signal \in {"searching", "locked", "retryov"}
  BY DEF Init
<1> QED
  BY <1>2, <1>3, <1>4, Zenon DEF TypeInv

(* Every step keeps the types. *)
THEOREM TypeIsPreserved ==
    ASSUME TypeInv, [Next]_vars
    PROVE  TypeInv'
<1>1. ASSUME NEW t \in Threads, Open(t) PROVE TypeInv'
  <2>1. /\ th' \in [Threads -> Calls] /\ valid' = t /\ crossed' \in BOOLEAN
        /\ Watch(t, TRUE) /\ UNCHANGED <<type, shared, signal, mixed, agreed>>
    BY <1>1, OpenBegins DEF Begins
  <2>2. clean' \in [Threads -> BOOLEAN]
    BY <2>1, WatchIsTyped
  <2> QED
    BY <2>1, <2>2 DEF TypeInv, shared, driver
<1>2. ASSUME NEW t \in Threads, Close(t) PROVE TypeInv'
  <2>1. /\ th' \in [Threads -> Calls] /\ valid' = None
        /\ Watch(t, TRUE) /\ UNCHANGED <<type, shared, signal, mixed, agreed, crossed>>
    BY <1>2, CloseBegins DEF Begins
  <2>2. clean' \in [Threads -> BOOLEAN]
    BY <2>1, WatchIsTyped
  <2> QED
    BY <2>1, <2>2 DEF TypeInv, shared, driver
<1>3. ASSUME NEW t \in Threads, Tune(t) PROVE TypeInv'
  <2>1. /\ th' \in [Threads -> Calls] /\ sfreq' = sfreq + 1 /\ Watch(t, TRUE)
        /\ UNCHANGED <<type, valid, issleep, standby, reg, mxfreq, hw, signal,
                       mixed, agreed, crossed>>
    BY <1>3, TuneBegins DEF Begins
  <2>2. clean' \in [Threads -> BOOLEAN]
    BY <2>1, WatchIsTyped
  <2> QED
    BY <2>1, <2>2 DEF TypeInv
<1>4. ASSUME NEW t \in Threads, Return(t) PROVE TypeInv'
  <2>1. /\ th' \in [Threads -> Calls] /\ clean' = [clean EXCEPT ![t] = TRUE]
        /\ UNCHANGED <<type, valid, shared, signal, history, crossed>>
    BY <1>4, ReturnEnds DEF Begins
  <2> QED
    BY <2>1 DEF TypeInv, shared, driver, history
<1>5. ASSUME NEW t \in Threads, Think(t) PROVE TypeInv'
  <2>1. th[t].todo # <<>>
    BY <1>5 DEF Think
  <2> QED
    BY <1>5, <2>1, ThoughtsAreTyped
<1>6. ASSUME NEW t \in Threads, Transfer(t) PROVE TypeInv'
  <2>1. th[t].todo # <<>>
    BY <1>6 DEF Transfer
  <2> QED
    BY <1>6, <2>1, TransfersAreTyped
<1>7. CASE Settle
  BY <1>7 DEF Settle, TypeInv, shared, driver, history
<1>8. CASE UNCHANGED vars
  BY <1>8 DEF vars, TypeInv, shared, driver, history
<1> QED
  BY <1>1, <1>2, <1>3, <1>4, <1>5, <1>6, <1>7, <1>8, Zenon DEF Next, Step

(* The variables keep their types: whatever calls overlap and fail, every    *)
(* thread has before it only steps the driver knows (pt3open, pt3close,      *)
(* SetChannel).                                                              *)
THEOREM TypesAreKept == Spec => []TypeInv
<1>1. Init => TypeInv
  BY TypeHoldsAtFirst
<1>2. TypeInv /\ [Next]_vars => TypeInv'
  BY TypeIsPreserved
<1> QED
  BY <1>1, <1>2, PTL DEF Spec

-----------------------------------------------------------------------------
(* The places of set_tuner_sleep.                                            *)

Marked(l) == \E i \in DOMAIN l : l[i].do = "slept"

LEMMA MarksOfParts ==
    ASSUME NEW S, NEW p \in Seq(S), NEW s \in Seq(S)
    PROVE  Marked(p \o s) <=> Marked(p) \/ Marked(s)
<1>1. /\ Len(p \o s) = Len(p) + Len(s)
      /\ \A i \in 1 .. Len(p) : (p \o s)[i] = p[i]
      /\ \A i \in 1 .. Len(s) : (p \o s)[Len(p) + i] = s[i]
  OBVIOUS
<1>2. DOMAIN p = 1 .. Len(p) /\ DOMAIN s = 1 .. Len(s) /\ DOMAIN (p \o s) = 1 .. Len(p) + Len(s)
  BY <1>1
<1>3. Len(p) \in Nat /\ Len(s) \in Nat
  OBVIOUS
<1>4. ASSUME Marked(p \o s)
      PROVE  Marked(p) \/ Marked(s)
  <2>1. PICK i \in 1 .. Len(p) + Len(s) : (p \o s)[i].do = "slept"
    BY <1>2, <1>4 DEF Marked
  <2>2. CASE i <= Len(p)
    <3>1. i \in 1 .. Len(p) /\ p[i].do = "slept"
      BY <1>1, <1>3, <2>1, <2>2
    <3> QED
      BY <1>2, <3>1 DEF Marked
  <2>3. CASE i > Len(p)
    <3>1. i - Len(p) \in 1 .. Len(s) /\ i = Len(p) + (i - Len(p))
      BY <1>3, <2>3
    <3>2. s[i - Len(p)].do = "slept"
      BY <1>1, <2>1, <3>1
    <3> QED
      BY <1>2, <3>1, <3>2 DEF Marked
  <2> QED
    BY <1>3, <2>1, <2>2, <2>3
<1>5. ASSUME Marked(p)
      PROVE  Marked(p \o s)
  <2>1. PICK i \in 1 .. Len(p) : p[i].do = "slept"
    BY <1>2, <1>5 DEF Marked
  <2>2. i \in 1 .. Len(p) + Len(s) /\ (p \o s)[i].do = "slept"
    BY <1>1, <1>3, <2>1
  <2> QED
    BY <1>2, <2>2 DEF Marked
<1>6. ASSUME Marked(s)
      PROVE  Marked(p \o s)
  <2>1. PICK i \in 1 .. Len(s) : s[i].do = "slept"
    BY <1>2, <1>6 DEF Marked
  <2>2. Len(p) + i \in 1 .. Len(p) + Len(s) /\ (p \o s)[Len(p) + i].do = "slept"
    BY <1>1, <1>3, <2>1
  <2> QED
    BY <1>2, <2>2 DEF Marked
<1> QED
  BY <1>4, <1>5, <1>6

LEMMA MarkedLeads ==
    ASSUME NEW s \in Seq(Ops), Marked(s), NEW a \in Ops, NEW b \in Ops, NEW c \in Ops, NEW d \in Ops
    PROVE  /\ Marked(<<a>> \o s) /\ Marked(<<a, b>> \o s)
           /\ Marked(<<a, b, c>> \o s) /\ Marked(<<a, b, c, d>> \o s)
<1> HIDE DEF Ops
<1>1. /\ <<a>> \in Seq(Ops) /\ <<a, b>> \in Seq(Ops)
      /\ <<a, b, c>> \in Seq(Ops) /\ <<a, b, c, d>> \in Seq(Ops)
  OBVIOUS
<1> QED
  BY <1>1, MarksOfParts

(* What remains after the last transfer of set_tuner_sleep. *)
LEMMA Ends ==
    ASSUME NEW h \in Calls
    PROVE  /\ Rest(h) \in Seq(Ops) /\ End(h) \in Seq(Ops) /\ <<slept>> \o Rest(h) \in Seq(Ops)
           /\ ~ Marked(Rest(h)) /\ Marked(End(h)) /\ Marked(<<slept>> \o Rest(h))
           /\ Sleeps(h) => Rest(h) = <<>>
<1>1. slept \in Ops /\ Demod(TRUE) \in Ops /\ Local("frequency", None) \in Ops
  BY StepsAreOps DEF Ops, slept, Demod
<1>2. slept.do = "slept" /\ Local("frequency", None).do # "slept"
  BY DEF slept, Local
<1>3. Rest(h) \in Seq(Ops) /\ ~ Marked(Rest(h)) /\ (Sleeps(h) => Rest(h) = <<>>)
  <2>1. <<Local("frequency", None)>> \in Seq(Ops) /\ <<>> \in Seq(Ops)
    <3> HIDE DEF Ops
    <3> QED
      BY <1>1
  <2>2. ~ Marked(<<Local("frequency", None)>>) /\ ~ Marked(<<>>)
    BY <1>2 DEF Marked
  <2> QED
    BY <2>1, <2>2 DEF Rest, Sleeps
<1>4. /\ <<slept>> \in Seq(Ops) /\ <<Demod(TRUE), slept>> \in Seq(Ops)
  <2> DEFINE d == Demod(TRUE)
  <2>1. slept \in Ops /\ d \in Ops
    BY <1>1
  <2> HIDE DEF Ops, d
  <2>2. <<slept>> \in Seq(Ops) /\ <<d, slept>> \in Seq(Ops)
    BY <2>1
  <2> QED
    BY <2>2 DEF d
<1>5. Marked(<<slept>>) /\ Marked(<<Demod(TRUE), slept>>)
  <2>1. <<slept>>[1] = slept /\ <<Demod(TRUE), slept>>[2] = slept
    OBVIOUS
  <2>2. 1 \in DOMAIN <<slept>> /\ 2 \in DOMAIN <<Demod(TRUE), slept>>
    OBVIOUS
  <2> QED
    BY <1>2, <2>1, <2>2, Zenon DEF Marked
<1>6. /\ <<slept>> \o Rest(h) \in Seq(Ops) /\ <<Demod(TRUE), slept>> \o Rest(h) \in Seq(Ops)
  <2> HIDE DEF Ops
  <2> QED
    BY <1>3, <1>4, ConcatProperties
<1>7. Marked(<<slept>> \o Rest(h)) /\ Marked(<<Demod(TRUE), slept>> \o Rest(h))
  <2> HIDE DEF Ops
  <2> QED
    BY <1>3, <1>4, <1>5, MarksOfParts
<1>8. End(h) \in {<<Demod(TRUE), slept>> \o Rest(h), <<slept>> \o Rest(h)}
  BY Zenon DEF End
<1> QED
  BY <1>3, <1>6, <1>7, <1>8, Zenon

(* All the steps of set_tuner_sleep. *)
LEMMA SleepingOps ==
    ASSUME NEW h
    PROVE  /\ manual \in Ops /\ mode \in Ops /\ slept \in Ops
           /\ Local("wakeup", None) \in Ops
           /\ \A x \in BOOLEAN :
                /\ Local("issleep", x) \in Ops /\ Local("standby", x) \in Ops
                /\ Write("r01", x, 0) \in Ops /\ Write("r05", x, 0) \in Ops
                /\ Write("r01", x, 1) \in Ops /\ Write("r05", x, 1) \in Ops
                /\ Demod(x) \in Ops /\ Begin(x) \in Ops
           /\ Copy("r01", 0) \in Ops /\ Copy("r05", 0) \in Ops
           /\ \A v \in Nat : Write("rf1", v, 0) \in Ops /\ Write("rf2", v, 0) \in Ops
           /\ Sleeps(h) \in BOOLEAN
<1>1. \A x \in BOOLEAN : Demod(x) \in Ops
  BY StepsAreOps DEF Ops, Demod
<1>2. manual \in Ops
  BY StepsAreOps DEF Ops, manual
<1>3. \A x \in BOOLEAN : Begin(x) \in Ops
  BY <1>1, <1>2 DEF Begin
<1> QED
  BY <1>1, <1>2, <1>3, StepsAreOps DEF Ops, mode, slept, Sleeps

(* None of the steps after the first is another first one. *)
LEMMA FirstStepsDiffer ==
    /\ manual.do = "write" /\ mode.do = "mode" /\ slept.do = "slept"
    /\ Local("wakeup", None).do = "wakeup"
    /\ \A x : /\ Local("issleep", x).do = "issleep" /\ Local("standby", x).do = "standby"
              /\ Demod(x).do = "write" /\ Begin(x).do = "write"
    /\ \A r, v, d : Write(r, v, d).do = "write" /\ Copy(r, d).do = "copy"
BY DEF manual, mode, slept, Local, Demod, Begin, Write, Copy

LEMMA WithinIsMarked ==
    ASSUME NEW k, NEW h \in Calls, NEW ok, NEW f, Within(k, h, ok, f)
    PROVE  Marked(h.todo) /\ h.todo # <<>> /\ Head(h.todo).do # "issleep"
<1> DEFINE Good(l) == Marked(l) /\ l # <<>> /\ Head(l).do # "issleep"
           e == End(h)
           x == Sleeps(h)
<1>1. e \in Seq(Ops) /\ Marked(e)
  BY Ends
<1>2. ASSUME NEW a \in Ops, a.do # "issleep", NEW b \in Ops, NEW c \in Ops
      PROVE  Good(<<a>> \o e) /\ Good(<<a, b>> \o e) /\ Good(<<a, b, c>> \o e)
  <2>1. Marked(<<a>> \o e) /\ Marked(<<a, b>> \o e) /\ Marked(<<a, b, c>> \o e)
    <3> HIDE DEF e
    <3> QED
      BY <1>1, <1>2, MarkedLeads
  <2>2. /\ <<a>> \o e # <<>> /\ Head(<<a>> \o e) = a
        /\ <<a, b>> \o e # <<>> /\ Head(<<a, b>> \o e) = a
        /\ <<a, b, c>> \o e # <<>> /\ Head(<<a, b, c>> \o e) = a
    <3> HIDE DEF e, Ops
    <3> QED
      BY <1>1, <1>2, Lead1, Lead2, Lead3
  <2> HIDE DEF e
  <2> QED
    BY <1>2, <2>1, <2>2
<1>3. Good(<<slept>> \o Rest(h)) /\ Good(e)
  <2>1. Marked(<<slept>> \o Rest(h)) /\ Marked(e) /\ Rest(h) \in Seq(Ops)
    BY Ends
  <2>2. <<slept>> \o Rest(h) # <<>> /\ Head(<<slept>> \o Rest(h)) = slept
    BY <2>1, Lead1, Zenon
  <2>3. /\ <<Demod(TRUE), slept>> \o Rest(h) # <<>>
        /\ Head(<<Demod(TRUE), slept>> \o Rest(h)) = Demod(TRUE)
    BY <2>1, Lead2, Zenon
  <2>4. Demod(TRUE).do # "issleep" /\ slept.do # "issleep"
    BY FirstStepsDiffer
  <2>5. e \in {<<Demod(TRUE), slept>> \o Rest(h), <<slept>> \o Rest(h)}
    BY Zenon DEF End
  <2> HIDE DEF e
  <2> QED
    BY <2>1, <2>2, <2>3, <2>4, <2>5
<1> HIDE DEF e, Good
<1>4. CASE WithinS(h, ok, f)
  <2>1. /\ h.todo \in {<<Local("standby", x), Begin(x), mode>> \o e, <<Begin(x), mode>> \o e,
                       <<mode>> \o e, <<Write("r05", TRUE, 1), Copy("r01", 0)>> \o e,
                       <<Write("r01", FALSE, 1), Copy("r05", 0)>> \o e,
                       <<Copy("r01", 0)>> \o e, <<Copy("r05", 0)>> \o e}
           \/ \E v \in BOOLEAN : h.todo \in {<<Write("r01", v, 0)>> \o e, <<Write("r05", v, 0)>> \o e}
    BY <1>4, Zenon DEF WithinS, e
  <2>2. Good(<<Local("standby", x), Begin(x), mode>> \o e) /\ Good(<<Begin(x), mode>> \o e)
    BY <1>2, SleepingOps, FirstStepsDiffer
  <2>3. Good(<<mode>> \o e) /\ Good(<<Copy("r01", 0)>> \o e) /\ Good(<<Copy("r05", 0)>> \o e)
    BY <1>2, SleepingOps, FirstStepsDiffer
  <2>4. Good(<<Write("r05", TRUE, 1), Copy("r01", 0)>> \o e)
    BY <1>2, SleepingOps, FirstStepsDiffer
  <2>5. Good(<<Write("r01", FALSE, 1), Copy("r05", 0)>> \o e)
    BY <1>2, SleepingOps, FirstStepsDiffer
  <2>6. \A v \in BOOLEAN : Good(<<Write("r01", v, 0)>> \o e) /\ Good(<<Write("r05", v, 0)>> \o e)
    BY <1>2, SleepingOps, FirstStepsDiffer
  <2>7. Good(h.todo)
    BY <2>1, <2>2, <2>3, <2>4, <2>5, <2>6, Zenon
  <2> QED
    BY <2>7 DEF Good
<1>5. CASE WithinT(h, ok, f)
  <2>1. /\ h.todo \in {<<manual, Write("r01", x, 0)>> \o e, <<Write("r01", x, 0)>> \o e,
                       <<Demod(x), Write("r01", x, 0), Local("wakeup", None)>> \o e,
                       <<Write("r01", x, 0), Local("wakeup", None)>> \o e,
                       <<Local("wakeup", None)>> \o e}
           \/ \E v \in Nat : h.todo \in {<<Write("rf1", v, 0), Write("rf2", v, 0)>> \o e,
                                         <<Write("rf2", v, 0)>> \o e}
    BY <1>5, Zenon DEF WithinT, e
  <2>2. Good(<<manual, Write("r01", x, 0)>> \o e) /\ Good(<<Write("r01", x, 0)>> \o e)
    BY <1>2, SleepingOps, FirstStepsDiffer
  <2>3. /\ Good(<<Demod(x), Write("r01", x, 0), Local("wakeup", None)>> \o e)
        /\ Good(<<Write("r01", x, 0), Local("wakeup", None)>> \o e)
    BY <1>2, SleepingOps, FirstStepsDiffer
  <2>4. Good(<<Local("wakeup", None)>> \o e)
    BY <1>2, SleepingOps, FirstStepsDiffer
  <2>5. \A v \in Nat : /\ Good(<<Write("rf1", v, 0), Write("rf2", v, 0)>> \o e)
                       /\ Good(<<Write("rf2", v, 0)>> \o e)
    BY <1>2, SleepingOps, FirstStepsDiffer
  <2>6. Good(h.todo)
    BY <2>1, <2>2, <2>3, <2>4, <2>5, Zenon
  <2> QED
    BY <2>6 DEF Good
<1>6. CASE Ended(k, h, ok, f)
  <2>1. h.todo = e \/ h.todo = <<slept>> \o Rest(h)
    BY <1>6, Zenon DEF Ended, e
  <2>2. Good(h.todo)
    BY <1>3, <2>1, Zenon
  <2> QED
    BY <2>2 DEF Good
<1> QED
  BY <1>4, <1>5, <1>6, Zenon DEF Within

LEMMA WaitingIsMarked ==
    ASSUME NEW k, NEW h \in Calls, Waiting(k, h)
    PROVE  Marked(h.todo) /\ h.todo # <<>> /\ Head(h.todo) = Local("issleep", Sleeps(h))
<1> DEFINE e == End(h)
           i == Local("issleep", Sleeps(h))
           s == Local("standby", Sleeps(h))
           b == Begin(Sleeps(h))
           r == Write("r01", Sleeps(h), 0)
           d == Demod(Sleeps(h))
           w == Local("wakeup", None)
<1>1. e \in Seq(Ops) /\ Marked(e)
  BY Ends
<1>2. h.todo \in {<<i, s, b, mode>> \o e, <<i, manual, r>> \o e, <<i, d, r, w>> \o e}
  BY Zenon DEF Waiting
<1>3. /\ i \in Ops /\ s \in Ops /\ b \in Ops /\ mode \in Ops /\ manual \in Ops
      /\ r \in Ops /\ d \in Ops /\ w \in Ops
  BY SleepingOps
<1> SUFFICES Marked(h.todo) /\ h.todo # <<>> /\ Head(h.todo) = i
  OBVIOUS
<1> HIDE DEF e, i, s, b, r, d, w, Ops
<1>4. Marked(<<i, s, b, mode>> \o e) /\ Marked(<<i, manual, r>> \o e) /\ Marked(<<i, d, r, w>> \o e)
  BY <1>1, <1>3, MarkedLeads
<1>5. /\ <<i, s, b, mode>> \o e # <<>> /\ Head(<<i, s, b, mode>> \o e) = i
      /\ <<i, d, r, w>> \o e # <<>> /\ Head(<<i, d, r, w>> \o e) = i
  BY <1>1, Lead4
<1>6. <<i, manual, r>> \o e # <<>> /\ Head(<<i, manual, r>> \o e) = i
  BY <1>1, Lead3
<1> QED
  BY <1>2, <1>4, <1>5, <1>6, Zenon

LEMMA FreshIsNotMarked ==
    ASSUME NEW h \in Calls, Fresh(h)
    PROVE  ~ Marked(h.todo) /\ h.todo # <<>> /\ Head(h.todo) = Local("wake?", None)
           /\ Tail(h.todo) = Rest(h)
<1> DEFINE w == Local("wake?", None)
<1>1. h.todo = <<w>> \o Rest(h) /\ Rest(h) \in Seq(Ops) /\ ~ Marked(Rest(h))
  BY Ends, Zenon DEF Fresh
<1>2. w \in Ops /\ w.do # "slept"
  BY StepsAreOps DEF Ops, Local
<1>3. ~ Marked(<<w>>)
  BY <1>2 DEF Marked
<1> HIDE DEF w, Ops
<1>4. <<w>> \in Seq(Ops)
  BY <1>2
<1>5. ~ Marked(<<w>> \o Rest(h))
  BY <1>1, <1>3, <1>4, MarksOfParts
<1>6. /\ <<w>> \o Rest(h) # <<>> /\ Head(<<w>> \o Rest(h)) = w
      /\ Tail(<<w>> \o Rest(h)) = Rest(h)
  BY <1>1, Lead1
<1> QED
  BY <1>1, <1>5, <1>6 DEF w

LEMMA FreqOpsAreNotSlept ==
    \A op \in FreqOps : op \in Ops /\ op.do \notin {"slept", "issleep", "wake?", "standby",
                                                    "mode", "wakeup", "frequency"}
BY DEF Ops, FreqOps, AgcOps, ChanOps, MemOps, CopyOps, PollOps, IdOps

LEMMA OutsideIsNotMarked ==
    ASSUME NEW h \in Calls, Outside(h)
    PROVE  ~ Marked(h.todo)
<1>1. CASE h.todo = <<>>
  BY <1>1 DEF Marked
<1>2. CASE h.todo = Rest(h)
  BY <1>2, Ends
<1>3. CASE h.todo \in Seq(FreqOps)
  <2>1. \A i \in DOMAIN h.todo : h.todo[i] \in FreqOps
    <3> HIDE DEF FreqOps
    <3> QED
      BY <1>3
  <2> QED
    BY <2>1, FreqOpsAreNotSlept DEF Marked
<1> QED
  BY <1>1, <1>2, <1>3 DEF Outside

LEMMA WithinIsBegun ==
    ASSUME NEW k, NEW h, NEW ok, NEW f, Within(k, h, ok, f)
    PROVE  Begun(k, h) /\ \A good, g : ~ good => Within(k, h, good, g)
<1>1. \A good, g : ~ good /\ WithinS(h, ok, f) => WithinS(h, good, g)
  BY Zenon DEF WithinS
<1>2. \A good, g : ~ good /\ WithinT(h, ok, f) => WithinT(h, good, g)
  BY Zenon DEF WithinT
<1>3. \A good, g : ~ good /\ Ended(k, h, ok, f) => Ended(k, h, good, g)
  BY Zenon DEF Ended
<1>4. \A good, g : ~ good => Within(k, h, good, g)
  BY <1>1, <1>2, <1>3, Zenon DEF Within
<1> QED
  BY <1>4, Zenon DEF Begun

(* Where a call is decides whether its thread is in set_tuner_sleep. *)
LEMMA Places ==
    ASSUME NEW k, NEW h \in Calls
    PROVE  /\ Begun(k, h) => Marked(h.todo) /\ ~ Waiting(k, h) /\ ~ Fresh(h) /\ ~ Outside(h)
           /\ Waiting(k, h) => Marked(h.todo) /\ ~ Begun(k, h)
           /\ Fresh(h) \/ Outside(h) => ~ Marked(h.todo) /\ ~ Begun(k, h)
<1>1. Begun(k, h) => Marked(h.todo) /\ Head(h.todo).do # "issleep"
  BY WithinIsMarked, Zenon DEF Begun
<1>2. Waiting(k, h) => Marked(h.todo) /\ Head(h.todo).do = "issleep"
  BY WaitingIsMarked, FirstStepsDiffer
<1>3. Fresh(h) \/ Outside(h) => ~ Marked(h.todo)
  BY FreshIsNotMarked, OutsideIsNotMarked
<1> QED
  BY <1>1, <1>2, <1>3

LEMMA SleepersAreMarked ==
    \A t \in Threads : t \in Sleepers <=> Marked(th[t].todo)
BY Zenon DEF Sleepers, Marked

-----------------------------------------------------------------------------
(* A step of set_tuner_sleep.                                                *)

Acts(t) == th[t].todo # <<>> /\ (Think(t) \/ Transfer(t))

(* A register is written: what set_tuner_sleep sees of it. *)
Puts(f, g, r, v) ==
    /\ g.issleep = f.issleep /\ g.standby = f.standby /\ g.c01 = f.c01 /\ g.c05 = f.c05
    /\ g.demod = IF r = "demod" THEN v ELSE f.demod
    /\ g.r01 = IF r = "r01" THEN v ELSE f.r01
    /\ g.r05 = IF r = "r05" THEN v ELSE f.r05

(* What no step but the first and the last changes; commands stay mixed.     *)
Goes_on(t) ==
    /\ UNCHANGED <<type, valid, crossed, sfreq, issleep, agreed>>
    /\ mixed => mixed'

LEMMA WriteInSleep ==
    ASSUME TypeInv, NEW t \in Threads, Acts(t), Marked(th[t].todo),
           NEW r, NEW v, NEW d \in Nat, NEW s,
           Head(th[t].todo) = Write(r, v, d), Tail(th[t].todo) = s
    PROVE  /\ Goes_on(t)
           /\ \/ Goes(t, s) /\ (~ mixed' => ~ mixed /\ Puts(Sleep, Sleep', r, v))
              \/ Goes(t, SubSeq(th[t].todo, 2 + d, Len(th[t].todo))) /\ mixed'
<1> DEFINE op == Write(r, v, d)
<1>1. op.do = "write" /\ op.reg = r /\ op.val = v /\ op.drop = d
  BY DEF Write
<1>2. op \in Ops
  BY Lists DEF Acts
<1>3. r \in {"demod", "r01", "r05", "agc", "N", "sd1", "sd2", "rf1", "rf2", "id"}
  <2>1. \/ op.reg \in {"demod", "r01", "r05"} \/ op.reg = "agc"
        \/ op.reg \in {"N", "sd1", "sd2", "rf1", "rf2", "id"}
    BY <1>1, <1>2, KindsOfSteps
  <2> QED
    BY <1>1, <2>1
<1> HIDE DEF op
<1>4. Transfer(t)
  <2>1. ~ Think(t)
    <3>1. Think(t) => op.do # "write"
      BY Thoughts DEF Acts, op
    <3> QED
      BY <1>1, <3>1
  <2> QED
    BY <2>1 DEF Acts
<1>5. /\ UNCHANGED <<type, valid, driver, agreed, crossed>>
      /\ \/ hw' = [hw EXCEPT ![op.reg] = op.val] /\ mixed' = mixed /\ Goes(t, s)
         \/ /\ mixed' = (mixed \/ t \in Sleepers)
            /\ Goes(t, SubSeq(th[t].todo, 2 + op.drop, Len(th[t].todo)))
  BY <1>1, <1>4, Transfers DEF Acts, op
<1>6. t \in Sleepers
  BY SleepersAreMarked
<1>7. ASSUME hw' = [hw EXCEPT ![r] = v]
      PROVE  Puts(Sleep, Sleep', r, v)
  <2>1. UNCHANGED <<issleep, standby, reg>>
    BY <1>5 DEF driver
  <2>2. /\ hw'.demod = (IF r = "demod" THEN v ELSE hw.demod)
        /\ hw'.r01 = (IF r = "r01" THEN v ELSE hw.r01)
        /\ hw'.r05 = (IF r = "r05" THEN v ELSE hw.r05)
    BY <1>3, <1>7 DEF TypeInv, Chips
  <2> QED
    BY <2>1, <2>2 DEF Puts, Sleep
<1>8. /\ mixed => mixed'
      /\ \/ Goes(t, s) /\ (~ mixed' => ~ mixed) /\ Puts(Sleep, Sleep', r, v)
         \/ Goes(t, SubSeq(th[t].todo, 2 + d, Len(th[t].todo))) /\ mixed'
  <2>1. CASE hw' = [hw EXCEPT ![op.reg] = op.val] /\ mixed' = mixed /\ Goes(t, s)
    <3>1. Puts(Sleep, Sleep', r, v)
      BY <1>1, <1>7, <2>1
    <3> QED
      BY <2>1, <3>1, Zenon
  <2>2. CASE /\ mixed' = (mixed \/ t \in Sleepers)
             /\ Goes(t, SubSeq(th[t].todo, 2 + op.drop, Len(th[t].todo)))
    <3>1. mixed'
      BY <1>6, <2>2
    <3> QED
      BY <1>1, <2>2, <3>1
  <2> QED
    BY <1>5, <2>1, <2>2
<1>9. UNCHANGED <<type, valid, crossed, sfreq, issleep, agreed>>
  BY <1>5 DEF driver
<1> QED
  BY <1>8, <1>9, Zenon DEF Goes_on

(* A failure drops nothing, or one step more, or all of them. *)
LEMMA DropNone ==
    ASSUME TypeInv, NEW t \in Threads, Acts(t), Marked(th[t].todo), NEW r, NEW v, NEW s,
           Head(th[t].todo) = Write(r, v, 0), Tail(th[t].todo) = s
    PROVE  /\ Goes_on(t) /\ Goes(t, s)
           /\ ~ mixed' => ~ mixed /\ Puts(Sleep, Sleep', r, v)
<1>1. /\ Goes_on(t)
      /\ \/ Goes(t, s) /\ (~ mixed' => ~ mixed /\ Puts(Sleep, Sleep', r, v))
         \/ Goes(t, SubSeq(th[t].todo, 2 + 0, Len(th[t].todo))) /\ mixed'
  BY WriteInSleep
<1>2. th[t].todo \in Seq(Ops) /\ th[t].todo # <<>>
  BY Lists DEF Acts
<1>3. SubSeq(th[t].todo, 2 + 0, Len(th[t].todo)) = s
  <2> HIDE DEF Ops
  <2> QED
    BY <1>2
<1> QED
  BY <1>1, <1>3

LEMMA DropOne ==
    ASSUME TypeInv, NEW t \in Threads, Acts(t), Marked(th[t].todo), NEW r, NEW v, NEW b,
           NEW s \in Seq(Ops), th[t].todo = <<Write(r, v, 1), b>> \o s
    PROVE  /\ Goes_on(t)
           /\ \/ /\ Goes(t, <<b>> \o s)
                 /\ ~ mixed' => ~ mixed /\ Puts(Sleep, Sleep', r, v)
              \/ Goes(t, s) /\ mixed'
<1> DEFINE a == Write(r, v, 1)
<1> HIDE DEF a
<1>1. th[t].todo = <<a, b>> \o s
  BY DEF a
<1>2. Head(th[t].todo) = a /\ Tail(th[t].todo) = <<b>> \o s
  BY <1>1, Lead2
<1>3. /\ Goes_on(t)
      /\ \/ Goes(t, <<b>> \o s) /\ (~ mixed' => ~ mixed /\ Puts(Sleep, Sleep', r, v))
         \/ Goes(t, SubSeq(th[t].todo, 2 + 1, Len(th[t].todo))) /\ mixed'
  BY <1>2, WriteInSleep DEF a
<1>4. SubSeq(th[t].todo, 2 + 1, Len(th[t].todo)) = s
  <2>1. SubSeq(th[t].todo, 3, Len(th[t].todo)) = s
    BY <1>1, DropTwo
  <2> QED
    BY <2>1
<1> QED
  BY <1>3, <1>4, Zenon

LEMMA DropAll ==
    ASSUME TypeInv, NEW t \in Threads, Acts(t), Marked(th[t].todo), NEW r, NEW v,
           NEW s \in Seq(Ops), th[t].todo = <<Write(r, v, All)>> \o s, Len(s) < All
    PROVE  /\ Goes_on(t)
           /\ \/ /\ Goes(t, s)
                 /\ ~ mixed' => ~ mixed /\ Puts(Sleep, Sleep', r, v)
              \/ Goes(t, <<>>) /\ mixed'
<1> DEFINE a == Write(r, v, All)
<1>0. a \in Ops
  <2>1. th[t].todo \in Seq(Ops) /\ Head(th[t].todo) \in Ops
    BY Lists DEF Acts
  <2>2. Head(th[t].todo) = a
    BY Lead1
  <2> QED
    BY <2>1, <2>2
<1> HIDE DEF a
<1>1. th[t].todo = <<a>> \o s
  BY DEF a
<1>2. Head(th[t].todo) = a /\ Tail(th[t].todo) = s
  BY <1>1, Lead1
<1>3. /\ Goes_on(t)
      /\ \/ Goes(t, s) /\ (~ mixed' => ~ mixed /\ Puts(Sleep, Sleep', r, v))
         \/ Goes(t, SubSeq(th[t].todo, 2 + All, Len(th[t].todo))) /\ mixed'
  <2>1. All \in Nat
    BY DEF All
  <2> QED
    BY <1>2, <2>1, WriteInSleep DEF a
<1>4. SubSeq(th[t].todo, 2 + All, Len(th[t].todo)) = <<>>
  <2> HIDE DEF Ops
  <2>1. Len(<<a>> \o s) = 1 + Len(s) /\ Len(s) \in Nat /\ <<a>> \o s \in Seq(Ops)
    BY <1>0
  <2> QED
    BY <1>1, <2>1 DEF All
<1> QED
  BY <1>3, <1>4

(* What is done in the memory of the driver. *)
LEMMA MemoryInSleep ==
    ASSUME TypeInv, NEW t \in Threads, Acts(t), NEW op, Head(th[t].todo) = op,
           NEW s, Tail(th[t].todo) = s, op.do \in {"standby", "mode", "wakeup", "copy"}
    PROVE  /\ Goes_on(t) /\ (~ mixed' <=> ~ mixed)
           /\ Sleep'.issleep = Sleep.issleep
           /\ Sleep'.demod = Sleep.demod /\ Sleep'.r01 = Sleep.r01 /\ Sleep'.r05 = Sleep.r05
           /\ Sleep'.standby = IF op.do = "standby" THEN op.val ELSE Sleep.standby
           /\ Sleep'.c01 = IF op.do = "mode" THEN Sleep.standby ELSE Sleep.c01
           /\ Sleep'.c05 = IF op.do = "mode" THEN Sleep.standby ELSE Sleep.c05
           /\ op.do = "standby" => Goes(t, s)
           /\ op.do = "mode" => Goes(t, SleepMode \o s)
           /\ op.do = "wakeup" => Goes(t, rftune(mxfreq) \o s)
           /\ op.do = "copy" => Goes(t, <<Write(op.reg, reg[op.reg], op.drop)>> \o s)
<1>1. Think(t)
  <2>1. Transfer(t) => op.do \in {"write", "locked", "tmcc_s", "get_id", "tmcc_t"}
    BY Transfers DEF Acts
  <2> QED
    BY <2>1 DEF Acts
<1>2. /\ UNCHANGED <<type, valid, sfreq, hw, signal, crossed>>
      /\ op.do \notin {"issleep", "slept"} => UNCHANGED <<issleep, mixed, agreed>>
      /\ op.do = "standby" => standby' = op.val /\ Goes(t, s) /\ UNCHANGED <<reg, mxfreq>>
      /\ op.do \in {"wakeup", "copy"} => UNCHANGED <<standby, reg, mxfreq>>
      /\ op.do = "mode" => /\ reg' = [reg EXCEPT !.r01 = standby, !.r05 = standby]
                           /\ UNCHANGED <<standby, mxfreq>>
  BY <1>1, Thoughts DEF Acts
<1>3. /\ op.do = "mode" => Goes(t, SleepMode \o s)
      /\ op.do = "wakeup" => Goes(t, rftune(mxfreq) \o s)
      /\ op.do = "copy" => Goes(t, <<Write(op.reg, reg[op.reg], op.drop)>> \o s)
  BY <1>1, Branches DEF Acts
<1>4. Goes_on(t) /\ (~ mixed' <=> ~ mixed)
  <2>1. UNCHANGED <<issleep, mixed, agreed>>
    BY <1>2
  <2> QED
    BY <1>2, <2>1, Zenon DEF Goes_on
<1>5. /\ Sleep'.issleep = Sleep.issleep
      /\ Sleep'.demod = Sleep.demod /\ Sleep'.r01 = Sleep.r01 /\ Sleep'.r05 = Sleep.r05
  BY <1>2 DEF Sleep
<1>6. Sleep'.standby = IF op.do = "standby" THEN op.val ELSE Sleep.standby
  BY <1>2 DEF Sleep
<1>7. /\ Sleep'.c01 = IF op.do = "mode" THEN Sleep.standby ELSE Sleep.c01
      /\ Sleep'.c05 = IF op.do = "mode" THEN Sleep.standby ELSE Sleep.c05
  <2>1. /\ reg'.r01 = IF op.do = "mode" THEN standby ELSE reg.r01
        /\ reg'.r05 = IF op.do = "mode" THEN standby ELSE reg.r05
    BY <1>2 DEF TypeInv, Copies
  <2> QED
    BY <2>1 DEF Sleep
<1> QED
  BY <1>2, <1>3, <1>4, <1>5, <1>6, <1>7

(* The call is the same one. *)
LEMMA SameEnds ==
    ASSUME NEW t \in Threads, NEW l, Goes(t, l)
    PROVE  /\ Sleeps(th'[t]) = Sleeps(th[t]) /\ End(th'[t]) = End(th[t])
           /\ Rest(th'[t]) = Rest(th[t])
           /\ th'[t].todo = l /\ th'[t].call = th[t].call /\ th'[t].ch = th[t].ch
<1>1. th'[t].todo = l /\ th'[t].call = th[t].call /\ th'[t].ch = th[t].ch
  BY DEF Goes
<1>2. Sleeps(th'[t]) = Sleeps(th[t]) /\ Rest(th'[t]) = Rest(th[t])
  BY <1>1, Zenon DEF Sleeps, Rest
<1> QED
  BY <1>1, <1>2, Zenon DEF End

(* What a step of set_tuner_sleep comes to, but for the last one. *)
SleepGoesOn(t) ==
    /\ Goes_on(t) /\ \E l : Goes(t, l)
    /\ \/ Within(type, th'[t], ~ mixed', Sleep')
       \/ mixed' /\ Sleeps(th[t]) /\ th'[t].todo = <<>>

LEMMA SleepLists ==
    ASSUME TypeInv, NEW t \in Threads
    PROVE  LET e == End(th[t])
               l == th[t].todo
           IN  /\ e \in Seq(Ops)
               /\ \A a : l = <<a>> \o e => Head(l) = a /\ Tail(l) = e
               /\ \A a, b : l = <<a, b>> \o e => Head(l) = a /\ Tail(l) = <<b>> \o e
               /\ \A a, b, c : l = <<a, b, c>> \o e => Head(l) = a /\ Tail(l) = <<b, c>> \o e
               /\ \A a, b, c, d :
                    l = <<a, b, c, d>> \o e => Head(l) = a /\ Tail(l) = <<b, c, d>> \o e
<1> DEFINE e == End(th[t])
           l == th[t].todo
<1>1. e \in Seq(Ops)
  BY Ends, Lists
<1> HIDE DEF e, l
<1>2. \A a : l = <<a>> \o e => Head(l) = a /\ Tail(l) = e
  BY <1>1, Lead1
<1>3. \A a, b : l = <<a, b>> \o e => Head(l) = a /\ Tail(l) = <<b>> \o e
  BY <1>1, Lead2
<1>4. ASSUME NEW a, NEW b, NEW c, l = <<a, b, c>> \o e
      PROVE  Head(l) = a /\ Tail(l) = <<b, c>> \o e
  BY <1>1, <1>4, Lead3
<1>5. ASSUME NEW a, NEW b, NEW c, NEW d, l = <<a, b, c, d>> \o e
      PROVE  Head(l) = a /\ Tail(l) = <<b, c, d>> \o e
  BY <1>1, <1>5, Lead4
<1> QED
  BY <1>1, <1>2, <1>3, <1>4, <1>5, Zenon DEF e, l

(* A close has nothing more to do. *)
LEMMA ClosingEnd ==
    ASSUME NEW h \in Calls, Sleeps(h)
    PROVE  Len(End(h)) = 2
<1> DEFINE d == Demod(TRUE)
<1>1. End(h) = <<d, slept>> \o <<>>
  BY Ends, Zenon DEF End
<1>2. d \in Ops /\ slept \in Ops
  BY SleepingOps
<1> HIDE DEF d, Ops
<1>3. <<d, slept>> \in Seq(Ops) /\ Len(<<d, slept>>) = 2
  BY <1>2
<1>4. <<d, slept>> \o <<>> = <<d, slept>>
  BY <1>3, ConcatEmptySeq, Zenon
<1> QED
  BY <1>1, <1>3, <1>4

(* The gain control of a channel that is put to sleep.  If this fails the    *)
(* rest of set_tuner_sleep is given up.                                      *)
LEMMA ManualFirst ==
    ASSUME TypeInv, NEW t \in Threads, Acts(t), Marked(th[t].todo), Sleeps(th[t]),
           NEW b \in Ops, th[t].todo = <<manual, b>> \o End(th[t])
    PROVE  /\ Goes_on(t)
           /\ \/ /\ Goes(t, <<b>> \o End(th[t]))
                 /\ ~ mixed' => ~ mixed /\ Puts(Sleep, Sleep', "agc", "manual")
              \/ Goes(t, <<>>) /\ mixed'
<1> DEFINE e == End(th[t])
           s == <<b>> \o e
<1>1. e \in Seq(Ops) /\ Len(e) = 2
  BY Lists, Ends, ClosingEnd
<1>2. manual \in Ops
  BY SleepingOps
<1>3. <<manual, b>> \o e = <<manual>> \o s
  <2> HIDE DEF Ops, e
  <2>1. <<manual>> \in Seq(Ops) /\ <<b>> \in Seq(Ops)
    BY <1>2
  <2>2. (<<manual>> \o <<b>>) \o e = <<manual>> \o (<<b>> \o e)
    BY <1>1, <2>1, ConcatAssociative
  <2>3. <<manual>> \o <<b>> = <<manual, b>>
    BY Join11, Zenon
  <2> QED
    BY <2>2, <2>3, Zenon
<1>4. s \in Seq(Ops) /\ Len(s) < All
  <2> HIDE DEF Ops, e
  <2>1. <<b>> \o e \in Seq(Ops) /\ Len(<<b>> \o e) = 1 + Len(e)
    BY <1>1, OneMore, Zenon
  <2> QED
    BY <1>1, <2>1 DEF All
<1>5. th[t].todo = <<Write("agc", "manual", All)>> \o s
  BY <1>3, Zenon DEF manual
<1> HIDE DEF s
<1>6. /\ Goes_on(t)
      /\ \/ /\ Goes(t, s)
            /\ ~ mixed' => ~ mixed /\ Puts(Sleep, Sleep', "agc", "manual")
         \/ Goes(t, <<>>) /\ mixed'
  BY <1>4, <1>5, DropAll
<1> QED
  BY <1>6 DEF s

(* A satellite tuner. *)
LEMMA SatelliteSleepStep ==
    ASSUME TypeInv, NEW t \in Threads, Acts(t), type = "S", th[t].call # "none",
           WithinS(th[t], ~ mixed, Sleep)
    PROVE  SleepGoesOn(t)
<1> DEFINE h == th[t]
           g == th'[t]
           f == Sleep
           x == Sleeps(th[t])
           e == End(th[t])
           Next1(l) == Goes(t, l) /\ g.todo = l /\ Sleeps(g) = x /\ End(g) = e /\ g.call # "none"
           Result == /\ Goes_on(t) /\ \E l : Goes(t, l)
                     /\ WithinS(g, ~ mixed', Sleep') \/ Ended(type, g, ~ mixed', Sleep')
<1>1. h \in Calls /\ e \in Seq(Ops) /\ x \in BOOLEAN
  BY Lists, Ends DEF Sleeps
<1>2. \A l : Goes(t, l) => Next1(l)
  BY SameEnds
<1>3. Marked(th[t].todo)
  <2>1. Within(type, h, ~ mixed, Sleep)
    BY Zenon DEF Within
  <2> QED
    BY <1>1, <2>1, WithinIsMarked
<1>4. ASSUME Result
      PROVE  SleepGoesOn(t)
  <2>1. th'[t].call # "none"
    BY <1>4, <1>2
  <2>2. type' = type
    BY <1>4 DEF Goes_on
  <2> QED
    BY <1>4, <2>1, <2>2, Zenon DEF SleepGoesOn, Within
<1>5. ASSUME h.todo = <<Local("standby", x), Begin(x), mode>> \o e,
             ~ mixed => f.issleep = x
      PROVE  SleepGoesOn(t)
  <2>1. Head(h.todo) = Local("standby", x) /\ Tail(h.todo) = <<Begin(x), mode>> \o e
    BY <1>5, SleepLists, Zenon
  <2>2. Local("standby", x).do = "standby" /\ Local("standby", x).val = x
    BY DEF Local
  <2>3. /\ Goes_on(t) /\ (~ mixed' <=> ~ mixed) /\ Sleep'.issleep = f.issleep
        /\ Sleep'.standby = x /\ Goes(t, <<Begin(x), mode>> \o e)
    BY <2>1, <2>2, MemoryInSleep
  <2>4. Next1(<<Begin(x), mode>> \o e) /\ (~ mixed' => Sleep'.issleep = x)
    BY <1>2, <1>5, <2>3
  <2>5. WithinS(g, ~ mixed', Sleep')
    BY <2>3, <2>4, Zenon DEF WithinS
  <2> QED
    BY <2>3, <2>5, <1>4, Zenon
<1>6. ASSUME h.todo = <<Begin(x), mode>> \o e,
             ~ mixed => f.issleep = x /\ f.standby = x
      PROVE  SleepGoesOn(t)
  <2>1. CASE x
    <3>1. h.todo = <<manual, mode>> \o e
      BY <1>6, <2>1 DEF Begin
    <3>2. mode \in Ops
      BY SleepingOps
    <3>3. /\ Goes_on(t)
          /\ \/ /\ Goes(t, <<mode>> \o e)
                /\ ~ mixed' => ~ mixed /\ Puts(Sleep, Sleep', "agc", "manual")
             \/ Goes(t, <<>>) /\ mixed'
      BY <1>3, <2>1, <3>1, <3>2, ManualFirst, Zenon
    <3>4. CASE Goes(t, <<>>) /\ mixed'
      BY <2>1, <3>3, <3>4, <1>2, Zenon DEF SleepGoesOn
    <3>5. CASE /\ Goes(t, <<mode>> \o e)
               /\ ~ mixed' => ~ mixed /\ Puts(Sleep, Sleep', "agc", "manual")
      <4>1. ~ mixed' => Sleep'.issleep = x /\ Sleep'.standby = x
        BY <1>6, <3>5, Zenon DEF Puts
      <4>2. Next1(<<mode>> \o e)
        BY <1>2, <3>5
      <4>3. WithinS(g, ~ mixed', Sleep')
        BY <2>1, <4>1, <4>2, Zenon DEF WithinS
      <4> QED
        BY <3>3, <3>5, <4>3, <1>4, Zenon
    <3> QED
      BY <3>3, <3>4, <3>5
  <2>2. CASE ~ x
    <3>1. Head(h.todo) = Write("demod", FALSE, 0) /\ Tail(h.todo) = <<mode>> \o e
      <4>1. Head(h.todo) = Begin(x) /\ Tail(h.todo) = <<mode>> \o e
        BY <1>6, SleepLists, Zenon
      <4>2. Begin(x) = Demod(FALSE)
        BY <2>2 DEF Begin
      <4> QED
        BY <4>1, <4>2 DEF Demod
    <3>2. /\ Goes_on(t) /\ Goes(t, <<mode>> \o e)
          /\ ~ mixed' => ~ mixed /\ Puts(Sleep, Sleep', "demod", FALSE)
      BY <1>3, <3>1, DropNone
    <3>3. Next1(<<mode>> \o e)
      BY <1>2, <3>2
    <3>4. ~ mixed' => Sleep'.issleep = x /\ Sleep'.standby = x /\ ~ Sleep'.demod
      BY <1>6, <3>2, Zenon DEF Puts
    <3>5. WithinS(g, ~ mixed', Sleep')
      BY <3>3, <3>4, Zenon DEF WithinS
    <3> QED
      BY <3>2, <3>5, <1>4, Zenon
  <2> QED
    BY <2>1, <2>2

<1>7. ASSUME h.todo = <<mode>> \o e,
             ~ mixed => f.issleep = x /\ f.standby = x /\ (~ x => ~ f.demod)
      PROVE  SleepGoesOn(t)
  <2>1. Head(h.todo) = mode /\ Tail(h.todo) = e
    BY <1>7, SleepLists, Zenon
  <2>2. /\ Goes_on(t) /\ (~ mixed' <=> ~ mixed) /\ Sleep'.issleep = f.issleep
        /\ Sleep'.demod = f.demod /\ Sleep'.standby = f.standby
        /\ Sleep'.c01 = f.standby /\ Sleep'.c05 = f.standby
        /\ Goes(t, SleepMode \o e)
    BY <2>1, FirstStepsDiffer, MemoryInSleep
  <2>3. standby \in BOOLEAN /\ f.standby = standby
    BY DEF TypeInv, Sleep
  <2>4. CASE standby
    <3>1. standby = TRUE
      BY <2>3, <2>4
    <3>2. SleepMode = <<Write("r05", TRUE, 1), Copy("r01", 0)>>
      BY <3>1, Zenon DEF SleepMode
    <3>3. Next1(<<Write("r05", TRUE, 1), Copy("r01", 0)>> \o e)
      BY <1>2, <2>2, <3>2
    <3>4. ~ mixed' => Sleep'.issleep = x /\ x /\ Sleep'.c01
      BY <1>7, <2>2, <2>3, <3>1
    <3>5. WithinS(g, ~ mixed', Sleep')
      BY <3>3, <3>4, Zenon DEF WithinS
    <3> QED
      BY <2>2, <3>5, <1>4, Zenon
  <2>5. CASE ~ standby
    <3>1. standby = FALSE
      BY <2>3, <2>5
    <3>2. SleepMode = <<Write("r01", FALSE, 1), Copy("r05", 0)>>
      BY <3>1, Zenon DEF SleepMode
    <3>3. Next1(<<Write("r01", FALSE, 1), Copy("r05", 0)>> \o e)
      BY <1>2, <2>2, <3>2
    <3>4. ~ mixed' => Sleep'.issleep = x /\ ~ x /\ ~ Sleep'.c05 /\ ~ Sleep'.demod
      BY <1>7, <2>2, <2>3, <3>1
    <3>5. WithinS(g, ~ mixed', Sleep')
      BY <3>3, <3>4, Zenon DEF WithinS
    <3> QED
      BY <2>2, <3>5, <1>4, Zenon
  <2> QED
    BY <2>4, <2>5
<1>8. ASSUME h.todo = <<Write("r05", TRUE, 1), Copy("r01", 0)>> \o e,
             ~ mixed => f.issleep = x /\ x /\ f.c01
      PROVE  SleepGoesOn(t)
  <2>1. /\ Goes_on(t)
        /\ \/ /\ Goes(t, <<Copy("r01", 0)>> \o e)
              /\ ~ mixed' => ~ mixed /\ Puts(Sleep, Sleep', "r05", TRUE)
           \/ Goes(t, e) /\ mixed'
    BY <1>1, <1>3, <1>8, DropOne
  <2>2. CASE Goes(t, e) /\ mixed'
    <3>1. Next1(e)
      BY <1>2, <2>2
    <3>2. Ended(type, g, ~ mixed', Sleep')
      BY <2>2, <3>1, Zenon DEF Ended
    <3> QED
      BY <2>1, <2>2, <3>2, <1>4, Zenon
  <2>3. CASE /\ Goes(t, <<Copy("r01", 0)>> \o e)
             /\ ~ mixed' => ~ mixed /\ Puts(Sleep, Sleep', "r05", TRUE)
    <3>1. Next1(<<Copy("r01", 0)>> \o e)
      BY <1>2, <2>3
    <3>2. ~ mixed' => Sleep'.issleep = x /\ x /\ Sleep'.c01 /\ Sleep'.r05
      BY <1>8, <2>3 DEF Puts
    <3>3. WithinS(g, ~ mixed', Sleep')
      BY <3>1, <3>2, Zenon DEF WithinS
    <3> QED
      BY <2>1, <2>3, <3>3, <1>4, Zenon
  <2> QED
    BY <2>1, <2>2, <2>3
<1>9. ASSUME h.todo = <<Write("r01", FALSE, 1), Copy("r05", 0)>> \o e,
             ~ mixed => f.issleep = x /\ ~ x /\ ~ f.c05 /\ ~ f.demod
      PROVE  SleepGoesOn(t)
  <2>1. /\ Goes_on(t)
        /\ \/ /\ Goes(t, <<Copy("r05", 0)>> \o e)
              /\ ~ mixed' => ~ mixed /\ Puts(Sleep, Sleep', "r01", FALSE)
           \/ Goes(t, e) /\ mixed'
    BY <1>1, <1>3, <1>9, DropOne
  <2>2. CASE Goes(t, e) /\ mixed'
    <3>1. Next1(e)
      BY <1>2, <2>2
    <3>2. Ended(type, g, ~ mixed', Sleep')
      BY <2>2, <3>1, Zenon DEF Ended
    <3> QED
      BY <2>1, <2>2, <3>2, <1>4, Zenon
  <2>3. CASE /\ Goes(t, <<Copy("r05", 0)>> \o e)
             /\ ~ mixed' => ~ mixed /\ Puts(Sleep, Sleep', "r01", FALSE)
    <3>1. Next1(<<Copy("r05", 0)>> \o e)
      BY <1>2, <2>3
    <3>2. ~ mixed' => Sleep'.issleep = x /\ ~ x /\ ~ Sleep'.c05 /\ ~ Sleep'.demod /\ ~ Sleep'.r01
      BY <1>9, <2>3 DEF Puts
    <3>3. WithinS(g, ~ mixed', Sleep')
      BY <3>1, <3>2, Zenon DEF WithinS
    <3> QED
      BY <2>1, <2>3, <3>3, <1>4, Zenon
  <2> QED
    BY <2>1, <2>2, <2>3
<1>10. ASSUME h.todo = <<Copy("r01", 0)>> \o e,
              ~ mixed => f.issleep = x /\ x /\ f.c01 /\ f.r05
       PROVE  SleepGoesOn(t)
  <2>1. Head(h.todo) = Copy("r01", 0) /\ Tail(h.todo) = e
    BY <1>10, SleepLists, Zenon
  <2>2. Copy("r01", 0).do = "copy" /\ Copy("r01", 0).reg = "r01" /\ Copy("r01", 0).drop = 0
    BY DEF Copy
  <2>3. /\ Goes_on(t) /\ (~ mixed' <=> ~ mixed) /\ Sleep'.issleep = f.issleep /\ Sleep'.r05 = f.r05
        /\ Goes(t, <<Write("r01", reg["r01"], 0)>> \o e)
    BY <2>1, <2>2, MemoryInSleep
  <2>4. reg["r01"] \in BOOLEAN /\ f.c01 = reg["r01"]
    BY DEF TypeInv, Copies, Sleep
  <2>5. Next1(<<Write("r01", reg["r01"], 0)>> \o e)
    BY <1>2, <2>3
  <2>6. ~ mixed' => Sleep'.issleep = x /\ x /\ reg["r01"] /\ Sleep'.r05
    BY <1>10, <2>3, <2>4
  <2>7. WithinS(g, ~ mixed', Sleep')
    <3>1. \E v \in BOOLEAN : /\ g.todo = <<Write("r01", v, 0)>> \o End(g)
                             /\ ~ mixed' => Sleep'.issleep = Sleeps(g) /\ Sleeps(g) /\ v /\ Sleep'.r05
      BY <2>4, <2>5, <2>6, Zenon
    <3> QED
      BY <3>1, Zenon DEF WithinS
  <2> QED
    BY <2>3, <2>7, <1>4, Zenon
<1>11. ASSUME h.todo = <<Copy("r05", 0)>> \o e,
              ~ mixed => f.issleep = x /\ ~ x /\ ~ f.c05 /\ ~ f.demod /\ ~ f.r01
       PROVE  SleepGoesOn(t)
  <2>1. Head(h.todo) = Copy("r05", 0) /\ Tail(h.todo) = e
    BY <1>11, SleepLists, Zenon
  <2>2. Copy("r05", 0).do = "copy" /\ Copy("r05", 0).reg = "r05" /\ Copy("r05", 0).drop = 0
    BY DEF Copy
  <2>3. /\ Goes_on(t) /\ (~ mixed' <=> ~ mixed) /\ Sleep'.issleep = f.issleep
        /\ Sleep'.demod = f.demod /\ Sleep'.r01 = f.r01
        /\ Goes(t, <<Write("r05", reg["r05"], 0)>> \o e)
    BY <2>1, <2>2, MemoryInSleep
  <2>4. reg["r05"] \in BOOLEAN /\ f.c05 = reg["r05"]
    BY DEF TypeInv, Copies, Sleep
  <2>5. Next1(<<Write("r05", reg["r05"], 0)>> \o e)
    BY <1>2, <2>3
  <2>6. ~ mixed' => Sleep'.issleep = x /\ ~ x /\ ~ reg["r05"] /\ ~ Sleep'.demod /\ ~ Sleep'.r01
    BY <1>11, <2>3, <2>4
  <2>7. WithinS(g, ~ mixed', Sleep')
    <3>1. \E v \in BOOLEAN : /\ g.todo = <<Write("r05", v, 0)>> \o End(g)
                             /\ ~ mixed' => /\ Sleep'.issleep = Sleeps(g) /\ ~ Sleeps(g) /\ ~ v
                                            /\ ~ Sleep'.demod /\ ~ Sleep'.r01
      BY <2>4, <2>5, <2>6, Zenon
    <3> QED
      BY <3>1, Zenon DEF WithinS
  <2> QED
    BY <2>3, <2>7, <1>4, Zenon
<1>12. ASSUME NEW v \in BOOLEAN, h.todo = <<Write("r01", v, 0)>> \o e,
              ~ mixed => f.issleep = x /\ x /\ v /\ f.r05
       PROVE  SleepGoesOn(t)
  <2>1. Head(h.todo) = Write("r01", v, 0) /\ Tail(h.todo) = e
    BY <1>12, SleepLists, Zenon
  <2>2. /\ Goes_on(t) /\ Goes(t, e)
        /\ ~ mixed' => ~ mixed /\ Puts(Sleep, Sleep', "r01", v)
    BY <1>3, <2>1, DropNone
  <2>3. Next1(e)
    BY <1>2, <2>2
  <2>4. ~ mixed' => Sleep'.issleep = x /\ Sleep'.r01 = x /\ Sleep'.r05 = x /\ x
    <3>1. Sleep.r05 \in BOOLEAN
      BY DEF Sleep, TypeInv, Chips
    <3> QED
      BY <1>12, <2>2, <3>1, <1>1 DEF Puts
  <2>5. Ended(type, g, ~ mixed', Sleep')
    BY <2>3, <2>4, Zenon DEF Ended
  <2> QED
    BY <2>2, <2>5, <1>4, Zenon
<1>13. ASSUME NEW v \in BOOLEAN, h.todo = <<Write("r05", v, 0)>> \o e,
              ~ mixed => f.issleep = x /\ ~ x /\ ~ v /\ ~ f.demod /\ ~ f.r01
       PROVE  SleepGoesOn(t)
  <2>1. Head(h.todo) = Write("r05", v, 0) /\ Tail(h.todo) = e
    BY <1>13, SleepLists, Zenon
  <2>2. /\ Goes_on(t) /\ Goes(t, e)
        /\ ~ mixed' => ~ mixed /\ Puts(Sleep, Sleep', "r05", v)
    BY <1>3, <2>1, DropNone
  <2>3. Next1(e)
    BY <1>2, <2>2
  <2>4. ~ mixed' => Sleep'.issleep = x /\ Sleep'.r01 = x /\ Sleep'.r05 = x /\ ~ Sleep'.demod
    <3>1. Sleep.r01 \in BOOLEAN
      BY DEF Sleep, TypeInv, Chips
    <3> QED
      BY <1>13, <2>2, <3>1, <1>1 DEF Puts
  <2>5. Ended(type, g, ~ mixed', Sleep')
    BY <2>3, <2>4, Zenon DEF Ended
  <2> QED
    BY <2>2, <2>5, <1>4, Zenon
<1> QED
  BY <1>5, <1>6, <1>7, <1>8, <1>9, <1>10, <1>11, <1>12, <1>13, Zenon DEF WithinS

(* A terrestrial one. *)
LEMMA TerrestrialSleepStep ==
    ASSUME TypeInv, NEW t \in Threads, Acts(t), type = "T", th[t].call # "none",
           WithinT(th[t], ~ mixed, Sleep)
    PROVE  SleepGoesOn(t)
<1> DEFINE h == th[t]
           g == th'[t]
           f == Sleep
           x == Sleeps(th[t])
           e == End(th[t])
           w == Local("wakeup", None)
           Next1(l) == Goes(t, l) /\ g.todo = l /\ Sleeps(g) = x /\ End(g) = e /\ g.call # "none"
           Result == /\ Goes_on(t) /\ \E l : Goes(t, l)
                     /\ WithinT(g, ~ mixed', Sleep') \/ Ended(type, g, ~ mixed', Sleep')
<1>1. h \in Calls /\ e \in Seq(Ops) /\ x \in BOOLEAN
  BY Lists, Ends DEF Sleeps
<1>2. \A l : Goes(t, l) => Next1(l)
  BY SameEnds
<1>3. Marked(th[t].todo)
  <2>1. Within(type, h, ~ mixed, Sleep)
    BY Zenon DEF Within
  <2> QED
    BY <1>1, <2>1, WithinIsMarked
<1>4. ASSUME Result
      PROVE  SleepGoesOn(t)
  <2>1. th'[t].call # "none"
    BY <1>4, <1>2
  <2>2. type' = type
    BY <1>4 DEF Goes_on
  <2> QED
    BY <1>4, <2>1, <2>2, Zenon DEF SleepGoesOn, Within
<1>5. ASSUME x, h.todo = <<manual, Write("r01", x, 0)>> \o e, ~ mixed => f.issleep = x
      PROVE  SleepGoesOn(t)
  <2> DEFINE r == Write("r01", x, 0)
  <2>1. r \in Ops
    BY <1>1, SleepingOps
  <2> HIDE DEF r
  <2>2. /\ Goes_on(t)
        /\ \/ /\ Goes(t, <<r>> \o e)
              /\ ~ mixed' => ~ mixed /\ Puts(Sleep, Sleep', "agc", "manual")
           \/ Goes(t, <<>>) /\ mixed'
    <3>1. h.todo = <<manual, r>> \o e
      BY <1>5 DEF r
    <3> QED
      BY <1>3, <1>5, <2>1, <3>1, ManualFirst, Zenon
  <2>3. CASE Goes(t, <<>>) /\ mixed'
    BY <1>5, <2>2, <2>3, <1>2, Zenon DEF SleepGoesOn
  <2>4. CASE /\ Goes(t, <<r>> \o e)
             /\ ~ mixed' => ~ mixed /\ Puts(Sleep, Sleep', "agc", "manual")
    <3>1. ~ mixed' => Sleep'.issleep = x
      BY <1>5, <2>4, Zenon DEF Puts
    <3>2. Next1(<<Write("r01", x, 0)>> \o e)
      BY <1>2, <2>4 DEF r
    <3>3. WithinT(g, ~ mixed', Sleep')
      BY <1>5, <3>1, <3>2, Zenon DEF WithinT
    <3> QED
      BY <2>2, <2>4, <3>3, <1>4, Zenon
  <2> QED
    BY <2>2, <2>3, <2>4
<1>6. ASSUME h.todo = <<Write("r01", x, 0)>> \o e, x, ~ mixed => f.issleep = x
      PROVE  SleepGoesOn(t)
  <2>1. Head(h.todo) = Write("r01", x, 0) /\ Tail(h.todo) = e
    BY <1>6, SleepLists, Zenon
  <2>2. /\ Goes_on(t) /\ Goes(t, e)
        /\ ~ mixed' => ~ mixed /\ Puts(Sleep, Sleep', "r01", x)
    BY <1>3, <2>1, DropNone
  <2>3. Next1(e)
    BY <1>2, <2>2
  <2>4. ~ mixed' => Sleep'.issleep = x /\ Sleep'.r01 = x
    BY <1>6, <2>2, Zenon DEF Puts
  <2>5. Ended(type, g, ~ mixed', Sleep')
    <3>1. type # "S"
      OBVIOUS
    <3> QED
      BY <1>6, <2>3, <2>4, <3>1, Zenon DEF Ended
  <2> QED
    BY <2>2, <2>5, <1>4, Zenon
<1>7. ASSUME ~ x, h.todo = <<Demod(x), Write("r01", x, 0), w>> \o e, ~ mixed => f.issleep = x
      PROVE  SleepGoesOn(t)
  <2>1. Head(h.todo) = Write("demod", x, 0) /\ Tail(h.todo) = <<Write("r01", x, 0), w>> \o e
    BY <1>7, SleepLists, Zenon DEF Demod
  <2>2. /\ Goes_on(t) /\ Goes(t, <<Write("r01", x, 0), w>> \o e)
        /\ ~ mixed' => ~ mixed /\ Puts(Sleep, Sleep', "demod", x)
    BY <1>3, <2>1, DropNone
  <2>3. Next1(<<Write("r01", x, 0), w>> \o e)
    BY <1>2, <2>2
  <2>4. ~ mixed' => Sleep'.issleep = x /\ ~ Sleep'.demod
    BY <1>7, <2>2, Zenon DEF Puts
  <2>5. WithinT(g, ~ mixed', Sleep')
    BY <1>7, <2>3, <2>4, Zenon DEF WithinT
  <2> QED
    BY <2>2, <2>5, <1>4, Zenon
<1>8. ASSUME ~ x, h.todo = <<Write("r01", x, 0), w>> \o e,
             ~ mixed => f.issleep = x /\ ~ f.demod
      PROVE  SleepGoesOn(t)
  <2>1. Head(h.todo) = Write("r01", x, 0) /\ Tail(h.todo) = <<w>> \o e
    BY <1>8, SleepLists, Zenon
  <2>2. /\ Goes_on(t) /\ Goes(t, <<w>> \o e)
        /\ ~ mixed' => ~ mixed /\ Puts(Sleep, Sleep', "r01", x)
    BY <1>3, <2>1, DropNone
  <2>3. Next1(<<w>> \o e)
    BY <1>2, <2>2
  <2>4. ~ mixed' => Sleep'.issleep = x /\ ~ Sleep'.demod /\ ~ Sleep'.r01
    <3>1. ~ mixed' => Sleep'.issleep = f.issleep /\ Sleep'.demod = f.demod /\ Sleep'.r01 = x
      BY <2>2 DEF Puts
    <3> QED
      BY <1>8, <2>2, <3>1
  <2>5. WithinT(g, ~ mixed', Sleep')
    BY <1>8, <2>3, <2>4, Zenon DEF WithinT
  <2> QED
    BY <2>2, <2>5, <1>4, Zenon
<1>9. ASSUME ~ x, h.todo = <<w>> \o e, ~ mixed => f.issleep = x /\ ~ f.demod /\ ~ f.r01
      PROVE  SleepGoesOn(t)
  <2>1. Head(h.todo) = w /\ Tail(h.todo) = e
    BY <1>9, SleepLists, Zenon
  <2>2. w.do = "wakeup"
    BY DEF Local
  <2>3. /\ Goes_on(t) /\ (~ mixed' <=> ~ mixed) /\ Sleep'.issleep = f.issleep
        /\ Sleep'.demod = f.demod /\ Sleep'.r01 = f.r01
        /\ Goes(t, rftune(mxfreq) \o e)
    BY <2>1, <2>2, MemoryInSleep
  <2>4. mxfreq \in Nat /\ rftune(mxfreq) = <<Write("rf1", mxfreq, 0), Write("rf2", mxfreq, 0)>>
    BY DEF TypeInv, rftune
  <2>5. Next1(<<Write("rf1", mxfreq, 0), Write("rf2", mxfreq, 0)>> \o e)
    BY <1>2, <2>3, <2>4
  <2>6. ~ mixed' => Sleep'.issleep = x /\ ~ Sleep'.demod /\ ~ Sleep'.r01
    BY <1>9, <2>3
  <2>7. WithinT(g, ~ mixed', Sleep')
    <3>1. \E v \in Nat : /\ ~ Sleeps(g)
                         /\ g.todo = <<Write("rf1", v, 0), Write("rf2", v, 0)>> \o End(g)
                         /\ ~ mixed' => /\ Sleep'.issleep = Sleeps(g)
                                        /\ ~ Sleep'.demod /\ ~ Sleep'.r01
      BY <1>9, <2>4, <2>5, <2>6, Zenon
    <3> QED
      BY <3>1, Zenon DEF WithinT
  <2> QED
    BY <2>3, <2>7, <1>4, Zenon
<1>10. ASSUME NEW v \in Nat, ~ x, h.todo = <<Write("rf1", v, 0), Write("rf2", v, 0)>> \o e,
              ~ mixed => f.issleep = x /\ ~ f.demod /\ ~ f.r01
       PROVE  SleepGoesOn(t)
  <2>1. Head(h.todo) = Write("rf1", v, 0) /\ Tail(h.todo) = <<Write("rf2", v, 0)>> \o e
    BY <1>10, SleepLists, Zenon
  <2>2. /\ Goes_on(t) /\ Goes(t, <<Write("rf2", v, 0)>> \o e)
        /\ ~ mixed' => ~ mixed /\ Puts(Sleep, Sleep', "rf1", v)
    BY <1>3, <2>1, DropNone
  <2>3. Next1(<<Write("rf2", v, 0)>> \o e)
    BY <1>2, <2>2
  <2>4. ~ mixed' => Sleep'.issleep = x /\ ~ Sleep'.demod /\ ~ Sleep'.r01
    BY <1>10, <2>2, Zenon DEF Puts
  <2>5. WithinT(g, ~ mixed', Sleep')
    <3>1. \E u \in Nat : /\ ~ Sleeps(g)
                         /\ g.todo = <<Write("rf2", u, 0)>> \o End(g)
                         /\ ~ mixed' => /\ Sleep'.issleep = Sleeps(g)
                                        /\ ~ Sleep'.demod /\ ~ Sleep'.r01
      BY <1>10, <2>3, <2>4, Zenon
    <3> QED
      BY <3>1, Zenon DEF WithinT
  <2> QED
    BY <2>2, <2>5, <1>4, Zenon
<1>11. ASSUME NEW v \in Nat, ~ x, h.todo = <<Write("rf2", v, 0)>> \o e,
              ~ mixed => f.issleep = x /\ ~ f.demod /\ ~ f.r01
       PROVE  SleepGoesOn(t)
  <2>1. Head(h.todo) = Write("rf2", v, 0) /\ Tail(h.todo) = e
    BY <1>11, SleepLists, Zenon
  <2>2. /\ Goes_on(t) /\ Goes(t, e)
        /\ ~ mixed' => ~ mixed /\ Puts(Sleep, Sleep', "rf2", v)
    BY <1>3, <2>1, DropNone
  <2>3. Next1(e)
    BY <1>2, <2>2
  <2>4. ~ mixed' => Sleep'.issleep = x /\ Sleep'.r01 = x /\ ~ Sleep'.demod
    <3>1. Sleep.r01 \in BOOLEAN
      BY DEF Sleep, TypeInv, Chips
    <3>2. ~ mixed' => Sleep'.issleep = f.issleep /\ Sleep'.demod = f.demod /\ Sleep'.r01 = f.r01
      BY <2>2 DEF Puts
    <3> QED
      BY <1>1, <1>11, <2>2, <3>1, <3>2
  <2>5. Ended(type, g, ~ mixed', Sleep')
    <3>1. type # "S"
      OBVIOUS
    <3> QED
      BY <2>3, <2>4, <3>1, Zenon DEF Ended
  <2> QED
    BY <2>2, <2>5, <1>4, Zenon
<1> QED
  BY <1>5, <1>6, <1>7, <1>8, <1>9, <1>10, <1>11, Zenon DEF WithinT

(* The last step of set_tuner_sleep: it ended well if no other was there. *)
SleepStops(t) ==
    /\ Goes(t, Rest(th[t])) /\ UNCHANGED <<type, valid, crossed, sfreq, issleep>> /\ Sleep' = Sleep
    /\ mixed' = mixed /\ agreed' = (Sleepers = {t} /\ ~ mixed)
    /\ ~ mixed => IF issleep THEN Asleep ELSE Awake

LEMMA SleepEndStep ==
    ASSUME TypeInv, NEW t \in Threads, Acts(t), th[t].call # "none",
           Ended(type, th[t], ~ mixed, Sleep)
    PROVE  SleepGoesOn(t) \/ SleepStops(t)
<1> DEFINE h == th[t]
           g == th'[t]
           f == Sleep
           x == Sleeps(th[t])
           e == End(th[t])
           Fact == f.issleep = x /\ f.r01 = x /\ (type = "S" => f.r05 = x)
<1>1. h \in Calls /\ x \in BOOLEAN /\ Rest(h) \in Seq(Ops)
  BY Lists, Ends DEF Sleeps
<1>2. Marked(h.todo)
  <2>1. Within(type, h, ~ mixed, Sleep)
    BY Zenon DEF Within
  <2> QED
    BY <1>1, <2>1, WithinIsMarked
<1>3. ASSUME x, h.todo = e, ~ mixed => Fact
      PROVE  SleepGoesOn(t)
  <2>1. h.todo = <<Demod(TRUE), slept>> \o Rest(h)
    BY <1>3, Zenon DEF End
  <2>2. Head(h.todo) = Write("demod", TRUE, 0) /\ Tail(h.todo) = <<slept>> \o Rest(h)
    <3> DEFINE d == Demod(TRUE)
    <3> HIDE DEF d
    <3>1. h.todo = <<d, slept>> \o Rest(h)
      BY <2>1 DEF d
    <3>2. Head(h.todo) = d /\ Tail(h.todo) = <<slept>> \o Rest(h)
      BY <1>1, <3>1, Lead2
    <3> QED
      BY <3>2 DEF d, Demod
  <2>3. /\ Goes_on(t) /\ Goes(t, <<slept>> \o Rest(h))
        /\ ~ mixed' => ~ mixed /\ Puts(Sleep, Sleep', "demod", TRUE)
    BY <1>2, <2>2, DropNone
  <2>4. /\ g.todo = <<slept>> \o Rest(g) /\ Sleeps(g) = x /\ g.call # "none"
    BY <2>3, SameEnds
  <2>5. ~ mixed' => /\ Sleep'.issleep = x /\ Sleep'.r01 = x /\ (type = "S" => Sleep'.r05 = x)
                    /\ Sleep'.demod = x
    <3>1. ~ mixed' => /\ Sleep'.issleep = f.issleep /\ Sleep'.demod = TRUE
                      /\ Sleep'.r01 = f.r01 /\ Sleep'.r05 = f.r05
      BY <2>3 DEF Puts
    <3>2. x = TRUE
      BY <1>1, <1>3
    <3> QED
      BY <1>3, <2>3, <3>1, <3>2
  <2>6. Ended(type, g, ~ mixed', Sleep')
    BY <2>4, <2>5, Zenon DEF Ended
  <2>7. type' = type
    BY <2>3 DEF Goes_on
  <2> QED
    BY <2>3, <2>4, <2>6, <2>7, Zenon DEF SleepGoesOn, Within
<1>4. ASSUME h.todo = <<slept>> \o Rest(h), ~ mixed => Fact /\ f.demod = x
      PROVE  SleepStops(t)
  <2>1. Head(h.todo) = slept /\ Tail(h.todo) = Rest(h)
    BY <1>1, <1>4, Lead1
  <2>2. slept.do = "slept"
    BY FirstStepsDiffer
  <2>3. Think(t)
    <3>1. Transfer(t) => slept.do \in {"write", "locked", "tmcc_s", "get_id", "tmcc_t"}
      BY <2>1, Transfers DEF Acts
    <3> QED
      BY <2>2, <3>1 DEF Acts
  <2>4. /\ agreed' = (Sleepers = {t} /\ ~ mixed) /\ mixed' = mixed
        /\ Goes(t, Rest(h)) /\ UNCHANGED <<issleep, standby, reg, mxfreq>>
        /\ UNCHANGED <<type, valid, sfreq, hw, signal, crossed>>
    BY <2>1, <2>2, <2>3, Thoughts DEF Acts
  <2>5. Sleep' = Sleep
    BY <2>4 DEF Sleep
  <2>6. ASSUME ~ mixed
        PROVE  IF issleep THEN Asleep ELSE Awake
    <3>1. /\ issleep = x /\ hw.r01 = x /\ hw.demod = x /\ (type = "S" => hw.r05 = x)
      BY <1>4, <2>6 DEF Sleep
    <3> QED
      BY <1>1, <3>1 DEF Asleep, Awake
  <2> QED
    BY <2>4, <2>5, <2>6, Zenon DEF SleepStops
<1>5. \/ h.todo = e /\ (~ mixed => Fact /\ (~ x => ~ f.demod))
      \/ h.todo = <<slept>> \o Rest(h) /\ (~ mixed => Fact /\ f.demod = x)
  BY Zenon DEF Ended
<1>6. CASE h.todo = e /\ (~ mixed => Fact /\ (~ x => ~ f.demod))
  <2>1. CASE x
    BY <1>3, <1>6, <2>1, Zenon
  <2>2. CASE ~ x
    <3>1. h.todo = <<slept>> \o Rest(h)
      BY <1>6, <2>2, Zenon DEF End
    <3>2. ~ mixed => f.demod = x
      <4>1. f.demod \in BOOLEAN
        BY DEF Sleep, TypeInv, Chips
      <4> QED
        BY <1>1, <1>6, <2>2, <4>1
    <3> QED
      BY <1>4, <1>6, <3>1, <3>2, Zenon
  <2> QED
    BY <2>1, <2>2
<1> QED
  BY <1>4, <1>5, <1>6, Zenon

(* The first one. *)
SleepBegins(t) ==
    /\ \E l : Goes(t, l)
    /\ UNCHANGED <<type, valid, crossed, sfreq>>
    /\ issleep' = Sleeps(th[t]) /\ mixed' = (Sleepers # {t}) /\ agreed' = FALSE
    /\ Within(type, th'[t], ~ mixed', Sleep')

LEMMA SleepFirstStep ==
    ASSUME TypeInv, NEW t \in Threads, Acts(t), Waiting(type, th[t])
    PROVE  SleepBegins(t)
<1> DEFINE h == th[t]
           g == th'[t]
           x == Sleeps(th[t])
           e == End(th[t])
           i == Local("issleep", x)
           s == Tail(h.todo)
<1>1. h \in Calls /\ e \in Seq(Ops) /\ x \in BOOLEAN /\ h.call # "none"
  BY Lists, Ends DEF Sleeps, Waiting
<1>2. Head(h.todo) = i
  BY <1>1, WaitingIsMarked
<1>3. i.do = "issleep" /\ i.val = x
  BY DEF Local
<1>4. Think(t)
  <2>1. Transfer(t) => i.do \in {"write", "locked", "tmcc_s", "get_id", "tmcc_t"}
    BY <1>2, Transfers DEF Acts
  <2> QED
    BY <1>3, <2>1 DEF Acts
<1>5. /\ issleep' = x /\ mixed' = (Sleepers # {t}) /\ agreed' = FALSE
      /\ Goes(t, s) /\ UNCHANGED <<type, valid, sfreq, crossed>>
  BY <1>2, <1>3, <1>4, Thoughts DEF Acts
<1>6. g.todo = s /\ Sleeps(g) = x /\ End(g) = e /\ g.call # "none"
  BY <1>1, <1>5, SameEnds
<1>7. Sleep'.issleep = x
  BY <1>5 DEF Sleep
<1>8. \/ /\ type = "S"
         /\ h.todo = <<i, Local("standby", x), Begin(x), mode>> \o e
      \/ type = "T" /\ x /\ h.todo = <<i, manual, Write("r01", x, 0)>> \o e
      \/ /\ type = "T" /\ ~ x
         /\ h.todo = <<i, Demod(x), Write("r01", x, 0), Local("wakeup", None)>> \o e
  BY Zenon DEF Waiting
<1>9. Within(type, g, ~ mixed', Sleep')
  <2>1. CASE /\ type = "S"
             /\ h.todo = <<i, Local("standby", x), Begin(x), mode>> \o e
    <3>1. s = <<Local("standby", x), Begin(x), mode>> \o e
      BY <2>1, SleepLists, ZenonT(60)
    <3>2. WithinS(g, ~ mixed', Sleep')
      BY <1>6, <1>7, <3>1, Zenon DEF WithinS
    <3> QED
      BY <1>6, <2>1, <3>2, Zenon DEF Within
  <2>2. CASE type = "T" /\ x /\ h.todo = <<i, manual, Write("r01", x, 0)>> \o e
    <3>1. s = <<manual, Write("r01", x, 0)>> \o e
      BY <2>2, SleepLists, ZenonT(60)
    <3>2. WithinT(g, ~ mixed', Sleep')
      BY <1>6, <1>7, <2>2, <3>1, Zenon DEF WithinT
    <3> QED
      BY <1>6, <2>2, <3>2, Zenon DEF Within
  <2>3. CASE /\ type = "T" /\ ~ x
             /\ h.todo = <<i, Demod(x), Write("r01", x, 0), Local("wakeup", None)>> \o e
    <3>1. s = <<Demod(x), Write("r01", x, 0), Local("wakeup", None)>> \o e
      <4> DEFINE d == Demod(x)
                 b == Write("r01", x, 0)
                 w == Local("wakeup", None)
      <4>1. h.todo = <<i, d, b, w>> \o e
        BY <2>3
      <4>2. e \in Seq(Ops)
        BY <1>1
      <4> HIDE DEF i, d, b, w, e, Ops
      <4>3. Tail(<<i, d, b, w>> \o e) = <<d, b, w>> \o e
        BY <4>2, Lead4
      <4>4. s = <<d, b, w>> \o e
        BY <4>1, <4>3
      <4> QED
        BY <4>4 DEF d, b, w
    <3>2. WithinT(g, ~ mixed', Sleep')
      BY <1>6, <1>7, <2>3, <3>1, Zenon DEF WithinT
    <3> QED
      BY <1>6, <2>3, <3>2, Zenon DEF Within
  <2> QED
    BY <1>8, <2>1, <2>2, <2>3
<1> QED
  BY <1>5, <1>9, Zenon DEF SleepBegins

(* A call that did not come to set_tuner_sleep yet. *)
Decides(t) ==
    /\ \E l : Goes(t, l)
    /\ UNCHANGED <<type, valid, crossed, sfreq, hw, reg, issleep, mixed, agreed>> /\ Sleep' = Sleep
    /\ IF issleep THEN Waiting(type, th'[t]) ELSE th'[t].todo = Rest(th[t])

LEMMA FreshStep ==
    ASSUME TypeInv, NEW t \in Threads, Acts(t), Fresh(th[t])
    PROVE  Decides(t)
<1> DEFINE h == th[t]
           g == th'[t]
           w == Local("wake?", None)
           r == Rest(h)
<1>1. h \in Calls /\ r \in Seq(Ops) /\ End(h) \in Seq(Ops)
  BY Lists, Ends
<1>2. Head(h.todo) = w /\ Tail(h.todo) = r
  BY <1>1, FreshIsNotMarked
<1>3. w.do = "wake?"
  BY DEF Local
<1>4. Think(t)
  <2>1. Transfer(t) => w.do \in {"write", "locked", "tmcc_s", "get_id", "tmcc_t"}
    BY <1>2, Transfers DEF Acts
  <2> QED
    BY <1>3, <2>1 DEF Acts
<1>5. /\ UNCHANGED <<type, valid, sfreq, hw, crossed, issleep, mixed, agreed, standby, reg, mxfreq>>
      /\ Goes(t, (IF issleep THEN set_tuner_sleep(FALSE) ELSE <<>>) \o r)
  <2>1. /\ UNCHANGED <<type, valid, sfreq, hw, crossed>>
        /\ UNCHANGED <<issleep, mixed, agreed>> /\ UNCHANGED <<standby, reg, mxfreq>>
    BY <1>2, <1>3, <1>4, Thoughts DEF Acts
  <2>2. Goes(t, (IF issleep THEN set_tuner_sleep(FALSE) ELSE <<>>) \o r)
    BY <1>2, <1>3, <1>4, Branches DEF Acts
  <2> QED
    BY <2>1, <2>2
<1>6. Sleep' = Sleep
  BY <1>5 DEF Sleep
<1>7. CASE ~ issleep
  <2>1. g.todo = <<>> \o r
    BY <1>5, <1>7 DEF Goes
  <2>2. <<>> \o r = r
    BY <1>1, ConcatEmptySeq
  <2> QED
    BY <1>5, <1>6, <1>7, <2>1, <2>2, Zenon DEF Decides
<1>8. CASE issleep
  <2>1. Goes(t, set_tuner_sleep(FALSE) \o r)
    BY <1>5, <1>8
  <2>2. g.todo = set_tuner_sleep(FALSE) \o r /\ End(g) = End(h) /\ ~ Sleeps(g) /\ g.call # "none"
    <3>1. ~ Sleeps(h) /\ h.call # "none"
      BY DEF Fresh, Sleeps
    <3> QED
      BY <2>1, <3>1, SameEnds
  <2>3. End(h) = <<slept>> \o r
    BY DEF End, Fresh, Sleeps
  <2> DEFINE i == Local("issleep", FALSE)
             s == Local("standby", FALSE)
             d == Demod(FALSE)
             u == Local("wakeup", None)
             v == Write("r01", FALSE, 0)
  <2>4. /\ i \in Ops /\ s \in Ops /\ d \in Ops /\ u \in Ops /\ v \in Ops
        /\ mode \in Ops /\ slept \in Ops
    BY SleepingOps
  <2>5. /\ type = "S" => set_tuner_sleep(FALSE) = <<i, s, d, mode, slept>>
        /\ type # "S" => set_tuner_sleep(FALSE) = <<i, d, v, u, slept>>
    BY SleepIsSteps, Zenon
  <2>7. /\ type = "S" => g.todo = <<i, s, d, mode>> \o End(g)
        /\ type # "S" => g.todo = <<i, d, v, u>> \o End(g)
    <3> HIDE DEF i, s, d, u, v, Ops, r
    <3>0. r \in Seq(Ops)
      BY <1>1
    <3>1. <<i, s, d, mode, slept>> \o r = <<i, s, d, mode>> \o (<<slept>> \o r)
      BY <3>0, <2>4, Part41, SMTT(60)
    <3>2. <<i, d, v, u, slept>> \o r = <<i, d, v, u>> \o (<<slept>> \o r)
      BY <3>0, <2>4, Part41, SMTT(60)
    <3> QED
      BY <2>2, <2>3, <2>5, <3>1, <3>2, Zenon
  <2>8. Sleeps(g) = FALSE /\ Begin(FALSE) = Demod(FALSE)
    BY <2>2 DEF Sleeps, Begin
  <2>9. Waiting(type, g)
    <3>1. CASE type = "S"
      BY <2>2, <2>7, <2>8, <3>1, Zenon DEF Waiting
    <3>2. CASE type = "T"
      <4>1. type # "S"
        BY <3>2
      <4> QED
        BY <2>2, <2>7, <2>8, <3>2, <4>1, Zenon DEF Waiting
    <3> QED
      BY <3>1, <3>2 DEF TypeInv
  <2> QED
    BY <1>5, <1>6, <1>8, <2>9, Zenon DEF Decides
<1> QED
  BY <1>7, <1>8

(* Steps elsewhere neither sleep nor wake. *)
StaysOutside(t) ==
    /\ \E l : Goes(t, l)
    /\ UNCHANGED <<type, valid, crossed, sfreq, issleep, mixed, agreed>> /\ Sleep' = Sleep
    /\ Outside(th'[t])

LEMMA OutsideStep ==
    ASSUME TypeInv, NEW t \in Threads, Acts(t), Outside(th[t])
    PROVE  StaysOutside(t)
<1> DEFINE h == th[t]
           g == th'[t]
           op == Head(th[t].todo)
           s == Tail(th[t].todo)
<1>1. h \in Calls /\ op \in Ops /\ s \in Seq(Ops) /\ h.todo # <<>> /\ t \notin Sleepers
  BY Lists, OutsideIsNotMarked, SleepersAreMarked DEF Acts
<1>2. h.call = "tune" /\ (h.todo = Rest(h) \/ h.todo \in Seq(FreqOps))
  BY <1>1 DEF Outside
<1>3. CASE h.todo = Rest(h)
  <2> DEFINE q == Local("frequency", None)
  <2>1. h.todo = <<q>>
    BY <1>2, <1>3 DEF Rest
  <2>2. op = q /\ s = <<>>
    <3> HIDE DEF q
    <3> QED
      BY <2>1
  <2>3. q.do = "frequency"
    BY DEF Local
  <2>4. Think(t)
    <3>1. Transfer(t) => q.do \in {"write", "locked", "tmcc_s", "get_id", "tmcc_t"}
      BY <2>2, Transfers DEF Acts
    <3> QED
      BY <2>3, <3>1 DEF Acts
  <2>5. /\ UNCHANGED <<type, valid, sfreq, hw, crossed>>
        /\ UNCHANGED <<issleep, mixed, agreed>> /\ UNCHANGED <<standby, reg, mxfreq>>
    BY <2>2, <2>3, <2>4, Thoughts DEF Acts
  <2>6. Goes(t, SetChannel(sfreq) \o <<>>)
    BY <2>2, <2>3, <2>4, Branches DEF Acts
  <2>7. SetChannel(sfreq) \o <<>> = SetChannel(sfreq) /\ SetChannel(sfreq) \in Seq(FreqOps)
    <3>1. SetChannel(sfreq) \in Seq(FreqOps)
      BY SetChannelIsSteps DEF TypeInv
    <3> QED
      BY <3>1, ConcatEmptySeq
  <2>8. Outside(g)
    BY <1>2, <2>6, <2>7 DEF Goes, Outside
  <2>9. Sleep' = Sleep
    BY <2>5 DEF Sleep
  <2> QED
    BY <2>5, <2>6, <2>8, <2>9, Zenon DEF StaysOutside
<1>4. CASE h.todo \in Seq(FreqOps)
  <2>1. op \in FreqOps /\ s \in Seq(FreqOps) /\ <<>> \in Seq(FreqOps)
        /\ \A n \in Nat : SubSeq(h.todo, 2 + n, Len(h.todo)) \in Seq(FreqOps)
    <3> HIDE DEF FreqOps
    <3> QED
      BY <1>1, <1>4
  <2>2. /\ op.do \in {"write", "sd", "mxfreq", "copy", "locked", "tmcc_s", "tmcc_t", "get_id"}
        /\ op.do = "write" => op.reg \in {"agc", "N", "sd1", "sd2", "rf1", "rf2", "id"}
                              /\ op.drop \in Nat
        /\ op.do = "copy" => op.reg = "sd2" /\ op.drop = All
    BY <2>1 DEF FreqOps, AgcOps, ChanOps, MemOps, CopyOps, PollOps, IdOps, All
  <2>3. ASSUME NEW l \in Seq(FreqOps), Goes(t, l)
        PROVE  Outside(g)
    BY <1>2, <2>3 DEF Goes, Outside
  <2> DEFINE Some == \E l \in Seq(FreqOps) : Goes(t, l)
  <2>4. CASE Think(t)
    <3>1. /\ op.do \in {"sd", "mxfreq", "copy"}
          /\ UNCHANGED <<type, valid, sfreq, hw, crossed>> /\ UNCHANGED <<issleep, mixed, agreed>>
          /\ UNCHANGED standby
          /\ op.do = "sd" => reg' = [reg EXCEPT !.sd2 = op.val]
          /\ op.do \in {"mxfreq", "copy"} => reg' = reg
          /\ op.do \in {"sd", "mxfreq"} => Goes(t, s)
      <4>1. /\ op.do \in {"issleep", "slept", "standby", "sd", "mxfreq", "wake?", "frequency",
                          "mode", "wakeup", "copy"}
            /\ UNCHANGED <<type, valid, sfreq, hw, crossed>>
            /\ op.do \notin {"issleep", "slept"} => UNCHANGED <<issleep, mixed, agreed>>
        BY <1>1, <2>4, Thoughts, Zenon
      <4>2. /\ op.do = "sd" => /\ reg' = [reg EXCEPT !.sd2 = op.val]
                               /\ Goes(t, s) /\ UNCHANGED <<standby, mxfreq>>
            /\ op.do = "mxfreq" => mxfreq' = op.val /\ Goes(t, s) /\ UNCHANGED <<standby, reg>>
            /\ op.do \in {"wake?", "frequency", "wakeup", "copy"} => UNCHANGED <<standby, reg, mxfreq>>
        BY <1>1, <2>4, Thoughts, Zenon
      <4> HIDE DEF op, s
      <4> QED
        BY <2>2, <4>1, <4>2
    <3>2. Sleep' = Sleep
      <4>1. reg'.r01 = reg.r01 /\ reg'.r05 = reg.r05
        BY <3>1 DEF TypeInv, Copies
      <4> QED
        BY <3>1, <4>1 DEF Sleep
    <3>3. op.do = "copy" => Some
      <4>1. SUFFICES ASSUME op.do = "copy" PROVE Some
        OBVIOUS
      <4> DEFINE a == Write(op.reg, reg[op.reg], op.drop)
      <4>2. Goes(t, <<a>> \o s)
        BY <1>1, <2>4, <4>1, Branches, Zenon
      <4>3. a \in FreqOps
        <5>1. op.reg = "sd2" /\ op.drop = All /\ reg["sd2"] \in Nat
          BY <2>2, <4>1 DEF TypeInv, Copies
        <5> QED
          BY <5>1, StepsAreOps
      <4> HIDE DEF a, FreqOps
      <4>4. <<a>> \o s \in Seq(FreqOps)
        BY <2>1, <4>3, OneMore
      <4> QED
        BY <4>2, <4>4
    <3>4. Some
      BY <2>1, <3>1, <3>3
    <3> QED
      BY <2>3, <3>1, <3>2, <3>4, Zenon DEF StaysOutside
  <2>5. CASE Transfer(t)
    <3>1. UNCHANGED <<type, valid, driver, agreed, crossed>>
      BY <1>1, <2>5, Transfers, Zenon
    <3>2. CASE op.do = "write"
      <4>1. \/ hw' = [hw EXCEPT ![op.reg] = op.val] /\ mixed' = mixed /\ Goes(t, s)
            \/ /\ hw' = hw /\ mixed' = (mixed \/ t \in Sleepers)
               /\ Goes(t, SubSeq(th[t].todo, 2 + op.drop, Len(th[t].todo)))
        BY <1>1, <2>5, <3>2, Transfers, Zenon
      <4>2. Some
        BY <2>1, <2>2, <3>2, <4>1
      <4>3. mixed' = mixed
        BY <1>1, <4>1 DEF TypeInv
      <4>4. hw'.demod = hw.demod /\ hw'.r01 = hw.r01 /\ hw'.r05 = hw.r05
        BY <2>2, <3>2, <4>1 DEF TypeInv, Chips
      <4>5. Sleep' = Sleep
        BY <3>1, <4>4 DEF Sleep, driver
      <4> QED
        BY <2>3, <3>1, <4>2, <4>3, <4>5, Zenon DEF StaysOutside, driver
    <3>3. CASE op.do # "write"
      <4>1. /\ hw' = hw /\ mixed' = mixed
            /\ \/ \E l \in {s, <<>>, th[t].todo} : Goes(t, l)
               \/ \E c \in 0 .. Channels :
                     Goes(t, <<Write("id", c, All),
                               [Poll("get_id", All) EXCEPT !.val = c]>> \o s)
        BY <1>1, <2>5, <3>3, Transfers, Zenon
      <4>2. Sleep' = Sleep
        BY <3>1, <4>1 DEF Sleep, driver
      <4>3. ASSUME NEW c \in 0 .. Channels
            PROVE  <<Write("id", c, All), [Poll("get_id", All) EXCEPT !.val = c]>> \o s
                        \in Seq(FreqOps)
        <5> DEFINE a == Write("id", c, All)
                   b == [Poll("get_id", All) EXCEPT !.val = c]
        <5>1. a \in FreqOps /\ b \in FreqOps
          BY Pt3ChannelAssumption, StepsAreOps
        <5> HIDE DEF a, b, FreqOps
        <5>2. <<a, b>> \in Seq(FreqOps)
          BY <5>1
        <5>3. <<a, b>> \o s \in Seq(FreqOps)
          BY <2>1, <5>2, ConcatProperties
        <5> QED
          BY <5>3 DEF a, b
      <4>4. Some
        BY <1>4, <2>1, <4>1, <4>3, Zenon
      <4> QED
        BY <2>3, <3>1, <4>1, <4>2, <4>4, Zenon DEF StaysOutside, driver
    <3> QED
      BY <3>2, <3>3
  <2> QED
    BY <2>4, <2>5 DEF Acts
<1> QED
  BY <1>2, <1>3, <1>4

-----------------------------------------------------------------------------
(* The saved state of sleep is that of the chips.                            *)

Somewhere(k, h, ok, f) == Fresh(h) \/ Waiting(k, h) \/ Within(k, h, ok, f) \/ Outside(h)

Settled(k, f) ==
    IF f.issleep THEN f.demod /\ f.r01 /\ (k = "S" => f.r05)
    ELSE ~ f.demod /\ ~ f.r01 /\ (k = "S" => ~ f.r05)

(* The invariant, of the values it is about. *)
SleepRight(k, threads, h, ok, good, f) ==
    /\ \A t \in threads : Somewhere(k, h[t], ok, f)
    /\ ok => \A t, u \in threads : Begun(k, h[t]) /\ Begun(k, h[u]) => t = u
    /\ good => (\A t \in threads : ~ Begun(k, h[t])) /\ Settled(k, f)

(* The invariant says that the saved state is true.                          *)
LEMMA SleepInvIsSleepRight ==
    /\ SleepInv <=> SleepRight(type, Threads, th, ~ mixed, agreed, Sleep)
    /\ SleepInv' <=> SleepRight(type', Threads, th', ~ mixed', agreed', Sleep')
<1>1. /\ Settled(type, Sleep) <=> (IF issleep THEN Asleep ELSE Awake)
      /\ Settled(type', Sleep') <=> (IF issleep THEN Asleep ELSE Awake)'
  BY DEF Settled, Sleep, Asleep, Awake
<1>2. SleepInv <=> SleepRight(type, Threads, th, ~ mixed, agreed, Sleep)
  BY <1>1, Zenon DEF SleepInv, SleepRight, Somewhere
<1>3. SleepInv' <=> SleepRight(type', Threads, th', ~ mixed', agreed', Sleep')
  BY <1>1, Zenon DEF SleepInv, SleepRight, Somewhere
<1> QED
  BY <1>2, <1>3

(* A step of thread t, or of none, that has nothing to do with sleep. *)
LEMMA QuietStep ==
    ASSUME TypeInv, SleepInv, TypeInv', type' = type, Sleep' = Sleep,
           ~ mixed' <=> ~ mixed, agreed' <=> agreed,
           \A u \in Threads : \/ th'[u] = th[u]
                              \/ Fresh(th'[u]) \/ Waiting(type, th'[u]) \/ Outside(th'[u])
    PROVE  SleepInv'
<1>1. SleepRight(type, Threads, th, ~ mixed, agreed, Sleep)
  BY SleepInvIsSleepRight
<1>2. ASSUME NEW u \in Threads
      PROVE  /\ Somewhere(type, th'[u], ~ mixed', Sleep')
             /\ Begun(type, th'[u]) => Begun(type, th[u])
  <2>1. CASE th'[u] = th[u]
    <3>1. Somewhere(type, th[u], ~ mixed, Sleep)
      BY <1>1 DEF SleepRight
    <3>2. (~ mixed') = (~ mixed)
      OBVIOUS
    <3>3. Somewhere(type, th'[u], ~ mixed', Sleep')
      BY <2>1, <3>1, <3>2
    <3> QED
      BY <2>1, <3>3
  <2>2. CASE Fresh(th'[u]) \/ Waiting(type, th'[u]) \/ Outside(th'[u])
    <3>1. th'[u] \in Calls
      BY DEF TypeInv
    <3>2. ~ Begun(type, th'[u])
      BY <2>2, <3>1, Places
    <3> QED
      BY <2>2, <3>2, Zenon DEF Somewhere
  <2> QED
    BY <2>1, <2>2
<1>3. SleepRight(type, Threads, th', ~ mixed', agreed', Sleep')
  BY <1>1, <1>2, Zenon DEF SleepRight
<1> QED
  BY <1>3, SleepInvIsSleepRight

(* Another thread stays where it is in its command.                          *)
LEMMA OthersStaySomewhere ==
    ASSUME TypeInv, SleepInv, NEW t \in Threads, NEW l, Goes(t, l), type' = type,
           mixed => mixed', mixed' \in BOOLEAN,
           ~ mixed' => \A u \in Threads \ {t} : ~ Begun(type, th[u])
    PROVE  \A u \in Threads \ {t} : th'[u] = th[u] /\ Somewhere(type, th'[u], ~ mixed', Sleep')
<1> SUFFICES ASSUME NEW u \in Threads \ {t}
             PROVE  th'[u] = th[u] /\ Somewhere(type, th[u], ~ mixed', Sleep')
  BY DEF Goes
<1>1. th'[u] = th[u]
  BY DEF Goes
<1>2. Somewhere(type, th[u], ~ mixed, Sleep)
  BY SleepInvIsSleepRight DEF SleepRight
<1>3. CASE Within(type, th[u], ~ mixed, Sleep)
  <2>1. Begun(type, th[u]) /\ \A good, g : ~ good => Within(type, th[u], good, g)
    BY <1>3, WithinIsBegun
  <2>2. ~ (~ mixed')
    BY <2>1
  <2>3. Within(type, th[u], ~ mixed', Sleep')
    BY <2>1, <2>2, Zenon
  <2> QED
    BY <1>1, <2>3, Zenon DEF Somewhere
<1>4. CASE ~ Within(type, th[u], ~ mixed, Sleep)
  BY <1>1, <1>2, <1>4, Zenon DEF Somewhere
<1> QED
  BY <1>3, <1>4

(* A step of a thread keeps what is claimed of sleep for that thread.        *)
LEMMA OwnStepKeepsSleep ==
    ASSUME TypeInv, SleepInv, TypeInv', NEW t \in Threads, Acts(t)
    PROVE  SleepInv'
<1>1. SleepRight(type, Threads, th, ~ mixed, agreed, Sleep)
  BY SleepInvIsSleepRight
<1>2. /\ mixed \in BOOLEAN /\ mixed' \in BOOLEAN /\ agreed' \in BOOLEAN
      /\ th[t] \in Calls /\ th'[t] \in Calls
  BY DEF TypeInv
<1>3. ASSUME Fresh(th[t])
      PROVE  SleepInv'
  <2>1. Decides(t)
    BY <1>3, FreshStep
  <2>2. \A u \in Threads \ {t} : th'[u] = th[u]
    BY <2>1 DEF Decides, Goes
  <2>3. Waiting(type, th'[t]) \/ Outside(th'[t])
    <3>1. th'[t].call = th[t].call
      BY <2>1 DEF Decides, Goes
    <3>2. th'[t].todo = Rest(th[t]) => Outside(th'[t])
      BY <3>1 DEF Rest, Outside
    <3> QED
      BY <2>1, <3>2, Zenon DEF Decides
  <2> QED
    BY <2>1, <2>2, <2>3, QuietStep DEF Decides
<1>4. ASSUME Outside(th[t])
      PROVE  SleepInv'
  <2>1. StaysOutside(t)
    BY <1>4, OutsideStep
  <2>2. \A u \in Threads \ {t} : th'[u] = th[u]
    BY <2>1 DEF StaysOutside, Goes
  <2> QED
    BY <2>1, <2>2, QuietStep DEF StaysOutside
<1>5. ASSUME Waiting(type, th[t])
      PROVE  SleepInv'
  <2>1. SleepBegins(t)
    BY <1>5, SleepFirstStep
  <2>2. t \in Sleepers
    BY <1>2, <1>5, Places, SleepersAreMarked
  <2>3. ~ mixed' => \A u \in Threads \ {t} : ~ Begun(type, th[u])
    <3>1. ~ mixed' => Sleepers = {t}
      BY <2>1 DEF SleepBegins
    <3>2. \A u \in Threads : Begun(type, th[u]) => u \in Sleepers
      BY Lists, Places, SleepersAreMarked
    <3> QED
      BY <3>1, <3>2
  <2>4. PICK l : Goes(t, l)
    BY <2>1 DEF SleepBegins
  <2>5. \A u \in Threads \ {t} : /\ th'[u] = th[u]
                                 /\ mixed' => Somewhere(type, th'[u], ~ mixed', Sleep')
                                 /\ ~ mixed' => Somewhere(type, th'[u], ~ mixed', Sleep')
    <3> SUFFICES ASSUME NEW u \in Threads \ {t}
                 PROVE  th'[u] = th[u] /\ Somewhere(type, th[u], ~ mixed', Sleep')
      BY <2>4 DEF Goes
    <3>1. th'[u] = th[u] /\ Somewhere(type, th[u], ~ mixed, Sleep)
      BY <1>1, <2>4 DEF Goes, SleepRight
    <3>2. CASE Within(type, th[u], ~ mixed, Sleep)
      <4>1. Begun(type, th[u]) /\ \A good, g : ~ good => Within(type, th[u], good, g)
        BY <3>2, WithinIsBegun
      <4>2. ~ (~ mixed')
        BY <2>3, <4>1
      <4>3. Within(type, th[u], ~ mixed', Sleep')
        BY <4>1, <4>2, Zenon
      <4> QED
        BY <3>1, <4>3, Zenon DEF Somewhere
    <3>3. CASE ~ Within(type, th[u], ~ mixed, Sleep)
      BY <3>1, <3>3, Zenon DEF Somewhere
    <3> QED
      BY <3>2, <3>3
  <2>6. Somewhere(type, th'[t], ~ mixed', Sleep') /\ ~ agreed'
    BY <2>1, Zenon DEF SleepBegins, Somewhere
  <2>7. SleepRight(type, Threads, th', ~ mixed', agreed', Sleep')
    <3>1. \A u \in Threads : Somewhere(type, th'[u], ~ mixed', Sleep')
      BY <2>5, <2>6
    <3>2. ~ mixed' => \A u, v \in Threads : Begun(type, th'[u]) /\ Begun(type, th'[v]) => u = v
      BY <2>3, <2>5
    <3> QED
      BY <2>6, <3>1, <3>2, Zenon DEF SleepRight
  <2>8. type' = type
    BY <2>1 DEF SleepBegins
  <2> QED
    BY <2>7, <2>8, SleepInvIsSleepRight
<1>6. ASSUME Within(type, th[t], ~ mixed, Sleep)
      PROVE  SleepInv'
  <2>1. Begun(type, th[t]) /\ Marked(th[t].todo) /\ th[t].call # "none"
    BY <1>2, <1>6, WithinIsBegun, WithinIsMarked DEF Within
  <2>2. SleepGoesOn(t) \/ SleepStops(t)
    <3>1. CASE type = "S" /\ WithinS(th[t], ~ mixed, Sleep)
      BY <2>1, <3>1, SatelliteSleepStep
    <3>2. CASE type = "T" /\ WithinT(th[t], ~ mixed, Sleep)
      BY <2>1, <3>2, TerrestrialSleepStep
    <3>3. CASE Ended(type, th[t], ~ mixed, Sleep)
      BY <2>1, <3>3, SleepEndStep
    <3> QED
      BY <1>6, <3>1, <3>2, <3>3, Zenon DEF Within
  <2>3. ~ mixed => \A u \in Threads \ {t} : ~ Begun(type, th[u])
    BY <1>1, <2>1 DEF SleepRight
  <2>4. ~ agreed
    BY <1>1, <2>1 DEF SleepRight
  <2>5. CASE SleepGoesOn(t)
    <3>1. /\ type' = type /\ agreed' = agreed /\ (mixed => mixed')
      BY <2>5 DEF SleepGoesOn, Goes_on
    <3>2. PICK l : Goes(t, l)
      BY <2>5 DEF SleepGoesOn
    <3>3. \A u \in Threads \ {t} : th'[u] = th[u] /\ Somewhere(type, th'[u], ~ mixed', Sleep')
      BY <1>2, <2>3, <3>1, <3>2, OthersStaySomewhere
    <3>4. Somewhere(type, th'[t], ~ mixed', Sleep')
      <4>1. CASE Within(type, th'[t], ~ mixed', Sleep')
        BY <4>1, Zenon DEF Somewhere
      <4>2. CASE th'[t].todo = <<>>
        BY <4>2, Zenon DEF Somewhere, Outside
      <4> QED
        BY <2>5, <4>1, <4>2 DEF SleepGoesOn
    <3>5. SleepRight(type, Threads, th', ~ mixed', agreed', Sleep')
      <4>1. \A u \in Threads : Somewhere(type, th'[u], ~ mixed', Sleep')
        BY <3>3, <3>4
      <4>2. ~ mixed' => \A u, v \in Threads : Begun(type, th'[u]) /\ Begun(type, th'[v]) => u = v
        BY <2>3, <3>1, <3>3
      <4>3. ~ agreed'
        BY <2>4, <3>1
      <4> QED
        BY <4>1, <4>2, <4>3, Zenon DEF SleepRight
    <3> QED
      BY <3>1, <3>5, SleepInvIsSleepRight
  <2>6. CASE SleepStops(t)
    <3>1. /\ type' = type /\ mixed' = mixed /\ Sleep' = Sleep /\ Goes(t, Rest(th[t]))
          /\ agreed' = (Sleepers = {t} /\ ~ mixed)
      BY <2>6, Zenon DEF SleepStops
    <3>2. \A u \in Threads \ {t} : th'[u] = th[u] /\ Somewhere(type, th'[u], ~ mixed', Sleep')
      BY <1>2, <2>3, <3>1, OthersStaySomewhere
    <3>3. Outside(th'[t])
      <4>1. th'[t].todo = Rest(th[t]) /\ th'[t].call = th[t].call /\ Rest(th'[t]) = Rest(th[t])
        BY <3>1, SameEnds
      <4> QED
        BY <4>1 DEF Outside, Rest
    <3>4. ~ Begun(type, th'[t])
      BY <1>2, <3>3, Places
    <3>5. agreed' => (\A u \in Threads : ~ Begun(type, th'[u])) /\ Settled(type, Sleep')
      <4>1. SUFFICES ASSUME agreed'
                     PROVE  (\A u \in Threads : ~ Begun(type, th'[u])) /\ Settled(type, Sleep')
        OBVIOUS
      <4>2. Sleepers = {t} /\ ~ mixed
        BY <3>1, <4>1
      <4>3. IF issleep THEN Asleep ELSE Awake
        BY <2>6, <4>2 DEF SleepStops
      <4>4. Settled(type, Sleep')
        BY <3>1, <4>3 DEF Settled, Sleep, Asleep, Awake
      <4>5. \A u \in Threads \ {t} : ~ Begun(type, th[u])
        BY <2>3, <4>2
      <4> QED
        BY <3>2, <3>4, <4>4, <4>5
    <3>6. SleepRight(type, Threads, th', ~ mixed', agreed', Sleep')
      <4>1. \A u \in Threads : Somewhere(type, th'[u], ~ mixed', Sleep')
        BY <3>2, <3>3, Zenon DEF Somewhere
      <4>2. ~ mixed' => \A u, v \in Threads : Begun(type, th'[u]) /\ Begun(type, th'[v]) => u = v
        BY <2>3, <3>1, <3>2, <3>4
      <4> QED
        BY <3>5, <4>1, <4>2, Zenon DEF SleepRight
    <3> QED
      BY <3>1, <3>6, SleepInvIsSleepRight
  <2> QED
    BY <2>2, <2>5, <2>6
<1>7. Fresh(th[t]) \/ Waiting(type, th[t]) \/ Within(type, th[t], ~ mixed, Sleep) \/ Outside(th[t])
  BY Zenon DEF SleepInv
<1> QED
  BY <1>3, <1>4, <1>5, <1>6, <1>7, Zenon

(* Open and tune begin fresh, a close with set_tuner_sleep. *)
LEMMA OpenIsFresh ==
    ASSUME TypeInv, NEW t \in Threads, Begins(t, "open", <<Local("wake?", None)>>, None)
    PROVE  Fresh(th'[t])
<1> DEFINE w == Local("wake?", None)
<1>1. th'[t].call = "open" /\ th'[t].todo = <<w>>
  BY DEF Begins
<1>2. Rest(th'[t]) = <<>>
  BY <1>1 DEF Rest
<1>3. w \in Ops
  BY StepsAreOps DEF Ops
<1>4. <<w>> \o <<>> = <<w>>
  <2> HIDE DEF w, Ops
  <2>1. <<w>> \in Seq(Ops)
    BY <1>3
  <2> QED
    BY <2>1, ConcatEmptySeq, Zenon
<1> QED
  BY <1>1, <1>2, <1>4, Zenon DEF Fresh

LEMMA TuneIsFresh ==
    ASSUME NEW t \in Threads, NEW c,
           Begins(t, "tune", <<Local("wake?", None), Local("frequency", None)>>, c)
    PROVE  Fresh(th'[t])
<1> DEFINE w == Local("wake?", None)
           q == Local("frequency", None)
<1>1. th'[t].call = "tune" /\ th'[t].todo = <<w, q>>
  BY DEF Begins
<1>2. Rest(th'[t]) = <<q>>
  BY <1>1 DEF Rest
<1>3. <<w>> \o <<q>> = <<w, q>>
  BY Join11, Zenon
<1> QED
  BY <1>1, <1>2, <1>3 DEF Fresh

LEMMA CloseIsWaiting ==
    ASSUME TypeInv, NEW t \in Threads, Begins(t, "close", set_tuner_sleep(TRUE), None)
    PROVE  Waiting(type, th'[t])
<1> DEFINE g == th'[t]
           i == Local("issleep", TRUE)
           s == Local("standby", TRUE)
           d == Demod(TRUE)
           r == Write("r01", TRUE, 0)
<1>1. g.call = "close" /\ g.todo = set_tuner_sleep(TRUE)
  BY DEF Begins
<1>2. Sleeps(g) = TRUE /\ Begin(TRUE) = manual /\ Rest(g) = <<>>
  BY <1>1 DEF Sleeps, Begin, Rest
<1>3. d \in Ops /\ slept \in Ops
  BY SleepingOps
<1>4. End(g) = <<d, slept>>
  <2>1. End(g) = <<d, slept>> \o <<>>
    BY <1>2, Zenon DEF End
  <2> HIDE DEF d, Ops
  <2>2. <<d, slept>> \in Seq(Ops)
    BY <1>3
  <2> QED
    BY <2>1, <2>2, ConcatEmptySeq, Zenon
<1>5. /\ type = "S" => set_tuner_sleep(TRUE) = <<i, s, manual, mode, d, slept>>
      /\ type # "S" => set_tuner_sleep(TRUE) = <<i, manual, r, d, slept>>
  BY SleepIsSteps, Zenon
<1>6. /\ <<i, s, manual, mode>> \o <<d, slept>> = <<i, s, manual, mode, d, slept>>
      /\ <<i, manual, r>> \o <<d, slept>> = <<i, manual, r, d, slept>>
  <2> HIDE DEF i, s, d, r
  <2>1. <<i, s, manual, mode>> \o <<d, slept>> = <<i, s, manual, mode, d, slept>>
    BY Join42
  <2>2. <<i, manual, r>> \o <<d, slept>> = <<i, manual, r, d, slept>>
    BY Join32
  <2> QED
    BY <2>1, <2>2
<1>7. CASE type = "S"
  BY <1>1, <1>2, <1>4, <1>5, <1>6, <1>7, Zenon DEF Waiting
<1>8. CASE type = "T"
  <2>1. type # "S"
    BY <1>8
  <2> QED
    BY <1>1, <1>2, <1>4, <1>5, <1>6, <1>8, <2>1, Zenon DEF Waiting
<1> QED
  BY <1>7, <1>8 DEF TypeInv

(* Every step keeps the invariant about sleep. *)
THEOREM SleepIsPreserved ==
    ASSUME TypeInv, SleepInv, [Next]_vars
    PROVE  SleepInv'
<1>0. TypeInv'
  BY TypeIsPreserved
<1>1. ASSUME NEW t \in Threads, Open(t) PROVE SleepInv'
  <2>1. /\ Begins(t, "open", <<Local("wake?", None)>>, None)
        /\ UNCHANGED <<type, shared, signal, mixed, agreed>>
    BY <1>1, OpenBegins
  <2>2. Fresh(th'[t]) /\ \A u \in Threads \ {t} : th'[u] = th[u]
    BY <2>1, OpenIsFresh DEF Begins
  <2>3. Sleep' = Sleep
    BY <2>1 DEF Sleep, shared, driver
  <2> QED
    BY <1>0, <2>1, <2>2, <2>3, QuietStep
<1>2. ASSUME NEW t \in Threads, Close(t) PROVE SleepInv'
  <2>1. /\ Begins(t, "close", set_tuner_sleep(TRUE), None)
        /\ UNCHANGED <<type, shared, signal, mixed, agreed>>
    BY <1>2, CloseBegins
  <2>2. Waiting(type, th'[t]) /\ \A u \in Threads \ {t} : th'[u] = th[u]
    BY <2>1, CloseIsWaiting DEF Begins
  <2>3. Sleep' = Sleep
    BY <2>1 DEF Sleep, shared, driver
  <2> QED
    BY <1>0, <2>1, <2>2, <2>3, QuietStep
<1>3. ASSUME NEW t \in Threads, Tune(t) PROVE SleepInv'
  <2>1. /\ Begins(t, "tune", <<Local("wake?", None), Local("frequency", None)>>, sfreq')
        /\ UNCHANGED <<type, issleep, standby, reg, hw, mixed, agreed>>
    BY <1>3, TuneBegins
  <2>2. Fresh(th'[t]) /\ \A u \in Threads \ {t} : th'[u] = th[u]
    BY <2>1, TuneIsFresh DEF Begins
  <2>3. Sleep' = Sleep
    BY <2>1 DEF Sleep
  <2> QED
    BY <1>0, <2>1, <2>2, <2>3, QuietStep
<1>4. ASSUME NEW t \in Threads, Return(t) PROVE SleepInv'
  <2>1. /\ Begins(t, "none", <<>>, None)
        /\ UNCHANGED <<type, shared, history>>
    BY <1>4, ReturnEnds
  <2>2. Outside(th'[t]) /\ \A u \in Threads \ {t} : th'[u] = th[u]
    BY <2>1 DEF Begins, Outside
  <2>3. Sleep' = Sleep
    BY <2>1 DEF Sleep, shared, driver
  <2> QED
    BY <1>0, <2>1, <2>2, <2>3, QuietStep DEF history
<1>5. ASSUME NEW t \in Threads, Think(t) \/ Transfer(t) PROVE SleepInv'
  <2>1. Acts(t)
    BY <1>5, Zenon DEF Acts, Think, Transfer
  <2> QED
    BY <1>0, <2>1, OwnStepKeepsSleep
<1>6. ASSUME UNCHANGED <<type, shared, th, history>> PROVE SleepInv'
  <2>1. Sleep' = Sleep
    BY <1>6 DEF Sleep, shared, driver
  <2> QED
    BY <1>0, <1>6, <2>1, QuietStep DEF history
<1>7. CASE Settle
  BY <1>6, <1>7, Zenon DEF Settle
<1>8. CASE UNCHANGED vars
  BY <1>6, <1>8 DEF vars
<1> QED
  BY <1>1, <1>2, <1>3, <1>4, <1>5, <1>7, <1>8, Zenon DEF Next, Step

(* The invariant about sleep holds at first.                                 *)
LEMMA SleepHoldsAtFirst ==
    ASSUME Init
    PROVE  SleepInv
<1>1. \A t \in Threads : th[t] = Idle
  BY DEF Init
<1>2. Idle.todo = <<>> /\ Idle \in Calls
  BY EmptySeq DEF Idle, Calls
<1>3. \A t \in Threads : Outside(th[t]) /\ ~ Begun(type, th[t])
  BY <1>1, <1>2, Places DEF Outside
<1>4. IF issleep THEN Asleep ELSE Awake
  BY DEF Init, Asleep
<1> QED
  BY <1>3, <1>4, Zenon DEF SleepInv

(* If the last command to sleep or to wake overlapped none and failed        *)
(* nowhere, the saved state is that of both chips.                           *)
THEOREM SleepStateIsAlwaysTrue == Spec => []SleepStateIsTrue
<1>1. Init => TypeInv /\ SleepInv
  BY TypeHoldsAtFirst, SleepHoldsAtFirst
<1>2. TypeInv /\ SleepInv /\ [Next]_vars => TypeInv' /\ SleepInv'
  BY TypeIsPreserved, SleepIsPreserved
<1>3. SleepInv => SleepStateIsTrue
  BY Zenon DEF SleepInv, SleepStateIsTrue
<1> QED
  BY <1>1, <1>2, <1>3, PTL DEF Spec

-----------------------------------------------------------------------------
(* An open channel is awake.                                                 *)

(* The thread that opened it has yet to look whether the tuner sleeps.       *)
Opens(k, h) == h.call = "open" /\ (Fresh(h) \/ Waiting(k, h))

(* The state of sleep stays, and every call that goes on is the same. *)
LEMMA OpenStaysAwake ==
    ASSUME TypeInv, OpenInv, UNCHANGED <<type, valid, crossed>>,
           valid # None /\ ~ crossed =>
                /\ issleep' => issleep
                /\ \A u \in Threads : th[u].call # "close" => th'[u].call # "close"
                /\ \A u \in Threads : Opens(type, th[u]) /\ issleep' => Opens(type, th'[u])
    PROVE  OpenInv'
<1>1. SUFFICES ASSUME valid # None, ~ crossed
               PROVE  /\ \A t \in Threads : th'[t].call # "close"
                      /\ ~ issleep' \/ Opens(type', th'[valid'])
  BY Zenon DEF OpenInv, Opens
<1>2. valid \in Threads
  BY <1>1 DEF TypeInv
<1>3. /\ \A t \in Threads : th[t].call # "close"
      /\ ~ issleep \/ Opens(type, th[valid])
  BY <1>1, Zenon DEF OpenInv, Opens
<1>4. ~ issleep' \/ Opens(type, th'[valid])
  BY <1>1, <1>2, <1>3
<1> QED
  BY <1>1, <1>3, <1>4

(* A step of a thread keeps what is claimed of open channels.                *)
LEMMA OwnStepKeepsOpen ==
    ASSUME TypeInv, SleepInv, OpenInv, NEW t \in Threads, Acts(t)
    PROVE  OpenInv'
<1>1. th[t] \in Calls
  BY DEF TypeInv
<1>2. ASSUME NEW l, Goes(t, l)
      PROVE  /\ th'[t].call = th[t].call
             /\ \A u \in Threads \ {t} : th'[u] = th[u]
             /\ \A u \in Threads : th[u].call # "close" => th'[u].call # "close"
  <2>1. th'[t].call = th[t].call /\ \A u \in Threads \ {t} : th'[u] = th[u]
    BY <1>2 DEF Goes
  <2> QED
    BY <2>1
<1>3. CASE Fresh(th[t])
  <2>1. Decides(t)
    BY <1>3, FreshStep
  <2>2. PICK l : Goes(t, l)
    BY <2>1 DEF Decides
  <2>3. /\ UNCHANGED <<type, valid, crossed, issleep>>
        /\ issleep => Waiting(type, th'[t])
    BY <2>1 DEF Decides
  <2>4. \A u \in Threads : Opens(type, th[u]) /\ issleep' => Opens(type, th'[u])
    <3>1. issleep' /\ th[t].call = "open" => Opens(type, th'[t])
      BY <1>2, <2>2, <2>3 DEF Opens
    <3>2. \A u \in Threads \ {t} : Opens(type, th[u]) => Opens(type, th'[u])
      BY <1>2, <2>2
    <3> QED
      BY <3>1, <3>2 DEF Opens
  <2> QED
    BY <1>2, <2>2, <2>3, <2>4, OpenStaysAwake
<1>4. ASSUME ~ Opens(type, th[t]), UNCHANGED <<type, valid, crossed, issleep>>,
             NEW l, Goes(t, l)
      PROVE  OpenInv'
  <2>1. \A u \in Threads : Opens(type, th[u]) => Opens(type, th'[u])
    BY <1>2, <1>4
  <2> QED
    BY <1>2, <1>4, <2>1, OpenStaysAwake
<1>5. CASE Outside(th[t])
  <2>1. StaysOutside(t)
    BY <1>5, OutsideStep
  <2>2. ~ Opens(type, th[t])
    <3>1. Fresh(th[t]) => th[t].todo # <<>>
      BY <1>1, FreshIsNotMarked
    <3>2. ~ Waiting(type, th[t])
      BY <1>1, <1>5, Places
    <3> QED
      BY <1>5, <3>1, <3>2 DEF Opens, Outside
  <2> QED
    BY <1>4, <2>1, <2>2 DEF StaysOutside
<1>6. CASE Waiting(type, th[t])
  <2>1. SleepBegins(t)
    BY <1>6, SleepFirstStep
  <2>2. PICK l : Goes(t, l)
    BY <2>1 DEF SleepBegins
  <2>3. valid # None /\ ~ crossed => ~ issleep'
    <3>1. valid # None /\ ~ crossed => th[t].call # "close"
      BY DEF OpenInv
    <3>2. issleep' = (th[t].call = "close")
      BY <2>1 DEF SleepBegins, Sleeps
    <3> QED
      BY <3>1, <3>2
  <2>4. UNCHANGED <<type, valid, crossed>>
    BY <2>1 DEF SleepBegins
  <2> QED
    BY <1>2, <2>2, <2>3, <2>4, OpenStaysAwake
<1>7. CASE Within(type, th[t], ~ mixed, Sleep)
  <2>1. Begun(type, th[t]) /\ th[t].call # "none"
    BY <1>7, WithinIsBegun DEF Within
  <2>2. ~ Opens(type, th[t])
    BY <1>1, <2>1, Places, Zenon DEF Opens
  <2>3. SleepGoesOn(t) \/ SleepStops(t)
    <3>1. CASE type = "S" /\ WithinS(th[t], ~ mixed, Sleep)
      BY <2>1, <3>1, SatelliteSleepStep
    <3>2. CASE type = "T" /\ WithinT(th[t], ~ mixed, Sleep)
      BY <2>1, <3>2, TerrestrialSleepStep
    <3>3. CASE Ended(type, th[t], ~ mixed, Sleep)
      BY <2>1, <3>3, SleepEndStep
    <3> QED
      BY <1>7, <3>1, <3>2, <3>3, Zenon DEF Within
  <2>4. UNCHANGED <<type, valid, crossed, issleep>> /\ \E l : Goes(t, l)
    BY <2>3, Zenon DEF SleepGoesOn, SleepStops, Goes_on
  <2> QED
    BY <1>4, <2>2, <2>4
<1>8. Fresh(th[t]) \/ Waiting(type, th[t]) \/ Within(type, th[t], ~ mixed, Sleep) \/ Outside(th[t])
  BY Zenon DEF SleepInv
<1> QED
  BY <1>3, <1>5, <1>6, <1>7, <1>8, Zenon

(* Every step keeps the invariant about open channels. *)
THEOREM OpenIsPreserved ==
    ASSUME TypeInv, SleepInv, OpenInv, [Next]_vars
    PROVE  OpenInv'
<1>1. ASSUME NEW t \in Threads, Open(t) PROVE OpenInv'
  <2>1. /\ Begins(t, "open", <<Local("wake?", None)>>, None)
        /\ valid' = t /\ crossed' = (\E u \in Threads : th[u].call = "close")
        /\ UNCHANGED type
    BY <1>1, OpenBegins
  <2>2. th'[t].call = "open" /\ Fresh(th'[t]) /\ \A u \in Threads \ {t} : th'[u] = th[u]
    BY <2>1, OpenIsFresh DEF Begins
  <2>3. ~ crossed' => \A u \in Threads : th'[u].call # "close"
    BY <2>1, <2>2
  <2>4. th'[valid'].call = "open" /\ Fresh(th'[valid'])
    BY <2>1, <2>2
  <2> QED
    BY <2>3, <2>4, Zenon DEF OpenInv
<1>2. ASSUME NEW t \in Threads, Close(t) PROVE OpenInv'
  <2>1. valid' = None
    BY <1>2, Zenon DEF Close
  <2> QED
    BY <2>1, Zenon DEF OpenInv
<1>3. ASSUME NEW t \in Threads, NEW call, NEW ops, NEW ch, Begins(t, call, ops, ch),
             call # "close", UNCHANGED <<type, valid, crossed, issleep>>, ~ Opens(type, th[t])
      PROVE  OpenInv'
  <2>1. th'[t].call # "close" /\ \A u \in Threads \ {t} : th'[u] = th[u]
    BY <1>3 DEF Begins
  <2>2. \A u \in Threads : /\ th[u].call # "close" => th'[u].call # "close"
                           /\ Opens(type, th[u]) => Opens(type, th'[u])
    BY <1>3, <2>1
  <2> QED
    BY <1>3, <2>2, OpenStaysAwake
<1>4. ASSUME NEW t \in Threads, Tune(t) PROVE OpenInv'
  <2>1. /\ Begins(t, "tune", <<Local("wake?", None), Local("frequency", None)>>, sfreq')
        /\ th[t].call = "none" /\ UNCHANGED <<type, valid, crossed, issleep>>
    BY <1>4, TuneBegins
  <2> QED
    BY <1>3, <2>1 DEF Opens
<1>5. ASSUME NEW t \in Threads, Return(t) PROVE OpenInv'
  <2>1. /\ Begins(t, "none", <<>>, None) /\ th[t].todo = <<>>
        /\ UNCHANGED <<type, valid, crossed, shared>>
    BY <1>5, ReturnEnds
  <2>2. ~ Opens(type, th[t])
    BY <2>1, FreshIsNotMarked, WaitingIsMarked DEF Opens, TypeInv
  <2> QED
    BY <1>3, <2>1, <2>2 DEF shared, driver
<1>6. ASSUME NEW t \in Threads, Think(t) \/ Transfer(t) PROVE OpenInv'
  <2>1. Acts(t)
    BY <1>6, Zenon DEF Acts, Think, Transfer
  <2> QED
    BY <2>1, OwnStepKeepsOpen
<1>7. ASSUME UNCHANGED <<type, valid, crossed, shared, th>> PROVE OpenInv'
  BY <1>7, OpenStaysAwake DEF shared, driver
<1>8. CASE Settle
  BY <1>7, <1>8, Zenon DEF Settle
<1>9. CASE UNCHANGED vars
  BY <1>7, <1>9 DEF vars
<1> QED
  BY <1>1, <1>2, <1>4, <1>5, <1>6, <1>8, <1>9, Zenon DEF Next, Step

(* When no call is on its way, the tuner of an open channel is awake, unless *)
(* the open began before a close had come to its end, or the last command    *)
(* failed or overlapped another.                                             *)
THEOREM OpenChannelIsAlwaysAwake == Spec => []OpenChannelIsAwake
<1>1. Init => TypeInv /\ SleepInv /\ OpenInv
  <2>1. Init => OpenInv
    BY DEF Init, OpenInv
  <2> QED
    BY <2>1, TypeHoldsAtFirst, SleepHoldsAtFirst
<1>2. TypeInv /\ SleepInv /\ OpenInv /\ [Next]_vars => TypeInv' /\ SleepInv' /\ OpenInv'
  BY TypeIsPreserved, SleepIsPreserved, OpenIsPreserved
<1>3. TypeInv /\ SleepInv /\ OpenInv => OpenChannelIsAwake
  <2>1. SUFFICES ASSUME TypeInv, SleepInv, OpenInv, valid # None, ~ crossed, agreed,
                        \A t \in Threads : ~ Busy(t)
                 PROVE  Awake
    BY Zenon DEF OpenChannelIsAwake
  <2>2. valid \in Threads
    BY <2>1 DEF TypeInv
  <2>3. ~ issleep
    BY <2>1, <2>2 DEF OpenInv, Busy
  <2> QED
    BY <2>1, <2>3, Zenon DEF SleepInv
<1> QED
  BY <1>1, <1>2, <1>3, PTL DEF Spec

-----------------------------------------------------------------------------
(* A tuning that nothing disturbs.                                           *)

(* What a step of a tuning that nothing disturbs leaves alone. *)
Keeps(t) == UNCHANGED <<type, sfreq>> /\ \E l : Goes(t, l)

(* A failure of a transfer ends the claim about its tuning.                  *)
LEMMA FailuresAreSeen ==
    ASSUME TypeInv, NEW t \in Threads, th[t].call = "tune", clean'[t], NEW well, Watch(t, well)
    PROVE  clean[t] /\ well
BY DEF Watch

(* A register is written. *)
LEMMA TuneWrites ==
    ASSUME TypeInv, NEW t \in Threads, Acts(t), th[t].call = "tune", clean'[t],
           NEW op, Head(th[t].todo) = op, op.do = "write", NEW s, Tail(th[t].todo) = s
    PROVE  /\ Keeps(t) /\ Goes(t, s) /\ reg' = reg
           /\ \A q \in {"demod", "r01", "r05", "agc", "id", "N", "sd1", "sd2", "rf1", "rf2"} :
                 hw'[q] = IF q = op.reg THEN op.val ELSE hw[q]
<1>1. Transfer(t)
  <2>1. Think(t) => op.do # "write"
    BY Thoughts DEF Acts
  <2> QED
    BY <2>1 DEF Acts
<1>2. /\ UNCHANGED <<type, valid, driver, agreed, crossed>>
      /\ \/ hw' = [hw EXCEPT ![op.reg] = op.val] /\ Goes(t, s)
         \/ Watch(t, FALSE)
  BY <1>1, Transfers DEF Acts
<1>3. ~ Watch(t, FALSE)
  BY FailuresAreSeen
<1>4. hw' = [hw EXCEPT ![op.reg] = op.val] /\ Goes(t, s)
  BY <1>2, <1>3
<1>5. \A q \in {"demod", "r01", "r05", "agc", "id", "N", "sd1", "sd2", "rf1", "rf2"} :
         hw'[q] = IF q = op.reg THEN op.val ELSE hw[q]
  BY <1>4 DEF TypeInv, Chips
<1> QED
  BY <1>2, <1>4, <1>5 DEF Keeps, driver

(* The driver's copies are set, or looked at. *)
LEMMA TuneRemembers ==
    ASSUME TypeInv, NEW t \in Threads, Acts(t), NEW op, Head(th[t].todo) = op,
           op.do \in {"sd", "mxfreq", "copy", "frequency"}, NEW s, Tail(th[t].todo) = s
    PROVE  /\ Keeps(t) /\ hw' = hw
           /\ reg'.sd2 = IF op.do = "sd" THEN op.val ELSE reg.sd2
           /\ op.do \in {"sd", "mxfreq"} => Goes(t, s)
           /\ op.do = "copy" => Goes(t, <<Write(op.reg, reg[op.reg], op.drop)>> \o s)
           /\ op.do = "frequency" => Goes(t, SetChannel(sfreq) \o s)
<1>1. Think(t)
  <2>1. Transfer(t) => op.do \in {"write", "locked", "tmcc_s", "get_id", "tmcc_t"}
    BY Transfers DEF Acts
  <2> QED
    BY <2>1 DEF Acts
<1>2. /\ UNCHANGED <<type, valid, sfreq, hw, signal, crossed>>
      /\ op.do = "sd" => reg' = [reg EXCEPT !.sd2 = op.val] /\ Goes(t, s)
      /\ op.do = "mxfreq" => Goes(t, s) /\ UNCHANGED <<standby, reg>>
      /\ op.do \in {"wake?", "frequency", "wakeup", "copy"} => UNCHANGED <<standby, reg, mxfreq>>
  BY <1>1, Thoughts DEF Acts
<1>3. /\ op.do = "frequency" => Goes(t, SetChannel(sfreq) \o s)
      /\ op.do = "copy" => Goes(t, <<Write(op.reg, reg[op.reg], op.drop)>> \o s)
  BY <1>1, Branches DEF Acts
<1>4. reg'.sd2 = IF op.do = "sd" THEN op.val ELSE reg.sd2
  <2>1. CASE op.do = "sd"
    BY <1>2, <2>1 DEF TypeInv, Copies
  <2>2. CASE op.do # "sd"
    <3>1. reg' = reg
      BY <1>2, <2>2
    <3> QED
      BY <2>2, <3>1
  <2> QED
    BY <2>1, <2>2
<1> QED
  BY <1>2, <1>3, <1>4 DEF Keeps

(* A poll goes on, or is made again. *)
LEMMA TunePolls ==
    ASSUME TypeInv, NEW t \in Threads, Acts(t), th[t].call = "tune", clean'[t],
           NEW op, Head(th[t].todo) = op, op.do \in {"locked", "tmcc_s", "get_id", "tmcc_t"},
           NEW s, Tail(th[t].todo) = s
    PROVE  /\ Keeps(t) /\ hw' = hw /\ reg' = reg
           /\ \/ Goes(t, th[t].todo)
              \/ /\ Goes(t, s)
                 /\ op.do = "locked" => Awake
                 /\ op.do = "get_id" => hw.id = op.val
                 /\ op.do # "tmcc_s"
              \/ /\ op.do = "tmcc_s" /\ Awake
                 /\ \E c \in 0 .. Channels :
                       /\ TunedTo(c)
                       /\ Goes(t, <<Write("id", c, All),
                                    [Poll("get_id", All) EXCEPT !.val = c]>> \o s)
<1>1. Transfer(t)
  <2>1. Think(t) => op.do \notin {"locked", "tmcc_s", "get_id", "tmcc_t"}
    BY Thoughts DEF Acts
  <2> QED
    BY <2>1 DEF Acts
<1>2. op.do # "write"
  OBVIOUS
<1>3. UNCHANGED <<type, valid, driver, agreed, crossed>> /\ hw' = hw
  BY <1>1, <1>2, Transfers, Zenon DEF Acts
<1>4. \/ Watch(t, FALSE)
      \/ Goes(t, th[t].todo)
      \/ /\ Goes(t, s)
         /\ op.do = "locked" => Awake
         /\ op.do = "get_id" => hw.id = op.val
         /\ op.do # "tmcc_s"
      \/ /\ op.do = "tmcc_s" /\ Awake
         /\ \E c \in 0 .. Channels :
               /\ TunedTo(c)
               /\ Goes(t, <<Write("id", c, All),
                            [Poll("get_id", All) EXCEPT !.val = c]>> \o s)
  BY <1>1, <1>2, Transfers, Zenon DEF Acts
<1>5. ~ Watch(t, FALSE)
  BY FailuresAreSeen
<1>6. Keeps(t)
  BY <1>3, <1>4, <1>5, Zenon DEF Keeps, driver
<1> QED
  BY <1>3, <1>4, <1>5, <1>6, Zenon DEF driver

(* A satellite tuner takes the next step of SetChannel. *)
LEMMA SatelliteTuneStep ==
    ASSUME TypeInv, NEW t \in Threads, Acts(t), type = "S", th[t].call = "tune", clean'[t],
           NEW c, SetS(th[t].todo, c, hw, reg.sd2)
    PROVE  Keeps(t) /\ SetS(th'[t].todo, c, hw', reg'.sd2)
<1> DEFINE l == th[t].todo
           g == th'[t].todo
           W(n) == Write(n, c, All)
           sd   == Local("sd", c)
           copy == Copy("sd2", All)
           lock == Poll("locked", All)
           tmcc == Poll("tmcc_s", 0)
           get  == [Poll("get_id", All) EXCEPT !.val = c]
           There(r) == r.N = c /\ r.sd1 = c /\ r.sd2 = c
           Fields == {"demod", "r01", "r05", "agc", "id", "N", "sd1", "sd2", "rf1", "rf2"}
           Result == Keeps(t) /\ SetS(g, c, hw', reg'.sd2)
           Wrote(r, v, s) == /\ Keeps(t) /\ g = s /\ reg'.sd2 = reg.sd2
                             /\ \A q \in Fields : hw'[q] = IF q = r THEN v ELSE hw[q]
<1>1. ASSUME NEW r, NEW v, NEW s, Head(l) = Write(r, v, All), Tail(l) = s
      PROVE  Wrote(r, v, s)
  <2> DEFINE op == Write(r, v, All)
  <2>1. op.do = "write" /\ op.reg = r /\ op.val = v
    BY DEF Write
  <2> HIDE DEF op
  <2>2. Head(l) = op
    BY <1>1 DEF op
  <2>3. /\ Keeps(t) /\ Goes(t, s) /\ reg' = reg
        /\ \A q \in Fields : hw'[q] = IF q = op.reg THEN op.val ELSE hw[q]
    BY <1>1, <2>1, <2>2, TuneWrites
  <2> QED
    BY <2>1, <2>3 DEF Goes
<1> HIDE DEF Wrote
<1>2. ASSUME NEW op, NEW s, Head(l) = op, Tail(l) = s, op.do \in {"locked", "tmcc_s", "get_id"}
      PROVE  /\ Keeps(t) /\ hw' = hw /\ reg' = reg
             /\ \/ g = l
                \/ g = s /\ (op.do = "locked" => Up("S", hw)) /\ (op.do = "get_id" => hw.id = op.val)
                   /\ op.do # "tmcc_s"
                \/ /\ op.do = "tmcc_s" /\ Up("S", hw)
                   /\ \E d : /\ hw.N = d
                             /\ g = <<Write("id", d, All),
                                      [Poll("get_id", All) EXCEPT !.val = d]>> \o s
  <2>1. Awake => Up("S", hw)
    BY DEF Awake, Up
  <2>2. \A d : TunedTo(d) => hw.N = d
    BY DEF TunedTo
  <2>3. \A s2 : Goes(t, s2) => g = s2
    BY DEF Goes
  <2>4. /\ Keeps(t) /\ hw' = hw /\ reg' = reg
        /\ \/ Goes(t, l)
           \/ /\ Goes(t, s)
              /\ op.do = "locked" => Awake
              /\ op.do = "get_id" => hw.id = op.val
              /\ op.do # "tmcc_s"
           \/ /\ op.do = "tmcc_s" /\ Awake
              /\ \E d \in 0 .. Channels :
                    /\ TunedTo(d)
                    /\ Goes(t, <<Write("id", d, All),
                                 [Poll("get_id", All) EXCEPT !.val = d]>> \o s)
    BY <1>2, TunePolls
  <2> QED
    BY <2>1, <2>2, <2>3, <2>4, Zenon
<1>3. hw' = hw /\ reg' = reg /\ g = l /\ Keeps(t) => Result
  BY Zenon
<1>4. CASE l = <<manual, W("N"), sd, W("sd1"), copy, lock, auto, tmcc>>
  <2>1. Head(l) = manual /\ Tail(l) = <<W("N"), sd, W("sd1"), copy, lock, auto, tmcc>>
    BY <1>4
  <2>2. Wrote("agc", "manual", <<W("N"), sd, W("sd1"), copy, lock, auto, tmcc>>)
    BY <1>1, <2>1, Zenon DEF manual
  <2> QED
    BY <2>2, Zenon DEF SetS, Wrote
<1>5. CASE l = <<W("N"), sd, W("sd1"), copy, lock, auto, tmcc>>
  <2>1. Head(l) = W("N") /\ Tail(l) = <<sd, W("sd1"), copy, lock, auto, tmcc>>
    BY <1>5
  <2>2. Wrote("N", c, <<sd, W("sd1"), copy, lock, auto, tmcc>>)
    BY <1>1, <2>1, Zenon
  <2>3. hw'.N = c
    BY <2>2 DEF Wrote
  <2> QED
    BY <2>2, <2>3, Zenon DEF SetS, Wrote
<1>6. CASE l = <<sd, W("sd1"), copy, lock, auto, tmcc>> /\ hw.N = c
  <2>1. Head(l) = sd /\ Tail(l) = <<W("sd1"), copy, lock, auto, tmcc>>
    BY <1>6
  <2>2. sd.do = "sd" /\ sd.val = c
    BY DEF Local
  <2> HIDE DEF sd
  <2>3. /\ Keeps(t) /\ hw' = hw /\ reg'.sd2 = c
        /\ Goes(t, <<W("sd1"), copy, lock, auto, tmcc>>)
    BY <2>1, <2>2, TuneRemembers
  <2>4. g = <<W("sd1"), copy, lock, auto, tmcc>> /\ hw'.N = c
    BY <1>6, <2>3 DEF Goes
  <2> QED
    BY <2>3, <2>4, Zenon DEF SetS
<1>7. CASE l = <<W("sd1"), copy, lock, auto, tmcc>> /\ hw.N = c /\ reg.sd2 = c
  <2>1. Head(l) = W("sd1") /\ Tail(l) = <<copy, lock, auto, tmcc>>
    BY <1>7
  <2>2. Wrote("sd1", c, <<copy, lock, auto, tmcc>>)
    BY <1>1, <2>1, Zenon
  <2>3. hw'.N = c /\ hw'.sd1 = c /\ reg'.sd2 = c
    BY <1>7, <2>2 DEF Wrote
  <2> QED
    BY <2>2, <2>3, Zenon DEF SetS, Wrote
<1>8. CASE l = <<copy, lock, auto, tmcc>> /\ hw.N = c /\ reg.sd2 = c /\ hw.sd1 = c
  <2>1. Head(l) = copy /\ Tail(l) = <<lock, auto, tmcc>>
    BY <1>8
  <2>2. copy.do = "copy" /\ copy.reg = "sd2" /\ copy.drop = All
    BY DEF Copy
  <2> HIDE DEF copy
  <2>3. /\ Keeps(t) /\ hw' = hw /\ Goes(t, <<Write("sd2", reg["sd2"], All)>> \o <<lock, auto, tmcc>>)
    BY <2>1, <2>2, TuneRemembers
  <2>4. reg["sd2"] = c
    BY <1>8
  <2>5. <<W("sd2")>> \o <<lock, auto, tmcc>> = <<W("sd2"), lock, auto, tmcc>>
    BY Join13, Zenon
  <2>6. g = <<W("sd2"), lock, auto, tmcc>>
    BY <2>3, <2>4, <2>5 DEF Goes
  <2>7. hw'.N = c /\ hw'.sd1 = c
    BY <1>8, <2>3
  <2> QED
    BY <2>3, <2>6, <2>7, Zenon DEF SetS
<1>9. CASE l = <<W("sd2"), lock, auto, tmcc>> /\ hw.N = c /\ hw.sd1 = c
  <2>1. Head(l) = W("sd2") /\ Tail(l) = <<lock, auto, tmcc>>
    BY <1>9
  <2>2. Wrote("sd2", c, <<lock, auto, tmcc>>)
    BY <1>1, <2>1, Zenon
  <2>3. There(hw')
    BY <1>9, <2>2 DEF Wrote
  <2> QED
    BY <2>2, <2>3, Zenon DEF SetS, Wrote
<1>10. CASE l = <<lock, auto, tmcc>> /\ There(hw)
  <2>1. Head(l) = lock /\ Tail(l) = <<auto, tmcc>> /\ lock.do = "locked"
    BY <1>10 DEF Poll
  <2> HIDE DEF lock
  <2>2. Keeps(t) /\ hw' = hw /\ reg' = reg /\ (g = l \/ (g = <<auto, tmcc>> /\ Up("S", hw)))
    BY <1>2, <2>1
  <2>3. CASE g = <<auto, tmcc>> /\ Up("S", hw)
    BY <1>10, <2>2, <2>3, Zenon DEF SetS
  <2> QED
    BY <1>3, <2>2, <2>3
<1>11. CASE l = <<auto, tmcc>> /\ There(hw) /\ Up("S", hw)
  <2>1. Head(l) = auto /\ Tail(l) = <<tmcc>>
    BY <1>11
  <2>2. Wrote("agc", "auto", <<tmcc>>)
    BY <1>1, <2>1, Zenon DEF auto
  <2>3. There(hw') /\ Up("S", hw') /\ hw'.agc = "auto"
    BY <1>11, <2>2 DEF Up, Wrote
  <2> QED
    BY <2>2, <2>3, Zenon DEF SetS, Wrote
<1>12. CASE l = <<tmcc>> /\ There(hw) /\ Up("S", hw) /\ hw.agc = "auto"
  <2>1. Head(l) = tmcc /\ Tail(l) = <<>> /\ tmcc.do = "tmcc_s"
    BY <1>12 DEF Poll
  <2> HIDE DEF tmcc
  <2>2. /\ Keeps(t) /\ hw' = hw /\ reg' = reg
        /\ \/ g = l
           \/ \E d : hw.N = d /\ g = <<Write("id", d, All), [Poll("get_id", All) EXCEPT !.val = d]>> \o <<>>
    BY <1>2, <2>1
  <2>3. CASE g = <<W("id"), get>> \o <<>>
    <3>1. <<W("id"), get>> \o <<>> = <<W("id"), get>>
      <4> DEFINE w == W("id")
      <4> HIDE DEF w, get
      <4>1. <<w, get>> \in Seq({w, get})
        OBVIOUS
      <4>2. <<w, get>> \o <<>> = <<w, get>>
        BY <4>1, ConcatEmptySeq
      <4> QED
        BY <4>2 DEF w
    <3>2. g = <<W("id"), get>>
      BY <2>3, <3>1, Zenon
    <3> QED
      BY <1>12, <2>2, <3>2, Zenon DEF SetS
  <2>4. g = l \/ g = <<W("id"), get>> \o <<>>
    BY <1>12, <2>2, Zenon
  <2> QED
    BY <1>3, <2>2, <2>3, <2>4, Zenon
<1>13. CASE l = <<W("id"), get>> /\ There(hw) /\ Up("S", hw) /\ hw.agc = "auto"
  <2>1. Head(l) = W("id") /\ Tail(l) = <<get>>
    <3> HIDE DEF get
    <3> QED
      BY <1>13
  <2>2. Wrote("id", c, <<get>>)
    BY <1>1, <2>1, Zenon
  <2>3. There(hw') /\ Up("S", hw') /\ hw'.agc = "auto"
    BY <1>13, <2>2 DEF Up, Wrote
  <2> QED
    BY <2>2, <2>3, Zenon DEF SetS, Wrote
<1>14. CASE l = <<get>> /\ There(hw) /\ Up("S", hw) /\ hw.agc = "auto"
  <2>1. get.do = "get_id" /\ get.val = c
    BY DEF Poll
  <2>2. Head(l) = get /\ Tail(l) = <<>>
    <3> HIDE DEF get
    <3> QED
      BY <1>14
  <2>3. Keeps(t) /\ hw' = hw /\ reg' = reg /\ (g = l \/ (g = <<>> /\ hw.id = c))
    <3> HIDE DEF get
    <3> QED
      BY <1>2, <2>1, <2>2
  <2>4. CASE g = <<>> /\ hw.id = c
    BY <1>14, <2>3, <2>4, Zenon DEF SetS
  <2> QED
    BY <1>3, <2>3, <2>4
<1>15. l # <<>>
  BY DEF Acts
<1> QED
  BY <1>4, <1>5, <1>6, <1>7, <1>8, <1>9, <1>10, <1>11, <1>12, <1>13, <1>14, <1>15, Zenon DEF SetS

(* A terrestrial one. *)
LEMMA TerrestrialTuneStep ==
    ASSUME TypeInv, NEW t \in Threads, Acts(t), type = "T", th[t].call = "tune", clean'[t],
           NEW c, SetT(th[t].todo, c, hw)
    PROVE  Keeps(t) /\ SetT(th'[t].todo, c, hw')
<1> DEFINE l == th[t].todo
           g == th'[t].todo
           W(n) == Write(n, c, 0)
           mx   == Local("mxfreq", c)
           lock == Poll("locked", 0)
           tmcc == Poll("tmcc_t", 0)
           There(r) == r.rf1 = c /\ r.rf2 = c
           Fields == {"demod", "r01", "r05", "agc", "id", "N", "sd1", "sd2", "rf1", "rf2"}
           Wrote(r, v, s) == /\ Keeps(t) /\ g = s
                             /\ \A q \in Fields : hw'[q] = IF q = r THEN v ELSE hw[q]
<1>1. ASSUME NEW r, NEW v, NEW d, NEW s, Head(l) = Write(r, v, d), Tail(l) = s
      PROVE  Wrote(r, v, s)
  <2> DEFINE op == Write(r, v, d)
  <2>1. op.do = "write" /\ op.reg = r /\ op.val = v
    BY DEF Write
  <2> HIDE DEF op
  <2>2. Head(l) = op
    BY <1>1 DEF op
  <2>3. /\ Keeps(t) /\ Goes(t, s)
        /\ \A q \in Fields : hw'[q] = IF q = op.reg THEN op.val ELSE hw[q]
    BY <1>1, <2>1, <2>2, TuneWrites
  <2> QED
    BY <2>1, <2>3 DEF Goes
<1> HIDE DEF Wrote
<1>2. ASSUME NEW op, NEW s, Head(l) = op, Tail(l) = s, op.do \in {"locked", "tmcc_t"}
      PROVE  /\ Keeps(t) /\ hw' = hw
             /\ g = l \/ (g = s /\ (op.do = "locked" => Up("T", hw)))
  <2>1. Awake => Up("T", hw)
    BY DEF Awake, Up
  <2>2. \A s2 : Goes(t, s2) => g = s2
    BY DEF Goes
  <2>3. /\ Keeps(t) /\ hw' = hw
        /\ \/ Goes(t, l)
           \/ Goes(t, s) /\ (op.do = "locked" => Awake)
    BY <1>2, TunePolls
  <2> QED
    BY <2>1, <2>2, <2>3, Zenon
<1>3. CASE l = <<manual, mx, W("rf1"), W("rf2"), lock, auto, tmcc>>
  <2>1. Head(l) = manual /\ Tail(l) = <<mx, W("rf1"), W("rf2"), lock, auto, tmcc>>
    BY <1>3
  <2>2. Wrote("agc", "manual", <<mx, W("rf1"), W("rf2"), lock, auto, tmcc>>)
    BY <1>1, <2>1, Zenon DEF manual
  <2> QED
    BY <2>2, Zenon DEF SetT, Wrote
<1>4. CASE l = <<mx, W("rf1"), W("rf2"), lock, auto, tmcc>>
  <2>1. Head(l) = mx /\ Tail(l) = <<W("rf1"), W("rf2"), lock, auto, tmcc>>
    BY <1>4
  <2>2. mx.do = "mxfreq"
    BY DEF Local
  <2> HIDE DEF mx
  <2>3. Keeps(t) /\ Goes(t, <<W("rf1"), W("rf2"), lock, auto, tmcc>>)
    BY <2>1, <2>2, TuneRemembers
  <2>4. g = <<W("rf1"), W("rf2"), lock, auto, tmcc>>
    BY <2>3 DEF Goes
  <2> QED
    BY <2>3, <2>4, Zenon DEF SetT
<1>5. CASE l = <<W("rf1"), W("rf2"), lock, auto, tmcc>>
  <2>1. Head(l) = W("rf1") /\ Tail(l) = <<W("rf2"), lock, auto, tmcc>>
    BY <1>5
  <2>2. Wrote("rf1", c, <<W("rf2"), lock, auto, tmcc>>)
    BY <1>1, <2>1, Zenon
  <2>3. hw'.rf1 = c
    BY <2>2 DEF Wrote
  <2> QED
    BY <2>2, <2>3, Zenon DEF SetT, Wrote
<1>6. CASE l = <<W("rf2"), lock, auto, tmcc>> /\ hw.rf1 = c
  <2>1. Head(l) = W("rf2") /\ Tail(l) = <<lock, auto, tmcc>>
    BY <1>6
  <2>2. Wrote("rf2", c, <<lock, auto, tmcc>>)
    BY <1>1, <2>1, Zenon
  <2>3. There(hw')
    BY <1>6, <2>2 DEF Wrote
  <2> QED
    BY <2>2, <2>3, Zenon DEF SetT, Wrote
<1>7. CASE l = <<lock, auto, tmcc>> /\ There(hw)
  <2>1. Head(l) = lock /\ Tail(l) = <<auto, tmcc>> /\ lock.do = "locked"
    BY <1>7 DEF Poll
  <2> HIDE DEF lock
  <2>2. Keeps(t) /\ hw' = hw /\ (g = l \/ (g = <<auto, tmcc>> /\ Up("T", hw)))
    BY <1>2, <2>1
  <2>3. CASE g = <<auto, tmcc>> /\ Up("T", hw)
    BY <1>7, <2>2, <2>3, Zenon DEF SetT
  <2> QED
    BY <2>2, <2>3, Zenon
<1>8. CASE l = <<auto, tmcc>> /\ There(hw) /\ Up("T", hw)
  <2>1. Head(l) = auto /\ Tail(l) = <<tmcc>>
    BY <1>8
  <2>2. Wrote("agc", "auto", <<tmcc>>)
    BY <1>1, <2>1, Zenon DEF auto
  <2>3. There(hw') /\ Up("T", hw') /\ hw'.agc = "auto"
    BY <1>8, <2>2 DEF Up, Wrote
  <2> QED
    BY <2>2, <2>3, Zenon DEF SetT, Wrote
<1>9. CASE l = <<tmcc>> /\ There(hw) /\ Up("T", hw) /\ hw.agc = "auto"
  <2>1. Head(l) = tmcc /\ Tail(l) = <<>> /\ tmcc.do = "tmcc_t"
    BY <1>9 DEF Poll
  <2> HIDE DEF tmcc
  <2>2. Keeps(t) /\ hw' = hw /\ (g = l \/ g = <<>>)
    BY <1>2, <2>1
  <2>3. CASE g = <<>>
    BY <1>9, <2>2, <2>3, Zenon DEF SetT
  <2> QED
    BY <2>2, <2>3, Zenon
<1>10. l # <<>>
  BY DEF Acts
<1> QED
  BY <1>3, <1>4, <1>5, <1>6, <1>7, <1>8, <1>9, <1>10, Zenon DEF SetT

(* A tuning takes a step that nothing disturbs. *)
LEMMA OwnStepKeepsTune ==
    ASSUME TypeInv, SleepInv, NEW t \in Threads, Acts(t), th[t].call = "tune", clean'[t],
           Place(type, th[t], sfreq, hw, reg.sd2)
    PROVE  Place(type', th'[t], sfreq', hw', reg'.sd2)
<1> DEFINE h == th[t]
           g == th'[t]
           Before(k, i) == Fresh(i) \/ Waiting(k, i) \/ Begun(k, i) \/ i.todo = Rest(i)
<1>1. h \in Calls /\ Rest(h) = <<Local("frequency", None)>> /\ ~ Sleeps(h)
  BY DEF TypeInv, Rest, Sleeps
<1>2. ASSUME h.ch = sfreq, \E l : Goes(t, l), UNCHANGED <<type, sfreq>>, Before(type, g)
      PROVE  Place(type', g, sfreq', hw', reg'.sd2)
  <2>1. g.ch = sfreq' /\ type' = type
    BY <1>2 DEF Goes
  <2> QED
    BY <1>2, <2>1, Zenon DEF Place
<1>3. CASE h.ch = sfreq /\ Fresh(h)
  <2>1. Decides(t)
    BY <1>3, FreshStep
  <2>2. PICK l : Goes(t, l)
    BY <2>1 DEF Decides
  <2>3. Waiting(type, g) \/ g.todo = Rest(g)
    <3>1. Rest(g) = Rest(h)
      BY <2>2, SameEnds
    <3> QED
      BY <2>1, <3>1, Zenon DEF Decides
  <2> QED
    BY <1>2, <1>3, <2>1, <2>3 DEF Decides
<1>4. CASE h.ch = sfreq /\ Waiting(type, h)
  <2>1. SleepBegins(t)
    BY <1>4, SleepFirstStep
  <2>2. Begun(type, g)
    BY <2>1, WithinIsBegun DEF SleepBegins
  <2> QED
    BY <1>2, <1>4, <2>1, <2>2 DEF SleepBegins
<1>5. CASE h.ch = sfreq /\ Begun(type, h)
  <2>1. Within(type, h, ~ mixed, Sleep)
    BY <1>1, <1>5, Places, Zenon DEF SleepInv
  <2>2. SleepGoesOn(t) \/ SleepStops(t)
    <3>1. CASE type = "S" /\ WithinS(h, ~ mixed, Sleep)
      BY <3>1, SatelliteSleepStep
    <3>2. CASE type = "T" /\ WithinT(h, ~ mixed, Sleep)
      BY <3>2, TerrestrialSleepStep
    <3>3. CASE Ended(type, h, ~ mixed, Sleep)
      BY <3>3, SleepEndStep
    <3> QED
      BY <2>1, <3>1, <3>2, <3>3, Zenon DEF Within
  <2>3. CASE SleepGoesOn(t)
    <3>1. Within(type, g, ~ mixed', Sleep')
      BY <1>1, <2>3 DEF SleepGoesOn
    <3>2. Begun(type, g)
      BY <3>1, WithinIsBegun
    <3> QED
      BY <1>2, <1>5, <2>3, <3>2 DEF SleepGoesOn, Goes_on
  <2>4. CASE SleepStops(t)
    <3>1. Goes(t, Rest(h)) /\ UNCHANGED <<type, sfreq>>
      BY <2>4, Zenon DEF SleepStops
    <3>2. g.todo = Rest(g)
      BY <3>1, SameEnds
    <3> QED
      BY <1>2, <1>5, <3>1, <3>2
  <2> QED
    BY <2>2, <2>3, <2>4
<1>6. CASE h.ch = sfreq /\ h.todo = Rest(h)
  <2> DEFINE op == Local("frequency", None)
  <2>1. Head(h.todo) = op /\ Tail(h.todo) = <<>> /\ op.do = "frequency"
    BY <1>1, <1>6 DEF Local
  <2> HIDE DEF op
  <2>2. Keeps(t) /\ Goes(t, SetChannel(sfreq) \o <<>>)
    BY <2>1, TuneRemembers
  <2>3. SetChannel(sfreq) = SetSteps(type, sfreq) /\ SetSteps(type, sfreq) \in Seq(FreqOps)
    BY SetChannelIsSteps DEF TypeInv
  <2>4. SetChannel(sfreq) \o <<>> = SetSteps(type, sfreq)
    BY <2>3, ConcatEmptySeq, Zenon
  <2>5. g.todo = SetSteps(type, g.ch) /\ type' = type
    BY <1>6, <2>2, <2>4 DEF Goes, Keeps
  <2>6. CASE type = "S"
    <3>1. SetS(g.todo, g.ch, hw', reg'.sd2)
      BY <2>5, <2>6, Zenon DEF SetSteps, SetS
    <3> QED
      BY <2>5, <2>6, <3>1, Zenon DEF Place
  <2>7. CASE type = "T"
    <3>1. type # "S"
      BY <2>7
    <3>2. SetT(g.todo, g.ch, hw')
      BY <2>5, <3>1, Zenon DEF SetSteps, SetT
    <3> QED
      BY <2>5, <2>7, <3>2, Zenon DEF Place
  <2> QED
    BY <2>6, <2>7 DEF TypeInv
<1>7. CASE type = "S" /\ SetS(h.todo, h.ch, hw, reg.sd2)
  <2>1. Keeps(t) /\ SetS(g.todo, h.ch, hw', reg'.sd2)
    BY <1>7, SatelliteTuneStep
  <2>2. type' = type /\ g.ch = h.ch
    BY <2>1 DEF Keeps, Goes
  <2> QED
    BY <1>7, <2>1, <2>2, Zenon DEF Place
<1>8. CASE type = "T" /\ SetT(h.todo, h.ch, hw)
  <2>1. Keeps(t) /\ SetT(g.todo, h.ch, hw')
    BY <1>8, TerrestrialTuneStep
  <2>2. type' = type /\ g.ch = h.ch
    BY <2>1 DEF Keeps, Goes
  <2> QED
    BY <1>8, <2>1, <2>2, Zenon DEF Place
<1> QED
  BY <1>3, <1>4, <1>5, <1>6, <1>7, <1>8, Zenon DEF Place

(* Every step keeps the invariant about tunings. *)
THEOREM TuneIsPreserved ==
    ASSUME TypeInv, SleepInv, TuneInv, [Next]_vars
    PROVE  TuneInv'
<1>1. ASSUME NEW u \in Threads, th'[u] = th[u], UNCHANGED <<type, sfreq, hw, reg>>,
             Undisturbed(u)' => clean[u]
      PROVE  (Undisturbed(u) => Place(type, th[u], sfreq, hw, reg.sd2))'
  BY <1>1, Zenon DEF TuneInv, Undisturbed
<1>2. ASSUME NEW t \in Threads, NEW u \in Threads \ {t}, th'[u] = th[u], type' = type,
             NEW well, Watch(t, well)
      PROVE  (Undisturbed(u) => Place(type, th[u], sfreq, hw, reg.sd2))'
  <2>1. SUFFICES ASSUME Undisturbed(u)'
                 PROVE  Place(type, th[u], sfreq, hw, reg.sd2)'
    BY Zenon
  <2>2. th[u].call = "tune" /\ clean'[u]
    BY <1>2, <2>1 DEF Undisturbed
  <2>3. clean[u] /\ shared' = shared
    BY <1>2, <2>2 DEF Watch
  <2> QED
    BY <1>1, <1>2, <2>1, <2>3 DEF shared, driver
<1>3. ASSUME NEW t \in Threads, \A u \in Threads \ {t} : th'[u] = th[u], type' = type,
             NEW well, Watch(t, well),
             (Undisturbed(t) => Place(type, th[t], sfreq, hw, reg.sd2))'
      PROVE  TuneInv'
  BY <1>2, <1>3, Zenon DEF TuneInv
<1>4. ASSUME NEW t \in Threads, Open(t) \/ Close(t) PROVE TuneInv'
  <2>1. /\ th'[t].call # "tune" /\ \A u \in Threads \ {t} : th'[u] = th[u]
        /\ type' = type /\ Watch(t, TRUE)
    BY <1>4, OpenBegins, CloseBegins DEF Begins
  <2> QED
    BY <1>3, <2>1 DEF Undisturbed
<1>5. ASSUME NEW t \in Threads, Tune(t) PROVE TuneInv'
  <2>1. /\ Begins(t, "tune", <<Local("wake?", None), Local("frequency", None)>>, sfreq')
        /\ type' = type /\ Watch(t, TRUE)
    BY <1>5, TuneBegins
  <2>2. Fresh(th'[t]) /\ th'[t].ch = sfreq' /\ \A u \in Threads \ {t} : th'[u] = th[u]
    BY <2>1, TuneIsFresh DEF Begins
  <2>3. Place(type, th[t], sfreq, hw, reg.sd2)'
    BY <2>2, Zenon DEF Place
  <2> QED
    BY <1>3, <2>1, <2>2, <2>3
<1>6. ASSUME NEW t \in Threads, Return(t) PROVE TuneInv'
  <2>1. /\ th'[t].call = "none" /\ \A u \in Threads \ {t} : th'[u] = th[u]
        /\ clean' = [clean EXCEPT ![t] = TRUE] /\ UNCHANGED <<type, shared>>
    BY <1>6, ReturnEnds DEF Begins
  <2>2. ASSUME NEW u \in Threads \ {t}
        PROVE  (Undisturbed(u) => Place(type, th[u], sfreq, hw, reg.sd2))'
    <3>1. Undisturbed(u)' => clean[u]
      BY <2>1 DEF Undisturbed, TypeInv
    <3> QED
      BY <1>1, <2>1, <3>1 DEF shared, driver
  <2>3. ~ Undisturbed(t)'
    BY <2>1 DEF Undisturbed
  <2> QED
    BY <2>2, <2>3, Zenon DEF TuneInv
<1>7. ASSUME NEW t \in Threads, Think(t) \/ Transfer(t) PROVE TuneInv'
  <2>1. Acts(t)
    BY <1>7, Zenon DEF Acts, Think, Transfer
  <2>2. PICK well : Watch(t, well)
    <3>1. Think(t) => Watch(t, TRUE)
      BY Zenon DEF Think
    <3>2. Transfer(t) => Watch(t, TRUE) \/ Watch(t, FALSE)
      BY <2>1, Transfers DEF Acts
    <3> QED
      BY <1>7, <3>1, <3>2, Zenon
  <2>3. type' = type /\ \E l : Goes(t, l)
    <3>1. CASE Fresh(th[t])
      BY <2>1, <3>1, FreshStep DEF Decides
    <3>2. CASE Outside(th[t])
      BY <2>1, <3>2, OutsideStep DEF StaysOutside
    <3>3. CASE Waiting(type, th[t])
      BY <2>1, <3>3, SleepFirstStep DEF SleepBegins
    <3>4. CASE Within(type, th[t], ~ mixed, Sleep)
      <4>1. CASE type = "S" /\ WithinS(th[t], ~ mixed, Sleep)
        BY <2>1, <3>4, <4>1, SatelliteSleepStep DEF SleepGoesOn, Goes_on, Within
      <4>2. CASE type = "T" /\ WithinT(th[t], ~ mixed, Sleep)
        BY <2>1, <3>4, <4>2, TerrestrialSleepStep DEF SleepGoesOn, Goes_on, Within
      <4>3. CASE Ended(type, th[t], ~ mixed, Sleep)
        BY <2>1, <3>4, <4>3, SleepEndStep DEF SleepGoesOn, Goes_on, SleepStops, Within
      <4> QED
        BY <3>4, <4>1, <4>2, <4>3, Zenon DEF Within
    <3> QED
      BY <3>1, <3>2, <3>3, <3>4, Zenon DEF SleepInv
  <2>4. PICK l : Goes(t, l)
    BY <2>3
  <2>5. th'[t].call = th[t].call /\ \A u \in Threads \ {t} : th'[u] = th[u]
    BY <2>4 DEF Goes
  <2>6. ASSUME Undisturbed(t)'
        PROVE  Place(type, th[t], sfreq, hw, reg.sd2)'
    <3>1. th[t].call = "tune" /\ clean'[t]
      BY <2>5, <2>6 DEF Undisturbed
    <3>2. clean[t]
      BY <2>2, <3>1, FailuresAreSeen
    <3>3. Place(type, th[t], sfreq, hw, reg.sd2)
      BY <3>1, <3>2, Zenon DEF TuneInv, Undisturbed
    <3>4. Place(type', th'[t], sfreq', hw', reg'.sd2)
      BY <2>1, <3>1, <3>3, OwnStepKeepsTune
    <3> QED
      BY <3>4
  <2> QED
    BY <1>3, <2>2, <2>3, <2>5, <2>6
<1>8. ASSUME UNCHANGED <<type, shared, th, clean>> PROVE TuneInv'
  <2>1. UNCHANGED <<sfreq, hw, reg>>
    BY <1>8 DEF shared, driver
  <2> QED
    BY <1>8, <2>1 DEF TuneInv, Undisturbed
<1>9. CASE Settle
  BY <1>8, <1>9, Zenon DEF Settle
<1>10. CASE UNCHANGED vars
  BY <1>8, <1>10 DEF vars
<1> QED
  BY <1>4, <1>5, <1>6, <1>7, <1>9, <1>10, Zenon DEF Next, Step

(* A tuning that ends well with no failure, and no other thread changing     *)
(* anything meanwhile, leaves the channel it was asked for in every register *)
(* and the chips awake, whatever calls came before.                          *)
THEOREM TunedAsAskedAlways == Spec => []TunedAsAsked
<1>1. Init => TypeInv /\ SleepInv /\ TuneInv
  <2>1. ASSUME Init
        PROVE  TuneInv
    <3>1. \A t \in Threads : th[t].call = "none"
      BY <2>1 DEF Init, Idle
    <3> QED
      BY <3>1 DEF TuneInv, Undisturbed
  <2> QED
    BY <2>1, TypeHoldsAtFirst, SleepHoldsAtFirst
<1>2. TypeInv /\ SleepInv /\ TuneInv /\ [Next]_vars => TypeInv' /\ SleepInv' /\ TuneInv'
  BY TypeIsPreserved, SleepIsPreserved, TuneIsPreserved
<1>3. TypeInv /\ SleepInv /\ TuneInv => TunedAsAsked
  <2>1. SUFFICES ASSUME TypeInv, TuneInv, NEW t \in Threads,
                        th[t].call = "tune", th[t].todo = <<>>, clean[t]
                 PROVE  /\ TunedTo(th[t].ch) /\ Awake /\ hw.agc = "auto"
                        /\ type = "S" => hw.id = th[t].ch
    BY Zenon DEF TunedAsAsked
  <2>2. Place(type, th[t], sfreq, hw, reg.sd2)
    BY <2>1, Zenon DEF TuneInv, Undisturbed
  <2>3. /\ th[t] \in Calls
        /\ ~ Fresh(th[t]) /\ ~ Waiting(type, th[t]) /\ ~ Begun(type, th[t])
        /\ th[t].todo # Rest(th[t])
    <3>1. th[t] \in Calls
      BY <2>1 DEF TypeInv
    <3>2. ~ Fresh(th[t]) /\ ~ Waiting(type, th[t]) /\ ~ Begun(type, th[t])
      BY <2>1, <3>1, FreshIsNotMarked, WaitingIsMarked, WithinIsMarked DEF Begun
    <3>3. Rest(th[t]) # <<>>
      BY <2>1 DEF Rest
    <3> QED
      BY <2>1, <3>1, <3>2, <3>3
  <2>4. CASE type = "S" /\ SetS(th[t].todo, th[t].ch, hw, reg.sd2)
    <3>1. /\ hw.N = th[t].ch /\ hw.sd1 = th[t].ch /\ hw.sd2 = th[t].ch
          /\ Up("S", hw) /\ hw.agc = "auto" /\ hw.id = th[t].ch
      BY <2>1, <2>4 DEF SetS
    <3> QED
      BY <2>4, <3>1 DEF TunedTo, Awake, Up
  <2>5. CASE type = "T" /\ SetT(th[t].todo, th[t].ch, hw)
    <3>1. hw.rf1 = th[t].ch /\ hw.rf2 = th[t].ch /\ Up("T", hw) /\ hw.agc = "auto"
      BY <2>1, <2>5 DEF SetT
    <3> QED
      BY <2>5, <3>1 DEF TunedTo, Awake, Up
  <2> QED
    BY <2>2, <2>3, <2>4, <2>5, Zenon DEF Place
<1> QED
  BY <1>1, <1>2, <1>3, PTL DEF Spec
=============================================================================
