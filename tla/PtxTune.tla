------------------------------ MODULE PtxTune ------------------------------
(***************************************************************************)
(* The sysctls of a PT1/PT2 that change something: freq tunes one stream,  *)
(* down to the transfers on the I2C bus, lnb switches the supply of the    *)
(* antenna, and so does that of a PT3, in another order (what its freq     *)
(* does is Pt3Channel).  Threads are only kept apart for the length of a   *)
(* transfer (i2c_progress, see PtxI2c), a single step here: any two calls  *)
(* may overlap.                                                            *)
(*                                                                         *)
(* What a call still has to do is a sequence of steps, made by the         *)
(* operators named after the functions of the code: writes, polls and      *)
(* reads, and what is done in the memory of the driver.  No transfer says  *)
(* whether it failed: a write may be lost and a read may return what an    *)
(* earlier one left in the result register.  Reads whose answer only ends  *)
(* in the tables of the caller (agc, slots, clock, carrier) are left out.  *)
(* So are tunings to channels the tables do not have, which end with       *)
(* EINVAL before the first transfer, and to slots there are not: SetFreq   *)
(* takes whatever is behind the eight identifiers for theirs.              *)
(***************************************************************************)
EXTENDS Integers, Sequences, SequencesExt

CONSTANTS
    Threads,        \* that call the driver
    Slots,          \* MAX_BS_TS_ID: streams of a transponder
    Asked,          \* bound: the slots that are asked for
    Tries,          \* bound: polls until a loop gives up
    MaxTunings,     \* bound: tunings, each to a channel of its own
    MaxSwitches,    \* bound: calls of the lnb sysctl
    MaxErrors       \* bound: transfers that fail

ASSUME PtxTuneAssumption ==
    /\ Slots \in Nat \ {0} /\ Slots % 2 = 0 /\ Asked \subseteq 0 .. Slots - 1 /\ Tries \in Nat \ {0}
    /\ MaxTunings \in Nat /\ MaxSwitches \in Nat /\ MaxErrors \in Nat

VARIABLES
    type,           \* of the stream, "S" or "T", for good
    cardtype,       \* "PT1", "PT2" or "PT3", for good
    freq,           \* s->freq: channel and slot asked for last
    lnb,            \* scp->lnb
    hw,             \* the registers and the demodulator of the stream's tuner
    pins,           \* the pins driven high at CFG_REGS_ADDR
    th,             \* the threads' calls
    tunings, switches, errors,  \* bounds
    clean,          \* history: of a tuning that none of its transfers failed,
                    \* and no other thread changed anything meanwhile
    mixed, agreed   \* history: switchings overlap; the last one did not

driver == <<freq, lnb>>
history == <<mixed, agreed>>
counts == <<tunings, switches, errors>>
tuneVars == <<type, cardtype, driver, hw, pins, th, counts, clean, history>>

Channels == 0 .. MaxTunings
NoTsId   == 65535   \* there is no stream in this slot

(* What transponder c sends: nothing in the last slot. *)
TsId(c, slot) == IF slot = Slots - 1 THEN NoTsId ELSE 16 * c + slot

-----------------------------------------------------------------------------
(* Steps.                                                                    *)

WriteReg(r, v)   == [do |-> "write", reg |-> r, val |-> v]
(* A poll that is given up ends the call, or only itself.                    *)
Poll(what, v) == [do |-> what, reg |-> "ends", val |-> v]
Seek(what, v) == [do |-> what, reg |-> "goes_on", val |-> v]
Local(what)   == [do |-> what, reg |-> "none", val |-> 0]

ts_lock(id) == <<WriteReg("ts_set", id), Poll("ts_lock", id)>>

(* Mutant: the demodulator is not told to begin anew. *)
BsNoRestart(c) ==
    <<WriteReg("pll1", c), WriteReg("pll2", c), WriteReg("pll3", c),
      Poll("pll_lock", 0), Poll("tmcc", 0)>>

bs_frequency(c) ==
    <<WriteReg("pll1", c), WriteReg("pll2", c), WriteReg("pll3", c),
      Poll("pll_lock", 0), WriteReg("restart", 0), Poll("tmcc", 0)>>

(* Then the identifiers, two at a time, and each is tried. *)
bs_tune(c) ==
    bs_frequency(c)
    \o [i \in 1 .. Slots \div 2 |-> Seek("ts_id", 2 * i - 2)]
    \o <<Local("try")>>

isdb_t_frequency(f) ==
    <<WriteReg("pll1", f), Poll("pll_lock", 0), WriteReg("restart", 0), Poll("tmcc", 0)>>

SetFreq(f) ==
    IF type = "S" THEN bs_tune(f.no) \o <<[Local("lock") EXCEPT !.val = f.slot]>>
    ELSE isdb_t_frequency(f)

-----------------------------------------------------------------------------
(* The pins that feed the tuners and the antenna.                            *)

LnbPins(v) == CASE v = 0 -> {} [] v = 1 -> {"LNB_DOWN"} [] v = 2 -> {"LNB_UP", "LNB_DOWN"}

(* On a PT3 the tuners are not fed from the register that feeds the antenna. *)
TunerPins(card) ==
    CASE card = "PT1" -> {"TUNER", "RESET"}
      [] card = "PT2" -> {"TUNER", "RESET", "33A1", "33A2", "5A_", "5A1", "5A2"}
      [] card = "PT3" -> {}

(* Mutant: the antenna is fed, and nothing else. *)
ResetLnbOnly(v) == LnbPins(v)

(* With TUNER_POWER_ON_RESET_DISABLE, as after attach; LNB_SETTINGS. *)
settuner_reset(v) == LnbPins(v) \cup TunerPins(cardtype)

-----------------------------------------------------------------------------
(* The tuner and its demodulator (external).                                 *)

(* The synthesizer's channel, if its registers agree; a terrestrial one has  *)
(* only one (see isdb_t_frequency).                                          *)
AtChannel(c) == hw.pll1 = c /\ (type = "S" => hw.pll2 = c /\ hw.pll3 = c)

Frequencies == IF type = "S" THEN Channels ELSE [no : Channels, slot : 0 .. Slots - 1]

(* The channel whose signal the demodulator has, if it has one. *)
Signal == IF hw.valid THEN {hw.tmcc} ELSE {}

NoCall == [call |-> "none", todo |-> <<>>, n |-> 0, ask |-> [no |-> 0, slot |-> 0],
         ids |-> [i \in 0 .. Slots - 1 |-> 0]]

(* Attach has reset the tuners; they are at no channel. *)
TuneInit ==
    /\ type \in {"S", "T"} /\ cardtype \in {"PT1", "PT2", "PT3"}
    /\ freq = [no |-> 0, slot |-> 0] /\ lnb = 0
    /\ LET rest == IF type = "S" THEN 0 ELSE freq
       IN  hw = [pll1 |-> rest, pll2 |-> 0, pll3 |-> 0, tmcc |-> rest,
                 valid |-> FALSE, ts_set |-> 0, ts |-> 0]
    /\ pins = LnbPins(0) \cup TunerPins(cardtype)
    /\ th = [t \in Threads |-> NoCall]
    /\ errors = 0
    (* The two sysctls share nothing but the bus: a behaviour has the one, for *)
    (* which the card makes no difference, or the other.                       *)
    /\ \/ tunings = 0 /\ switches = MaxSwitches /\ cardtype = "PT1"
       \/ tunings = MaxTunings /\ switches = 0 /\ type = "S"
    /\ clean = [t \in Threads |-> TRUE] /\ mixed = FALSE /\ agreed = TRUE

(* The demodulator notices what the synthesizer is at. *)
Follow ==
    \E c \in Frequencies :
        /\ AtChannel(c) /\ ~ (hw.valid /\ hw.tmcc = c)
        /\ hw' = [hw EXCEPT !.tmcc = c, !.valid = TRUE]

(* The stream set comes into force, if there is one in the signal. *)
Switch ==
    /\ hw.valid /\ hw.ts # hw.ts_set
    /\ \E slot \in 0 .. Slots - 2 : hw.ts_set = TsId(hw.tmcc, slot)
    /\ hw' = [hw EXCEPT !.ts = hw.ts_set]

Demodulate ==
    /\ Follow \/ (type = "S" /\ Switch)
    /\ UNCHANGED <<type, cardtype, driver, pins, th, counts, clean, history>>

-----------------------------------------------------------------------------
(* Calls.                                                                    *)

Busy(t) == th[t].call # "none"

Go(t, ops) == th' = [th EXCEPT ![t].todo = ops]

(* A tuning of t did not go well, or t changed what another relies on. *)
Watch(t, well) ==
    clean' = [u \in Threads |->
        \/ th[u].call # "tune"
        \/ clean[u] /\ (IF u = t THEN well ELSE freq' = freq /\ hw' = hw)]

(* sysctl_freq, by anyone. *)
Tune(t) ==
    /\ ~ Busy(t) /\ tunings < MaxTunings
    /\ tunings' = tunings + 1
    /\ \E slot \in Asked : freq' = [no |-> tunings', slot |-> slot]
    /\ th' = [th EXCEPT ![t] =
                [NoCall EXCEPT !.call = "tune", !.ask = freq', !.todo = <<Local("split")>>]]
    /\ Watch(t, TRUE)
    /\ UNCHANGED <<type, cardtype, lnb, hw, pins, switches, errors, history>>

(* sysctl_lnb; val may be no supply there is. *)
SwitchLnb(t) ==
    /\ ~ Busy(t) /\ switches < MaxSwitches
    /\ switches' = switches + 1
    /\ \E val \in 0 .. 3 :
          th' = [th EXCEPT ![t] = [NoCall EXCEPT !.call = "lnb",
                                    !.todo = <<[Local("lnb?") EXCEPT !.val = val]>>]]
    /\ UNCHANGED <<type, cardtype, driver, hw, pins, tunings, errors, clean, history>>

Return(t) ==
    /\ Busy(t) /\ th[t].todo = <<>>
    /\ th' = [th EXCEPT ![t] = NoCall]
    /\ clean' = [clean EXCEPT ![t] = TRUE]
    /\ UNCHANGED <<type, cardtype, driver, hw, pins, counts, history>>

-----------------------------------------------------------------------------
(* sysctl_lnb: a value that is there already is passed over; else the pins   *)
(* are set, and then the value, on a PT3 the value and then the pins         *)
(* (set_lnb).                                                                *)

Switchers ==
    {u \in Threads : \E i \in DOMAIN th[u].todo : th[u].todo[i].do \in {"pins", "set_lnb"}}

SetBoth(op) ==
    LET pins_ == [op EXCEPT !.do = "pins"]
        lnb_  == [op EXCEPT !.do = "set_lnb"]
    IN  IF cardtype = "PT3" THEN <<lnb_, pins_>> ELSE <<pins_, lnb_>>

TestLnb(t, op) ==
    /\ op.do = "lnb?"
    /\ IF op.val # lnb /\ op.val <= 2
       THEN /\ Go(t, SetBoth(op))
            /\ mixed' = (Switchers # {}) /\ agreed' = FALSE
       ELSE Go(t, <<>>) /\ UNCHANGED history
    /\ UNCHANGED <<lnb, pins>>

SetOne(t, op) ==
    /\ \/ op.do = "pins"    /\ pins' = settuner_reset(op.val) /\ UNCHANGED lnb
       \/ op.do = "set_lnb" /\ lnb' = op.val /\ UNCHANGED pins
    /\ Go(t, Tail(th[t].todo))
    /\ agreed' = (Len(th[t].todo) = 1 /\ Switchers = {t} /\ ~ mixed)
    /\ UNCHANGED mixed

ChangeLnb(t) ==
    /\ th[t].todo # <<>>
    /\ LET op == Head(th[t].todo) IN TestLnb(t, op) \/ SetOne(t, op)
    /\ UNCHANGED <<type, cardtype, freq, hw, counts, clean>>

-----------------------------------------------------------------------------
(* A tuning.                                                                 *)

(* Every identifier is tried, whatever becomes of it. *)
Trials(t) ==
    FlattenSeq([i \in 1 .. Slots |->
        LET id == th[t].ids[i - 1]
        IN  IF id = NoTsId THEN <<>>
            ELSE <<WriteReg("ts_set", id), Seek("ts_lock", id)>>])

(* It takes what s->freq holds by now; it tries the identifiers it has read; *)
(* it locks the one in the slot.                                             *)
Think(t) ==
    /\ th[t].todo # <<>>
    /\ LET op   == Head(th[t].todo)
           rest == Tail(th[t].todo)
       IN  \/ op.do = "split" /\ Go(t, SetFreq(freq) \o rest)
           \/ op.do = "try"   /\ Go(t, Trials(t) \o rest)
           \/ op.do = "lock" /\ Go(t, ts_lock(th[t].ids[op.val]) \o rest)
    /\ UNCHANGED <<type, cardtype, driver, hw, pins, counts, clean, history>>

Transferred(t, new, well) ==
    /\ th' = [th EXCEPT ![t] = new]
    /\ UNCHANGED <<type, cardtype, driver, pins, tunings, switches, history>>
    /\ Watch(t, well)

Onward(t) == [th[t] EXCEPT !.todo = Tail(@), !.n = 0]

Again(t, op) ==
    IF th[t].n + 1 < Tries THEN [th[t] EXCEPT !.n = @ + 1]
    ELSE IF op.reg = "ends" THEN [th[t] EXCEPT !.todo = <<>>, !.n = 0]
    ELSE Onward(t)

(* Of a poll that may be given up for good. *)
GoesOn(t, op) == Again(t, op).todo # <<>>

(* A write arrives, or it does not. *)
Arrive(t, op) ==
    /\ op.do = "write"
    /\ hw' = IF op.reg = "restart" THEN [hw EXCEPT !.valid = FALSE]
             ELSE [hw EXCEPT ![op.reg] = op.val]
    /\ UNCHANGED errors
    /\ Transferred(t, Onward(t), TRUE)

Lose(t, op) ==
    /\ op.do = "write" /\ errors < MaxErrors /\ errors' = errors + 1
    /\ UNCHANGED hw
    /\ Transferred(t, Onward(t), FALSE)

(* What polls wait for: synthesizer, signal, stream in force. *)
Answer(op) ==
    CASE op.do = "pll_lock" -> \E c \in Frequencies : AtChannel(c)
      [] op.do = "tmcc"     -> hw.valid
      [] op.do = "ts_lock"  -> hw.ts = op.val

Ask(t, op) ==
    /\ op.do \in {"pll_lock", "tmcc", "ts_lock"}
    /\ UNCHANGED <<hw, errors>>
    /\ \/ Answer(op) /\ Transferred(t, Onward(t), TRUE)
       \/ /\ op.do = "ts_lock" => ~ Answer(op)
          /\ Transferred(t, Again(t, op), GoesOn(t, op))

Misread(t, op) ==
    /\ op.do \in {"pll_lock", "tmcc", "ts_lock"} /\ errors < MaxErrors
    /\ errors' = errors + 1 /\ UNCHANGED hw
    /\ \E new \in {Onward(t), Again(t, op)} : Transferred(t, new, FALSE)

(* Two identifiers, 0 until the demodulator has them; with only one of them  *)
(* the answer is a misreading.  With both it goes on, and after the last try *)
(* with what it has.                                                         *)
TakeIds(t, op, pair) ==
    LET got == [th[t] EXCEPT !.ids[op.val] = pair[1], !.ids[op.val + 1] = pair[2]]
    IN  IF 0 \notin {pair[1], pair[2]} THEN [got EXCEPT !.todo = Tail(@), !.n = 0]
        ELSE [got EXCEPT !.todo = Again(t, op).todo, !.n = Again(t, op).n]

Both(c, slot) == <<TsId(c, slot), TsId(c, slot + 1)>>

ReadIds(t, op) ==
    /\ op.do = "ts_id"
    /\ UNCHANGED <<hw, errors>>
    /\ \E pair \in {<<0, 0>>} \cup {Both(c, op.val) : c \in Signal} :
          Transferred(t, TakeIds(t, op, pair), TRUE)

MisreadIds(t, op) ==
    /\ op.do = "ts_id" /\ errors < MaxErrors
    /\ errors' = errors + 1 /\ UNCHANGED hw
    /\ \E pair \in {0, TsId(0, 0)} \X {NoTsId, TsId(0, 0)} :
          Transferred(t, TakeIds(t, op, pair), FALSE)

Transfer(t) ==
    /\ th[t].todo # <<>>
    /\ LET op == Head(th[t].todo)
       IN  \/ Arrive(t, op)  \/ Lose(t, op)
           \/ Ask(t, op)     \/ Misread(t, op)
           \/ ReadIds(t, op) \/ MisreadIds(t, op)

TuneNext ==
    \/ \E t \in Threads :
          Tune(t) \/ SwitchLnb(t) \/ Return(t) \/ ChangeLnb(t) \/ Think(t) \/ Transfer(t)
    \/ Demodulate

TuneSpec == TuneInit /\ [][TuneNext]_tuneVars

-----------------------------------------------------------------------------
(* A tuning that ends well, with no transfer failed and no other thread      *)
(* changing anything meanwhile, leaves the tuner at the channel asked for,   *)
(* and a satellite one at the stream that this channel has in the slot asked *)
(* for, if the demodulator told it in time; whatever was tried on the way    *)
(* and whatever calls came before, overlapping or failed (sysctl_freq,       *)
(* SetFreq, bs_tune).                                                        *)
TunedAsAsked ==
    \A t \in Threads :
        th[t].call = "tune" /\ th[t].todo = <<>> /\ clean[t] =>
            LET f == th[t].ask
            IN  /\ AtChannel(IF type = "S" THEN f.no ELSE f)
                /\ type = "S" /\ th[t].ids[f.slot] # 0 =>
                                 /\ hw.ts = TsId(f.no, f.slot)
                                 /\ hw.ts_set = hw.ts

(* Switching the antenna leaves the tuners powered and out of reset, and     *)
(* when the last switching overlapped no other the antenna has the supply    *)
(* that sysctl_lnb reports, and that it would pass over if asked for         *)
(* (sysctl_lnb, settuner_reset, set_lnb).                                    *)
LnbAgrees ==
    /\ TunerPins(cardtype) \subseteq pins
    /\ agreed => pins = LnbPins(lnb) \cup TunerPins(cardtype)
=============================================================================
