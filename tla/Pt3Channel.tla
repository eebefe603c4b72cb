----------------------------- MODULE Pt3Channel -----------------------------
(***************************************************************************)
(* One channel of a PT3: open, close and the tuning sysctl, down to the    *)
(* transfers on the I2C bus that put its demodulator and its tuner to      *)
(* sleep, wake them and tune them.  Threads are only kept apart for the    *)
(* length of one transfer (i2c_progress, see Pt3Program), a single step    *)
(* here: any two of these calls may overlap.                               *)
(*                                                                         *)
(* What a call still has to do is a sequence of steps, made by the         *)
(* operators named after the functions of the code.  A step is a transfer  *)
(* ("write" or one of the polls) or something done in the memory of the    *)
(* driver; a transfer that fails drops the steps that follow it in the     *)
(* function that gives up, none if the error is ignored.                   *)
(*                                                                         *)
(* A register of the model is all the registers of a chip one value is     *)
(* spread over, where the code writes them one right after the other, in   *)
(* one transfer or in several (agc: four or three; N: bands, N and A; sd1, *)
(* sd2: several each).  A failure among them, or another thread's transfer *)
(* between them, counts as one before them; the status of the one that     *)
(* writes the band, which the code overwrites, as looked at.               *)
(***************************************************************************)
EXTENDS Integers, Sequences, FiniteSets

CONSTANTS
    Threads,        \* that call the driver
    Channels,       \* bound: channels, each asked for once
    Tries,          \* bound: polls until a loop gives up
    MaxCalls,       \* bound: calls in all
    MaxErrors,      \* bound: transfers that fail
    None

ASSUME Pt3ChannelAssumption ==
    Channels \in Nat /\ Tries \in Nat \ {0} /\ MaxCalls \in Nat /\ MaxErrors \in Nat /\ None \notin Threads

VARIABLES
    type,           \* "S" or "T", for good
    valid,          \* the thread that has the channel open, or None
    issleep,        \* the driver's idea of it
    sfreq,          \* channel->freq: what was asked for last
    standby, reg,   \* the driver's copies of the tuner's registers (pt3_qm.c)
    mxfreq,         \* the same of pt3_mx.c
    hw,             \* the registers of demodulator and tuner
    signal,         \* of the terrestrial demodulator
    th,             \* the threads' calls
    calls, errors,  \* bounds
    clean,          \* history: of a tuning that nothing failed in it, and no
                    \* other thread changed anything meanwhile
    mixed, agreed,  \* history: sleep commands overlapped or failed; the last
                    \* one neither overlapped nor failed
    crossed         \* history: the open began while a close was on its way

driver == <<issleep, sfreq, standby, reg, mxfreq>>
shared == <<driver, hw>>
history == <<mixed, agreed>>
vars == <<type, valid, shared, signal, th, calls, errors,
          clean, history, crossed>>

-----------------------------------------------------------------------------
(* Steps.                                                                    *)

All == 100      \* the whole of what is left is given up

Write(r, v, drop) == [do |-> "write", reg |-> r, val |-> v, drop |-> drop]
Poll(what, drop)  == [do |-> what, reg |-> None, val |-> None, drop |-> drop]
Local(what, v)    == [do |-> what, reg |-> None, val |-> v, drop |-> 0]

(* A register is written with the driver's copy of it. *)
Copy(r, drop)     == [do |-> "copy", reg |-> r, val |-> None, drop |-> drop]

set_agc(v) == <<Write("agc", v, All)>>

(* Mutant: the mode is taken before it is set. *)
QmSleepLate(sleep) ==
    IF sleep THEN set_agc("manual") \o
                  <<Local("mode", None), Local("standby", sleep), Write("demod", sleep, 0)>>
    ELSE <<Write("demod", sleep, 0), Local("mode", None), Local("standby", sleep)>>

pt3_qm_set_sleep(sleep) ==
    <<Local("standby", sleep)>> \o
    IF sleep THEN set_agc("manual") \o <<Local("mode", None), Write("demod", sleep, 0)>>
    ELSE <<Write("demod", sleep, 0), Local("mode", None)>>

(* qm_set_sleep_mode: which registers, in which order, is seen when it runs. *)
(* The second is copied after the first was written.                         *)
SleepMode ==
    IF standby THEN <<Write("r05", standby, 1), Copy("r01", 0)>>
    ELSE <<Write("r01", standby, 1), Copy("r05", 0)>>

(* Mutant: the second write, which starts the search, is forgotten. *)
RftuneHalf(channel) == <<Write("rf1", channel, 0)>>

rftune(channel) == <<Write("rf1", channel, 0), Write("rf2", channel, 0)>>

pt3_mx_set_sleep(sleep) ==
    IF sleep THEN set_agc("manual") \o <<Write("r01", sleep, 0), Write("demod", sleep, 0)>>
    ELSE <<Write("demod", sleep, 0), Write("r01", sleep, 0), Local("wakeup", None)>>

set_tuner_sleep(sleep) ==
    <<Local("issleep", sleep)>>
    \o (IF type = "S" THEN pt3_qm_set_sleep(sleep) ELSE pt3_mx_set_sleep(sleep))
    \o <<Local("slept", None)>>

(* Three registers take the channel; the search is started, and watched. *)
pt3_qm_set_frequency(channel) ==
    set_agc("manual")
    \o <<Write("N", channel, All), Local("sd", channel), Write("sd1", channel, All),
         Copy("sd2", All)>>
    \o <<Poll("locked", All)>> \o set_agc("auto")

pt3_mx_set_frequency(channel) ==
    set_agc("manual") \o <<Local("mxfreq", channel)>> \o rftune(channel)
    \o <<Poll("locked", 0)>> \o set_agc("auto")

SetChannel(channel) ==
    IF type = "S"
    THEN pt3_qm_set_frequency(channel) \o
         <<Poll("tmcc_s", 0)>>
    ELSE pt3_mx_set_frequency(channel) \o <<Poll("tmcc_t", 0)>>

-----------------------------------------------------------------------------
(* The chips.                                                                *)

Asleep == hw.demod /\ hw.r01 /\ (type = "S" => hw.r05)
Awake  == ~ hw.demod /\ ~ hw.r01 /\ (type = "S" => ~ hw.r05)

(* The channel the tuner is at, if its registers agree. *)
TunedTo(channel) ==
    IF type = "S" THEN hw.N = channel /\ hw.sd1 = channel /\ hw.sd2 = channel
    ELSE hw.rf1 = channel /\ hw.rf2 = channel

Idle == [call |-> "none", todo |-> <<>>, n |-> 0, ch |-> None]

(* Tuners rest, at a channel 0 that init_all_tuner chose. *)
Init ==
    /\ type \in {"S", "T"}
    /\ valid = None /\ issleep = TRUE /\ sfreq = 0 /\ standby = TRUE
    /\ reg = [r01 |-> TRUE, r05 |-> TRUE, sd2 |-> 0]
    /\ mxfreq = 0
    /\ hw = [demod |-> TRUE, r01 |-> TRUE, r05 |-> TRUE, agc |-> "manual", id |-> 0,
             N |-> 0, sd1 |-> 0, sd2 |-> 0, rf1 |-> 0, rf2 |-> 0]
    /\ signal = "searching"
    /\ th = [t \in Threads |-> Idle]
    /\ calls = 0 /\ errors = 0
    /\ clean = [t \in Threads |-> TRUE] /\ mixed = FALSE /\ agreed = TRUE
    /\ crossed = FALSE

-----------------------------------------------------------------------------
(* Calls.                                                                    *)

Head1(t) == Head(th[t].todo)

Busy(t) == th[t].call # "none"

(* Thread t goes on with these steps. *)
Go(t, ops) == th' = [th EXCEPT ![t].todo = ops]

(* A tuning of thread t or of another has met something it need not survive: *)
(* t did not succeed, or changed what the other relies on.                   *)
Watch(t, well) ==
    clean' = [u \in Threads |->
        \/ th[u].call # "tune"
        \/ clean[u] /\ IF u = t THEN well ELSE shared' = shared]

Call(t, call, ops, channel) ==
    /\ ~ Busy(t) /\ calls < MaxCalls /\ calls' = calls + 1
    /\ th' = [th EXCEPT ![t] =
                [Idle EXCEPT !.call = call, !.todo = ops, !.ch = channel]]
    /\ Watch(t, TRUE)
    /\ UNCHANGED <<type, signal, errors, history>>

(* pt3open: only one that finds the channel free does anything. *)
Open(t) ==
    /\ valid = None /\ valid' = t
    /\ crossed' = \E u \in Threads : th[u].call = "close"
    /\ UNCHANGED shared
    /\ Call(t, "open", <<Local("wake?", None)>>, None)

(* pt3close: the channel is free again before the tuner sleeps. *)
Close(t) ==
    /\ valid = t /\ valid' = None
    /\ UNCHANGED <<shared, crossed>>
    /\ Call(t, "close", set_tuner_sleep(TRUE), None)

(* sysctl_freq, by anyone, whether the channel is open or not.  Tuning n     *)
(* asks for channel n.                                                       *)
Tune(t) ==
    /\ sfreq < Channels
    /\ sfreq' = sfreq + 1
    /\ UNCHANGED <<valid, issleep, standby, reg, mxfreq, hw, crossed>>
    /\ Call(t, "tune", <<Local("wake?", None), Local("frequency", None)>>, sfreq')

Return(t) ==
    /\ Busy(t) /\ th[t].todo = <<>>
    /\ th' = [th EXCEPT ![t] = Idle]
    /\ clean' = [clean EXCEPT ![t] = TRUE]
    /\ UNCHANGED <<type, valid, shared, signal, calls, errors,
                   history, crossed>>

-----------------------------------------------------------------------------
(* What a call does in the memory of the driver.                             *)

(* Threads inside set_tuner_sleep. *)
Sleepers == {u \in Threads : \E i \in DOMAIN th[u].todo : th[u].todo[i].do = "slept"}

(* set_tuner_sleep begins; every step of it comes later. *)
BeginSleep(t, op) ==
    /\ op.do = "issleep"
    /\ issleep' = op.val
    /\ mixed' = (Sleepers # {t}) /\ agreed' = FALSE
    /\ Go(t, Tail(th[t].todo))
    /\ UNCHANGED <<sfreq, standby, reg, mxfreq>>

EndSleep(t, op) ==
    /\ op.do = "slept"
    /\ agreed' = (Sleepers = {t} /\ ~ mixed) /\ mixed' = mixed
    /\ Go(t, Tail(th[t].todo))
    /\ UNCHANGED driver

(* Copies of registers are set, or looked at. *)
SetCopies(t, op) ==
    /\ \/ op.do = "standby" /\ standby' = op.val /\ UNCHANGED <<reg, mxfreq>>
       \/ op.do = "sd" /\ reg' = [reg EXCEPT !.sd2 = op.val]
                       /\ UNCHANGED <<standby, mxfreq>>
       \/ op.do = "mxfreq" /\ mxfreq' = op.val /\ UNCHANGED <<standby, reg>>
    /\ Go(t, Tail(th[t].todo))
    /\ UNCHANGED <<issleep, sfreq, history>>

(* Mutant: the state is taken for its contrary. *)
MustSleep == ~ issleep

(* pt3open and sysctl_freq: a sleeping tuner is woken. *)
MustWake == issleep

(* What is to be done next depends on the state now. *)
Branch(t, op) ==
    LET rest == Tail(th[t].todo)
    IN  /\ \/ op.do = "wake?" /\ UNCHANGED reg
              /\ Go(t, (IF MustWake THEN set_tuner_sleep(FALSE) ELSE <<>>) \o rest)
           \/ op.do = "frequency" /\ UNCHANGED reg
              /\ Go(t, SetChannel(sfreq) \o rest)
           \/ op.do = "mode"
              /\ reg' = [reg EXCEPT !.r01 = standby, !.r05 = standby]
              /\ Go(t, SleepMode \o rest)
           \/ op.do = "wakeup" /\ UNCHANGED reg
              /\ Go(t, rftune(mxfreq) \o rest)
           \/ op.do = "copy" /\ UNCHANGED reg
              /\ Go(t, <<Write(op.reg, reg[op.reg], op.drop)>> \o rest)
        /\ UNCHANGED <<issleep, sfreq, standby, mxfreq, history>>

Think(t) ==
    /\ th[t].todo # <<>>
    /\ \/ BeginSleep(t, Head1(t)) \/ EndSleep(t, Head1(t))
       \/ SetCopies(t, Head1(t))  \/ Branch(t, Head1(t))
    /\ UNCHANGED <<type, valid, hw, signal, calls, errors, crossed>>
    /\ Watch(t, TRUE)

-----------------------------------------------------------------------------
(* Transfers, one at a time (pt3_i2c_run, Pt3Program).                       *)

(* Thread t has made its transfer. *)
Transferred(t, new, well) ==
    /\ th' = [th EXCEPT ![t] = new]
    /\ UNCHANGED <<type, valid, driver, calls, crossed>>
    /\ Watch(t, well)

(* It goes on, tries again, gives the function up, with a status. *)
Done(t)     == [th[t] EXCEPT !.todo = Tail(@), !.n = 0]
Drop(t, op) == [th[t] EXCEPT !.todo = SubSeq(@, 2 + op.drop, Len(@)), !.n = 0]
GiveUp(t)   == [th[t] EXCEPT !.todo = <<>>]
Retry(t)    == IF th[t].n + 1 < Tries THEN [th[t] EXCEPT !.n = @ + 1] ELSE GiveUp(t)
Again(t)    == Transferred(t, Retry(t), th[t].n + 1 < Tries)

(* A write arrives.  The terrestrial demodulator searches anew when its gain *)
(* control is set.                                                           *)
Arrive(t, op) ==
    /\ op.do = "write"
    /\ hw' = [hw EXCEPT ![op.reg] = op.val]
    /\ signal' = IF op.reg = "agc" THEN "searching" ELSE signal
    /\ UNCHANGED <<errors, history>>
    /\ Transferred(t, Done(t), TRUE)

(* It does not. *)
Fail(t, op) ==
    /\ op.do = "write" /\ errors < MaxErrors
    /\ errors' = errors + 1
    /\ mixed' = (mixed \/ t \in Sleepers) /\ agreed' = agreed
    /\ UNCHANGED <<hw, signal>>
    /\ Transferred(t, Drop(t, op), FALSE)

(* Is the synthesizer locked?  Not when it is asleep. *)
PollLocked(t, op) ==
    /\ op.do = "locked"
    /\ UNCHANGED <<hw, signal, errors, history>>
    /\ \/ Awake /\ Transferred(t, Done(t), TRUE)
       \/ Again(t)

(* get_tmcc_s: the identifiers of the channel the tuner is at. *)
PollTmccS(t, op) ==
    /\ op.do = "tmcc_s"
    /\ UNCHANGED <<hw, signal, errors, history>>
    /\ \/ \E c \in 0 .. Channels :
             /\ TunedTo(c) /\ Awake
             /\ Transferred(t, [Done(t) EXCEPT !.todo =
                                <<Write("id", c, All), [Poll("get_id", All) EXCEPT !.val = c]>> \o @], TRUE)
       \/ Again(t)

(* get_id_s: the identifier in force, sooner or later the one written. *)
PollId(t, op) ==
    /\ op.do = "get_id"
    /\ UNCHANGED <<hw, signal, errors, history>>
    /\ \/ hw.id = op.val /\ Transferred(t, Done(t), TRUE)
       \/ Again(t)

(* Mutant: an overflow of the retries does not end the inner loop. *)
ForeverAgain(t) == Transferred(t, th[t], TRUE)

(* get_tmcc_t: with an answer the loop is left, and SetChannel's tries again *)
(* if it was a bad one; without one it goes on for ever.                     *)
AgainOuter(t) == Again(t)

PollTmccT(t, op) ==
    /\ op.do = "tmcc_t"
    /\ UNCHANGED <<hw, signal, errors, history>>
    /\ CASE signal = "locked"    -> Transferred(t, Done(t), TRUE)
         [] signal = "retryov"   -> AgainOuter(t)
         [] signal = "searching" -> Transferred(t, th[t], TRUE)

(* A poll fails.  Where the status is looked at the call ends or tries again; *)
(* elsewhere the answer is whatever the variable for it happened to hold.    *)
FailPoll(t, op) ==
    /\ op.do \in {"locked", "tmcc_s", "get_id", "tmcc_t"} /\ errors < MaxErrors
    /\ errors' = errors + 1
    /\ UNCHANGED <<hw, signal, history>>
    /\ \E new \in CASE op.do = "get_id" -> {GiveUp(t)}
                     [] op.do = "tmcc_s" -> {Retry(t)}
                     [] op.do = "locked" ->
                            IF type = "S" THEN {GiveUp(t)} ELSE {Done(t), Retry(t)}
                     [] op.do = "tmcc_t" -> {Done(t), Retry(t), th[t]} :
          Transferred(t, new, FALSE)

Transfer(t) ==
    /\ th[t].todo # <<>>
    /\ \/ Arrive(t, Head1(t))     \/ Fail(t, Head1(t))
       \/ PollLocked(t, Head1(t)) \/ PollTmccS(t, Head1(t))
       \/ PollId(t, Head1(t))     \/ PollTmccT(t, Head1(t))
       \/ FailPoll(t, Head1(t))

(* The demodulator has found a signal or tried too often; whether it can     *)
(* while it is asleep is not known.                                          *)
Settle ==
    /\ type = "T" /\ signal = "searching"
    /\ signal' \in {"locked", "retryov"}
    /\ UNCHANGED <<type, valid, shared, th, calls, errors,
                   clean, history, crossed>>

Step(t) == Return(t) \/ Think(t) \/ Transfer(t)

Next ==
    \/ \E t \in Threads : Open(t) \/ Close(t) \/ Tune(t) \/ Step(t)
    \/ Settle

Spec == Init /\ [][Next]_vars

(* A thread goes on, and a demodulator that is awake answers at last. *)
FairSpec ==
    /\ Spec
    /\ \A t \in Threads : WF_vars(Step(t))
    /\ WF_vars(~ hw.demod /\ Settle)

-----------------------------------------------------------------------------
(* If the last command to sleep or to wake overlapped none and failed        *)
(* nowhere, whatever came before it, the saved state is that of both chips   *)
(* (set_tuner_sleep, pt3_qm_set_sleep, pt3_mx_set_sleep).                    *)
SleepStateIsTrue ==
    agreed => IF issleep THEN Asleep ELSE Awake

(* When no call is on its way, the tuner of an open channel is awake, unless *)
(* the open began before a close had come to its end, or a command failed or *)
(* overlapped another (pt3open, pt3close).                                   *)
OpenChannelIsAwake ==
    valid # None /\ ~ crossed /\ agreed /\ (\A t \in Threads : ~ Busy(t)) => Awake

(* A tuning that ends well with no failure, and no other thread changing     *)
(* anything meanwhile, leaves the channel it was asked for in every register *)
(* and the chips awake, whatever calls came before, overlapping or failed    *)
(* (sysctl_freq, SetChannel).                                                *)
TunedAsAsked ==
    \A t \in Threads :
        th[t].call = "tune" /\ th[t].todo = <<>> /\ clean[t] =>
            /\ TunedTo(th[t].ch) /\ Awake /\ hw.agc = "auto"
            /\ type = "S" => hw.id = th[t].ch

(* Thread t asks a terrestrial demodulator that was put to sleep for its     *)
(* signal.                                                                   *)
AsksASleeper(t) ==
    /\ th[t].todo # <<>> /\ Head1(t).do = "tmcc_t"
    /\ hw.demod

(* Every call returns: no thread waits for the bus and no poll goes on for   *)
(* ever, but the one without a bound, and that only while the demodulator it *)
(* asks is asleep, put there by a close in the middle of the tuning or not   *)
(* woken because a transfer failed.  When it is awake again that poll ends   *)
(* too (SetChannel, get_tmcc_t, set_tuner_sleep).                            *)
CallsReturn ==
    \A t \in Threads : Busy(t) ~> ~ Busy(t) \/ AsksASleeper(t)
=============================================================================
