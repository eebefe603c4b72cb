------------------------------ MODULE PtxWave ------------------------------
(***************************************************************************)
(* The waveforms blockwrite and blockread assemble for the I2C engine of a *)
(* PT1/PT2, and what a listener on the bus hears when the engine plays     *)
(* them.                                                                   *)
(*                                                                         *)
(* An instruction puts a level on each line and names its successor;       *)
(* data_en and clock pull their line low.  The instruction at address 0 is *)
(* the idle bus.  The operators of the first part assemble, as the code    *)
(* does, with the levels left by what came before; Frame, in the last      *)
(* part, is the protocol, stated without them.                             *)
(***************************************************************************)
EXTENDS Naturals, Sequences, SequencesExt

CONSTANTS
    Addresses,      \* slave addresses, of 7 bits
    Values,         \* what is sent: sequences of bytes
    Counts          \* bytes read: 0 is blockwrite

ASSUME PtxWaveAssumption ==
    /\ Addresses \subseteq 0 .. 127
    /\ Values \subseteq Seq(0 .. 255) /\ \A v \in Values : Len(v) <= 16
    /\ Counts \subseteq 0 .. 4

VARIABLES
    request,        \* WBLOCK and count of the transfer
    i2c_state,      \* "stop" before the first transfer, then "start"
    program,        \* the program, but for address 0
    pc, sda, scl,   \* the engine: address, levels on the lines
    heard,          \* what the listener heard
    first, moved    \* history: this is the first transfer; both lines moved
                    \* at once, when this much had been heard

waveVars == <<request, i2c_state, program, pc, sda, scl, heard, first, moved>>

-----------------------------------------------------------------------------
(* Assembly: the levels one after the other, the first at address 1.         *)

(* makei2c: the levels an instruction puts on the lines. *)
Put(data_en, clock) == [read |-> FALSE, sda |-> 1 - data_en, scl |-> 1 - clock]

begin_i2c == <<Put(0, 0)>>

(* Mutant: the clock is not raised before a repeated start. *)
StartWithoutClock(clock, data) == <<Put(1, 0)>>

(* With both lines high, pull data low. *)
start_i2c(clock, data) ==
    LET low  == IF data = 0 /\ ~ clock THEN <<Put(1, 1)>> ELSE <<>>
        free == IF data = 0 THEN <<Put(0, 1)>> ELSE <<>>
        up   == IF data = 0 \/ clock THEN <<Put(0, 0)>> ELSE <<>>
    IN  low \o free \o up \o <<Put(1, 0)>>

(* With data low and the clock high, let data go. *)
stop_i2c(clock, data) ==
    LET low  == IF data = 1 /\ ~ clock THEN <<Put(0, 1)>> ELSE <<>>
        pull == IF data = 1 THEN <<Put(1, 1)>> ELSE <<>>
        up   == IF data = 1 \/ clock THEN <<Put(1, 0)>> ELSE <<>>
    IN  low \o pull \o up \o <<Put(0, 0)>>

(* The clock falls, data takes its new level, the clock rises. *)
writebits(old, bit) == <<Put(1 - old, 1), Put(1 - bit, 1), Put(1 - bit, 0)>>

(* The bits one after the other, data having been old before the first. *)
WriteAll(old, bits) ==
    FlattenSeq([i \in DOMAIN bits |->
        writebits(IF i = 1 THEN old ELSE bits[i - 1], bits[i])])

(* Bit i of v, counted from the highest of n. *)
Bit(v, n, i) == (v \div 2 ^ (n - i)) % 2

Bits(v, n) == [i \in 1 .. n |-> Bit(v, n, i)]

(* The slave's address, the direction, and a slot for the answer. *)
Address(addr, direction) == WriteAll(0, Bits(addr, 7) \o <<direction, 1>>)

Clock == <<Put(0, 1)>>

(* What blockwrite and blockread have in common: the bytes are sent.  The    *)
(* first transfer wakes the bus up.                                          *)
Send(r) ==
    begin_i2c
    \o (IF i2c_state = "stop"
        THEN start_i2c(FALSE, 1) \o stop_i2c(FALSE, 0) ELSE <<>>)
    \o start_i2c(FALSE, 1) \o Address(r.addr, 0)
    \o FlattenSeq([i \in DOMAIN r.value |->
            WriteAll(1, Bits(r.value[i], 8) \o <<1>>)])
    \o Clock

blockwrite(r) == Send(r) \o stop_i2c(TRUE, 1)

(* A byte is read: eight clocks with data free, each followed by the         *)
(* instruction that has the level read, and an answer, low but for the last. *)
(* Data counts as high afterwards, whatever the answer was.                  *)
ReadByte(last) ==
    FlattenSeq([i \in 1 .. 8 |->
        Append(writebits(1, 1), [Put(0, 0) EXCEPT !.read = TRUE])])
    \o writebits(1, IF last THEN 1 ELSE 0)

blockread(r) ==
    Send(r) \o start_i2c(TRUE, 1) \o Address(r.addr, 1)
    \o FlattenSeq([i \in 1 .. r.count |-> ReadByte(i = r.count)])
    \o Clock \o stop_i2c(TRUE, 1)

(* Each instruction leads to the next, the last one to the idle bus. *)
Successor(i, n) == IF i = n THEN 0 ELSE i + 1

-----------------------------------------------------------------------------
(* The transfers, one after the other.                                       *)

Requests == [addr : Addresses, value : Values, count : Counts]

WaveInit ==
    /\ request \in Requests
    /\ i2c_state = "stop"
    /\ program = <<>>
    /\ pc = 0 /\ sda = 1 /\ scl = 1
    /\ heard = <<>> /\ first = TRUE /\ moved = {}

(* i2c_write or i2c_read: assemble and go. *)
Prepare ==
    /\ pc = 0 /\ program = <<>>
    /\ program' = IF request.count = 0 THEN blockwrite(request)
                                       ELSE blockread(request)
    /\ i2c_state' = "start"
    /\ pc' = 1
    /\ UNCHANGED <<request, sda, scl, heard, first, moved>>

(* A level as it is heard. *)
Level(b) == IF b = 1 THEN "high" ELSE "low"

(* The listener hears a start or a stop when data moves while the clock is   *)
(* high, and a bit when the clock rises; the engine notes the level when it  *)
(* is told to read.                                                          *)
Heard(i) ==
    IF scl = 1 /\ i.scl = 1 /\ sda # i.sda
      THEN <<IF i.sda = 0 THEN "start" ELSE "stop">>
    ELSE IF scl = 0 /\ i.scl = 1 THEN <<Level(i.sda)>>
    ELSE IF i.read THEN <<"read">> ELSE <<>>

(* The engine plays the instruction at pc. *)
PlayNext ==
    /\ pc # 0
    /\ LET i == program[pc]
       IN  /\ sda' = i.sda /\ scl' = i.scl
           /\ heard' = heard \o Heard(i)
           /\ moved' = IF sda # i.sda /\ scl # i.scl
                       THEN moved \cup {Len(heard)} ELSE moved
           /\ pc' = Successor(pc, Len(program))
    /\ UNCHANGED <<request, i2c_state, program, first>>

(* The bus is idle again, and another request comes. *)
Done ==
    /\ pc = 0 /\ program # <<>>
    /\ request' \in Requests
    /\ program' = <<>> /\ heard' = <<>> /\ first' = FALSE /\ moved' = {}
    /\ UNCHANGED <<i2c_state, pc, sda, scl>>

WaveNext == Prepare \/ PlayNext \/ Done

WaveSpec == WaveInit /\ [][WaveNext]_waveVars

-----------------------------------------------------------------------------
(* What ought to be heard.                                                   *)

Levels(bits) == [i \in DOMAIN bits |-> Level(bits[i])]

Written(addr, value) ==
    <<"start">> \o Levels(Bits(addr, 7) \o <<0, 1>>)
    \o FlattenSeq([i \in DOMAIN value |-> Levels(Bits(value[i], 8) \o <<1>>)])

(* A byte read: free lines, each level noted, and the acknowledge. *)
Received(last) ==
    FlattenSeq([i \in 1 .. 8 |-> <<"high", "read">>])
    \o <<IF last THEN "high" ELSE "low">>

(* The frame of the I2C protocol.  Before the stop the clock rises once more *)
(* with data low, and before a repeated start with data free: an extra bit   *)
(* that belongs to no byte.                                                  *)
Frame(r) ==
    Written(r.addr, r.value)
    \o (IF r.count = 0 THEN <<>>
        ELSE <<"high", "start">> \o Levels(Bits(r.addr, 7) \o <<1, 1>>)
             \o FlattenSeq([i \in 1 .. r.count |-> Received(i = r.count)]))
    \o <<"low", "stop">>

(* The bus wakes up with an empty frame the first time. *)
Wakeup == <<"start", "stop">>

(* Data and clock never move at once, which a slave might take for a start   *)
(* or a stop; but where blockread lets data go after an acknowledge between  *)
(* two bytes (old_bits is set to 1 after a 0 was written, ptx_iic.c).        *)
LinesMoveOneAtATime ==
    \A n \in moved : n > 1 /\ heard[n] = "low" /\ heard[n - 1] = "read"

(* The listener hears the frame of the request, and nothing else: every bit  *)
(* of address and values, highest first, the slots for the acknowledge, the  *)
(* repeated start between the two directions, one read per bit, and the stop,*)
(* with one line moving at a time; and the program can be addressed with the *)
(* ten bits an instruction has for that (blockwrite, blockread).             *)
FrameIsHeard ==
    /\ LinesMoveOneAtATime
    /\ Len(program) < 2 ^ 10
    /\ pc = 0 /\ program # <<>> =>
          heard = (IF first THEN Wakeup ELSE <<>>) \o Frame(request)
====================
