----------------------------- MODULE Pt3Program -----------------------------
(***************************************************************************)
(* The programs for the I2C engine of a PT3: how a transfer becomes        *)
(* instructions of four bits, two to a byte, how they get into the memory  *)
(* of the board, which all threads share, and what a listener on the bus   *)
(* hears when they are run.                                                *)
(***************************************************************************)
EXTENDS Integers, Sequences, SequencesExt

CONSTANTS
    Clients,        \* threads that call pt3_i2c_run
    Programs,       \* what is asked for: sequences of transfers and sleeps
    MemoryBytes,    \* of the board, for programs
    Runs            \* bound: programs run in all

VARIABLES
    call,           \* of each thread: where it is in pt3_i2c_run, its program
    i2c_progress,   \* the instruction memory and the engine are taken
    runs,           \* how many programs there have been
    memory,         \* of the board: bytes by address
    next,             \* the next instruction of the engine, -1 when it is idle
    bus             \* the lines, and what a listener has heard on them

programVars == <<call, i2c_progress, runs, memory, next, bus>>

I_END     == 0
I_CLOCK_L == 2
I_CLOCK_H == 3
I_DATA_L  == 4
I_DATA_H  == 5
I_SLEEP   == 7
I_DATA_L_NOP  == 8
I_DATA_H_NOP  == 12
I_DATA_H_READ == 13
I_DATA_H_ACK0 == 14

PT3_BUS_MAX_INST == 4096    \* bytes of a program
DATA_OFFSET      == 2048    \* where the engine puts what it has read
TC_THROUGH       == 254     \* register of the demodulator behind which the
                            \* tuner is reached

-----------------------------------------------------------------------------
(* Assembly (pt3_bus.c).                                                     *)

bus_start == <<I_DATA_H, I_CLOCK_H, I_DATA_L, I_CLOCK_L>>

bus_stop  == <<I_DATA_L, I_CLOCK_H, I_DATA_H>>

(* Bit i of v, counted from the highest of eight. *)
BitOf(v, i) == (v \div 2 ^ (8 - i)) % 2

bus_write(bytes) ==
    FlattenSeq([n \in DOMAIN bytes |->
        [i \in 1 .. 8 |-> IF BitOf(bytes[n], i) = 1 THEN I_DATA_H_NOP
                                                    ELSE I_DATA_L_NOP]
        \o <<I_DATA_H_ACK0>>])

bus_read(size) ==
    FlattenSeq([n \in 1 .. size |->
        [i \in 1 .. 8 |-> I_DATA_H_READ]
        \o <<IF n = size THEN I_DATA_H_NOP ELSE I_DATA_L_NOP>>])

bus_sleep(ms) == [i \in 1 .. ms |-> I_SLEEP]

(* The end, twice if that fills a byte. *)
bus_end(insts) ==
    LET ended == Append(insts, I_END)
    IN  IF Len(ended) % 2 = 1 THEN Append(ended, I_END) ELSE ended

(* add_instruction: two instructions to a byte, the first in the lower half; *)
(* one that waits for its second is not stored.  A full buffer is begun      *)
(* again, and what it held is lost.                                          *)
Packed(insts) ==
    LET n    == Len(insts) \div 2
        lost == (n \div PT3_BUS_MAX_INST) * PT3_BUS_MAX_INST
    IN  [p \in 1 .. n - lost |->
            insts[2 * (lost + p) - 1] + 16 * insts[2 * (lost + p)]]

-----------------------------------------------------------------------------
(* Transfers (pt3_tc.c); tc and tuner are addresses of seven bits.           *)

Message(bytes) == bus_start \o bus_write(bytes)

tc_write(tc, addr, data) == Message(<<2 * tc, addr>> \o data) \o bus_stop

tc_read(tc, addr, size) ==
    Message(<<2 * tc, addr>>) \o Message(<<2 * tc + 1>>)
    \o bus_read(size) \o bus_stop

read_tuner_without_addr(tc, tuner, size) ==
    Message(<<2 * tc, TC_THROUGH, 2 * tuner + 1>>) \o Message(<<2 * tc + 1>>)
    \o bus_read(size) \o bus_stop

write_tuner_without_addr(tc, tuner, data) ==
    Message(<<2 * tc, TC_THROUGH, 2 * tuner>> \o data) \o bus_stop

read_tuner(tc, tuner, addr, size) ==
    Message(<<2 * tc, TC_THROUGH, 2 * tuner, addr>>)
    \o Message(<<2 * tc, TC_THROUGH, 2 * tuner + 1>>) \o Message(<<2 * tc + 1>>)
    \o bus_read(size) \o bus_stop

write_tuner(tc, tuner, addr, data) ==
    Message(<<2 * tc, TC_THROUGH, 2 * tuner, addr>> \o data) \o bus_stop

(* A step of a program: a transfer or a sleep.  Reads have a size. *)
Insts(r) ==
    CASE r.op = "tc_write"    -> tc_write(r.tc, r.addr, r.data)
      [] r.op = "tc_read"     -> tc_read(r.tc, r.addr, r.size)
      [] r.op = "read_tuner_without_addr" ->
            read_tuner_without_addr(r.tc, r.tuner, r.size)
      [] r.op = "write_tuner_without_addr" ->
            write_tuner_without_addr(r.tc, r.tuner, r.data)
      [] r.op = "read_tuner"  -> read_tuner(r.tc, r.tuner, r.addr, r.size)
      [] r.op = "write_tuner" -> write_tuner(r.tc, r.tuner, r.addr, r.data)
      [] r.op = "sleep"       -> bus_sleep(r.size)

(* The whole of it, as pt3_qm_init and the like put it on one bus. *)
Program(steps) ==
    bus_end(FlattenSeq([n \in DOMAIN steps |-> Insts(steps[n])]))

Byte  == 0 .. 255
Slave == 0 .. 127

Steps ==
    [op : {"tc_write"}, tc : Slave, addr : Byte, data : Seq(Byte)]
    \cup [op : {"tc_read"}, tc : Slave, addr : Byte, size : Nat \ {0}]
    \cup [op : {"read_tuner_without_addr"}, tc : Slave, tuner : Slave,
          size : Nat \ {0}]
    \cup [op : {"write_tuner_without_addr"}, tc : Slave, tuner : Slave,
          data : Seq(Byte)]
    \cup [op : {"read_tuner"}, tc : Slave, tuner : Slave, addr : Byte,
          size : Nat \ {0}]
    \cup [op : {"write_tuner"}, tc : Slave, tuner : Slave, addr : Byte,
          data : Seq(Byte)]
    \cup [op : {"sleep"}, size : Nat]

(* The buffer and the memory have room, as they have for all the driver      *)
(* asks for: pt3_qm_init is the longest, some fifty transfers of 26 bytes.   *)
Fits(insts) ==
    Len(insts) \div 2 < PT3_BUS_MAX_INST /\ Len(insts) \div 2 <= MemoryBytes

ASSUME Pt3ProgramAssumption ==
    /\ Programs \subseteq Seq(Steps)
    /\ \A p \in Programs : Fits(Program(p))
    /\ MemoryBytes \in Nat

-----------------------------------------------------------------------------
(* The memory of the board (pt3_i2c.c), byte by byte.                        *)

(* The destination is computed in eight bits. *)
CopyTo(inst_addr) == (DATA_OFFSET + inst_addr \div 2) % 2 ^ 8

(* pt3_i2c_copy: what the memory is when it held old. *)
i2c_copy(old, inst_addr, image) ==
    [a \in DOMAIN old |->
        IF a \in CopyTo(inst_addr) .. CopyTo(inst_addr) + Len(image) - 1
        THEN image[a - CopyTo(inst_addr) + 1] ELSE old[a]]

(* Instruction k of a memory, as the engine counts them (external).  Where   *)
(* instruction 0 is the source does not say: here at address 0, where CopyTo *)
(* leads.  The Linux branch copies to DATA_OFFSET (line 119); for a board    *)
(* that looks there alone, the eight bits of CopyTo would be wrong.          *)
Fetch(k) == (memory[k \div 2] \div (IF k % 2 = 0 THEN 1 ELSE 16)) % 16

-----------------------------------------------------------------------------
(* What is heard, and what ought to be.                                      *)

LevelOf(b) == IF b = 1 THEN "high" ELSE "low"

(* Data takes a level: while the clock is high that is a start or a stop. *)
SetData(b, d) ==
    [sda |-> d, scl |-> b.scl,
     heard |-> IF b.scl = 1 /\ b.sda # d
               THEN Append(b.heard, IF d = 0 THEN "start" ELSE "stop") ELSE b.heard]

(* The clock takes a level: when it rises the level of data is heard. *)
SetClock(b, c) ==
    [sda |-> b.sda, scl |-> c,
     heard |-> IF b.scl = 0 /\ c = 1 THEN Append(b.heard, LevelOf(b.sda)) ELSE b.heard]

(* An instruction of the upper half sets data and lets the clock rise and    *)
(* fall.                                                                     *)
Plays(b, inst) ==
    CASE inst \in {I_CLOCK_L, I_CLOCK_H} -> SetClock(b, inst % 2)
      [] inst \in {I_DATA_L, I_DATA_H}   -> SetData(b, inst % 2)
      [] inst = I_DATA_H_READ ->
            SetClock([SetClock(SetData(b, 1), 1) EXCEPT !.heard = Append(@, "read")], 0)
      [] inst \in {I_DATA_L_NOP, I_DATA_H_NOP, I_DATA_H_ACK0} ->
            SetClock(SetClock(SetData(b, IF inst < 12 THEN 0 ELSE 1), 1), 0)
      [] OTHER -> b

Idle == [sda |-> 1, scl |-> 1, heard |-> <<>>]

Sent(bytes) ==
    FlattenSeq([n \in DOMAIN bytes |->
        [i \in 1 .. 8 |-> LevelOf(BitOf(bytes[n], i))] \o <<"high">>])

ReadAll(size) ==
    FlattenSeq([n \in 1 .. size |->
        FlattenSeq([i \in 1 .. 8 |-> <<"high", "read">>])
        \o <<IF n = size THEN "high" ELSE "low">>])

(* One transaction: messages to 7-bit addresses, each begun with a start,    *)
(* the last one read when size is not 0, and a stop.  The clock rises once   *)
(* more before a repeated start and before the stop.                         *)
Transaction(messages, size) ==
    FlattenSeq([m \in DOMAIN messages |->
        (IF m = 1 THEN <<>> ELSE <<"high">>) \o <<"start">> \o Sent(messages[m])])
    \o ReadAll(size) \o <<"low", "stop">>

(* To the demodulator directly, or through it to the tuner behind. *)
Wanted(r) ==
    LET w   == 2 * r.tc
        thr == <<w, TC_THROUGH>>
    IN  CASE r.op = "tc_write" -> Transaction(<<<<w, r.addr>> \o r.data>>, 0)
          [] r.op = "tc_read"  -> Transaction(<<<<w, r.addr>>, <<w + 1>>>>, r.size)
          [] r.op = "read_tuner_without_addr" ->
                Transaction(<<thr \o <<2 * r.tuner + 1>>, <<w + 1>>>>, r.size)
          [] r.op = "write_tuner_without_addr" ->
                Transaction(<<thr \o <<2 * r.tuner>> \o r.data>>, 0)
          [] r.op = "read_tuner" ->
                Transaction(<<thr \o <<2 * r.tuner, r.addr>>,
                              thr \o <<2 * r.tuner + 1>>, <<w + 1>>>>, r.size)
          [] r.op = "write_tuner" ->
                Transaction(<<thr \o <<2 * r.tuner, r.addr>> \o r.data>>, 0)
          [] r.op = "sleep" -> <<>>

-----------------------------------------------------------------------------
(* pt3_i2c_run.                                                              *)

(* What an earlier program left in the memory stays there; at first it holds *)
(* no end.                                                                   *)
ProgramInit ==
    /\ call = [c \in Clients |-> [at |-> "idle", program |-> <<>>]]
    /\ i2c_progress = FALSE /\ runs = 0 /\ next = -1 /\ bus = Idle
    /\ memory = [a \in 0 .. MemoryBytes - 1 |-> I_DATA_H_NOP * 17]

Moves(c, from, to) ==
    /\ call[c].at = from
    /\ call' = [call EXCEPT ![c].at = to]

Begin(c) ==
    /\ call[c].at = "idle" /\ runs < Runs
    /\ runs' = runs + 1
    /\ \E r \in Programs : call' = [call EXCEPT ![c] = [at |-> "wait", program |-> r]]
    /\ UNCHANGED <<i2c_progress, memory, next, bus>>

(* Mutant: nobody waits. *)
NobodyWaits(c) ==
    /\ Moves(c, "wait", "copy")
    /\ i2c_progress' = TRUE
    /\ UNCHANGED <<runs, memory, next, bus>>

(* Under scp->lock: whoever finds the flag raised sleeps until it is not. *)
Acquire(c) ==
    /\ ~ i2c_progress /\ i2c_progress' = TRUE
    /\ Moves(c, "wait", "copy")
    /\ UNCHANGED <<runs, memory, next, bus>>

(* The bytes of the program are copied, whatever the engine does. *)
Copy(c) ==
    /\ Moves(c, "copy", "start")
    /\ memory' = i2c_copy(memory, 0, Packed(Program(call[c].program)))
    /\ UNCHANGED <<i2c_progress, runs, next, bus>>

(* run_code waits for the engine, and has it start with instruction 0. *)
RunCode(c) ==
    /\ next = -1 /\ next' = 0
    /\ Moves(c, "start", "run")
    /\ bus' = [bus EXCEPT !.heard = <<>>]
    /\ UNCHANGED <<i2c_progress, runs, memory>>

(* It waits again, for the end; what was read is taken from the board. *)
Take(c) ==
    /\ next = -1
    /\ Moves(c, "run", "release")
    /\ UNCHANGED <<i2c_progress, runs, memory, next, bus>>

Release(c) ==
    /\ call[c].at = "release"
    /\ call' = [call EXCEPT ![c] = [at |-> "idle", program |-> <<>>]]
    /\ i2c_progress' = FALSE
    /\ UNCHANGED <<runs, memory, next, bus>>

(* The engine takes one instruction after the other, up to the first end. *)
Play ==
    /\ next >= 0
    /\ IF Fetch(next) = I_END THEN next' = -1 /\ UNCHANGED bus
       ELSE next' = next + 1 /\ bus' = Plays(bus, Fetch(next))
    /\ UNCHANGED <<call, i2c_progress, runs, memory>>

ProgramNext ==
    \/ \E c \in Clients :
          Begin(c) \/ Acquire(c) \/ Copy(c) \/ RunCode(c) \/ Take(c) \/ Release(c)
    \/ Play

ProgramSpec == ProgramInit /\ [][ProgramNext]_programVars

(* What a thread takes from the board is its own: the engine has played the  *)
(* transfers of its program, each a whole transaction, and nothing that      *)
(* another thread's program or an earlier one left in the memory, and the    *)
(* bus is idle again (pt3_bus.c, pt3_tc.c, pt3_i2c.c).                       *)
ProgramIsHeard ==
    \A c \in Clients : call[c].at = "release" =>
        /\ bus.heard = FlattenSeq([n \in DOMAIN call[c].program |->
                                        Wanted(call[c].program[n])])
        /\ bus.sda = 1 /\ bus.scl = 1
=============================================================================
