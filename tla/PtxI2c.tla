------------------------------- MODULE PtxI2c -------------------------------
(***************************************************************************)
(* The I2C bus of a PT1/PT2: i2c_write and i2c_read, called by any number  *)
(* of threads, share one program memory, one engine and one result         *)
(* register.  The waveforms themselves are PtxWave's; here a program is a  *)
(* sequence of words that belong to one request.                           *)
(*                                                                         *)
(* A request is waited for with a bounded number of polls and then given   *)
(* up, whatever the engine is doing; late tells whether that has happened. *)
(***************************************************************************)
EXTENDS Naturals

CONSTANTS
    Clients,        \* threads that tune, put to sleep, read the signal
    WriteWords,     \* length of the program of a write
    ReadWords,      \* length of the program of a read
    MaxPolls        \* polls before a transfer is given up (100)

ASSUME PtxI2cAssumption ==
    /\ WriteWords \in Nat \ {0} /\ ReadWords \in Nat \ {0}
    /\ MaxPolls \in Nat \ {0}
    /\ "old" \notin Clients

Ops == {"write", "read"}

(* What no transfer under way has left on the board. *)
Old == "old"

(* Words a program memory can hold: the largest program. *)
Memory == 1 .. (IF WriteWords > ReadWords THEN WriteWords ELSE ReadWords)

VARIABLES
    i2c_progress,   \* somebody has the bus
    at,             \* where each client is
    op,             \* what each client does, "none" while it is idle
    address,        \* address of the word each client writes next
    lp,             \* polls each client has made
    val,            \* whose answer each client read
    fifo,           \* per address: the client whose transfer the word is of
    engine,         \* address of the word being played, 0 when done
    answer,         \* the result register: the client it answers
    late            \* history: a transfer was given up

vars == <<i2c_progress, at, op, address, lp, val, fifo, engine, answer, late>>

Places ==
    {"idle", "enter", "asleep", "assemble", "go", "poll", "result", "release"}

(* The client has the bus. *)
Inside(c) == at[c] \in {"assemble", "go", "poll", "result", "release"}

Words(c) == IF op[c] = "read" THEN ReadWords ELSE WriteWords

-----------------------------------------------------------------------------

Init ==
    /\ i2c_progress = FALSE
    /\ at = [c \in Clients |-> "idle"]
    /\ op = [c \in Clients |-> "none"]
    /\ address = [c \in Clients |-> 1]
    /\ lp = [c \in Clients |-> 0]
    /\ val = [c \in Clients |-> Old]
    /\ fifo = [a \in Memory |-> Old]
    /\ engine = 0
    /\ answer = Old
    /\ late = FALSE

(* A thread calls i2c_write or i2c_read. *)
Call(c) ==
    /\ at[c] = "idle"
    /\ \E o \in Ops : op' = [op EXCEPT ![c] = o]
    /\ at' = [at EXCEPT ![c] = "enter"]
    /\ UNCHANGED <<i2c_progress, address, lp, val, fifo, engine, answer, late>>

(* Under the mutex: take the bus, or sleep until it is given back. *)
EnterOrSleep(c) ==
    /\ at[c] = "enter"
    /\ at' = [at EXCEPT ![c] = IF i2c_progress THEN "asleep" ELSE "assemble"]
    /\ i2c_progress' = TRUE
    /\ UNCHANGED <<op, address, lp, val, fifo, engine, answer, late>>

(* Mutant: whoever wakes up has the bus, if where the code has while. *)
InterruptedEnters(c) ==
    /\ at[c] = "asleep"
    /\ at' = [at EXCEPT ![c] = "assemble"]
    /\ UNCHANGED <<i2c_progress, op, address, lp, val, fifo, engine, answer, late>>

(* A signal ends msleep (PCATCH); its result is not looked at. *)
Interrupted(c) ==
    /\ at[c] = "asleep"
    /\ at' = [at EXCEPT ![c] = "enter"]
    /\ UNCHANGED <<i2c_progress, op, address, lp, val, fifo, engine, answer, late>>

(* Mutant: one word too many. *)
AssembleLong(c) ==
    /\ at[c] = "assemble"
    /\ fifo' = [fifo EXCEPT ![address[c]] = c]
    /\ LET done == address[c] > Words(c)
       IN  /\ at' = [at EXCEPT ![c] = IF done THEN "go" ELSE @]
           /\ address' = [address EXCEPT ![c] = IF done THEN 1 ELSE @ + 1]
    /\ UNCHANGED <<i2c_progress, op, lp, val, engine, answer, late>>

(* blockwrite or blockread puts a word of the program into the memory. *)
Assemble(c) ==
    /\ at[c] = "assemble"
    /\ fifo' = [fifo EXCEPT ![address[c]] = c]
    /\ LET done == address[c] = Words(c)
       IN  /\ at' = [at EXCEPT ![c] = IF done THEN "go" ELSE @]
           /\ address' = [address EXCEPT ![c] = IF done THEN 1 ELSE @ + 1]
    /\ UNCHANGED <<i2c_progress, op, lp, val, engine, answer, late>>

(* FIFO_GO: the engine plays the program from its first word. *)
Go(c) ==
    /\ at[c] = "go"
    /\ engine' = 1
    /\ at' = [at EXCEPT ![c] = "poll"]
    /\ UNCHANGED <<i2c_progress, op, address, lp, val, fifo, answer, late>>

AfterPolls(c) == IF op[c] = "read" THEN "result" ELSE "release"

(* Mutant: what the first poll says is not looked at. *)
PollOnce(c) ==
    /\ at[c] = "poll"
    /\ at' = [at EXCEPT ![c] = AfterPolls(c)]
    /\ UNCHANGED <<i2c_progress, op, address, lp, val, fifo, engine, answer, late>>

(* Mutant: no limit to the polls. *)
PollForEver(c) ==
    /\ at[c] = "poll"
    /\ engine = 0
    /\ at' = [at EXCEPT ![c] = AfterPolls(c)]
    /\ UNCHANGED <<i2c_progress, op, address, lp, val, fifo, engine, answer, late>>

(* The engine is done, or it is not and that was the last poll.  The pause   *)
(* between two polls is any delay of the next one.                           *)
Poll(c) ==
    /\ at[c] = "poll"
    /\ LET enough == engine = 0 \/ lp[c] + 1 = MaxPolls
       IN  /\ lp' = [lp EXCEPT ![c] = IF enough THEN 0 ELSE @ + 1]
           /\ at' = [at EXCEPT ![c] = IF enough THEN AfterPolls(c) ELSE @]
           /\ late' = (late \/ (enough /\ engine # 0))
    /\ UNCHANGED <<i2c_progress, op, address, val, fifo, engine, answer>>

(* i2c_read reads I2C_RESULT_ADDR, also after the time-out. *)
Result(c) ==
    /\ at[c] = "result"
    /\ val' = [val EXCEPT ![c] = answer]
    /\ at' = [at EXCEPT ![c] = "release"]
    /\ UNCHANGED <<i2c_progress, op, address, lp, fifo, engine, answer, late>>

(* The transfer is over: what it left on the board is old. *)
Returned(c) ==
    /\ op' = [op EXCEPT ![c] = "none"]
    /\ val' = [val EXCEPT ![c] = Old]
    /\ fifo' = [a \in Memory |-> IF fifo[a] = c THEN Old ELSE fifo[a]]
    /\ answer' = IF answer = c THEN Old ELSE answer
    /\ UNCHANGED <<address, lp, engine, late>>

(* Mutant: wakeup_one, as for a lock that is handed over. *)
ReleaseOne(c) ==
    /\ at[c] = "release"
    /\ i2c_progress' = FALSE
    /\ \E d \in Clients :
          /\ at[d] = "asleep" \/ \A e \in Clients : at[e] # "asleep"
          /\ at' = [e \in Clients |->
                       IF e = c THEN "idle"
                       ELSE IF e = d /\ at[e] = "asleep" THEN "enter" ELSE at[e]]
    /\ Returned(c)

(* Mutant: nobody is woken. *)
ReleaseQuietly(c) ==
    /\ at[c] = "release"
    /\ i2c_progress' = FALSE
    /\ at' = [at EXCEPT ![c] = "idle"]
    /\ Returned(c)

(* Under the mutex: the bus is given back, and every sleeper is woken. *)
Release(c) ==
    /\ at[c] = "release"
    /\ i2c_progress' = FALSE
    /\ at' = [d \in Clients |->
                 IF d = c THEN "idle" ELSE IF at[d] = "asleep" THEN "enter" ELSE at[d]]
    /\ Returned(c)

(* The engine plays a word.  The last word of a program leads back to        *)
(* address 0; a word of a transfer that was given up may be a last one.      *)
(* What a program reads is in the result register when it ends.              *)
Play ==
    /\ engine # 0
    /\ \E last \in BOOLEAN :
          /\ fifo[engine] # Old => last = (engine >= Words(fifo[engine]))
          /\ engine + 1 \notin Memory => last
          /\ engine' = IF last THEN 0 ELSE engine + 1
          /\ answer' = IF last THEN fifo[engine] ELSE answer
    /\ UNCHANGED <<i2c_progress, at, op, address, lp, val, fifo, late>>

Transfer(c) ==
    \/ EnterOrSleep(c) \/ Assemble(c) \/ Go(c) \/ Poll(c) \/ Result(c) \/ Release(c)

Next == Play \/ \E c \in Clients : Call(c) \/ Interrupted(c) \/ Transfer(c)

Spec == Init /\ [][Next]_vars

(* The kernel runs the threads inside the driver.  The engine need not move. *)
FairSpec == Spec /\ \A c \in Clients : WF_vars(Transfer(c))

-----------------------------------------------------------------------------

TypeOK ==
    /\ i2c_progress \in BOOLEAN
    /\ at \in [Clients -> Places]
    /\ op \in [Clients -> Ops \cup {"none"}]
    /\ address \in [Clients -> Memory]
    /\ lp \in [Clients -> 0 .. MaxPolls - 1]
    /\ val \in [Clients -> Clients \cup {Old}]
    /\ fifo \in [Memory -> Clients \cup {Old}]
    /\ engine \in {0} \cup Memory
    /\ answer \in Clients \cup {Old}
    /\ late \in BOOLEAN

(* While no transfer has been given up, the engine plays the program of a    *)
(* client that is still waiting for it, every word of it: nobody assembles   *)
(* over a program that runs, and none is started before it is complete       *)
(* (i2c_progress, blockwrite, blockread).                                    *)
ProgramsAreWhole ==
    ~ late /\ engine # 0 =>
        \E c \in Clients :
            /\ at[c] = "poll"
            /\ engine <= Words(c)
            /\ \A a \in 1 .. Words(c) : fifo[a] = c

(* While no transfer has been given up, i2c_read returns the answer to this  *)
(* request, not to one before it nor to another thread's.                    *)
AnswersBelong ==
    \A c \in Clients :
        ~ late /\ at[c] = "release" /\ op[c] = "read" => val[c] = c

(* Nobody sleeps for a bus that is free: the flag is tested and the thread   *)
(* put to sleep in one critical section, cleared and everybody woken in      *)
(* another (i2c_write, i2c_read).                                            *)
NoSleeperForgotten == \A c \in Clients : at[c] = "asleep" => i2c_progress

(* Whoever has the bus gives it back, also when the engine never ends. *)
BusIsReleased == \A c \in Clients : Inside(c) ~> at[c] = "idle"

(* When the calls stop coming, every call that was made returns. *)
CallsReturn ==
    <>[][\A c \in Clients : ~ Call(c)]_vars =>
        \A c \in Clients : <>[](at[c] = "idle")
=============================================================================
