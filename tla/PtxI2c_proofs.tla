--------------------------- MODULE PtxI2c_proofs ---------------------------
(***************************************************************************)
(* Proofs about the I2C bus of a PT1/PT2: about PtxI2c, for any number of  *)
(* clients, programs of any length and any number of polls; then about     *)
(* PtxWave, for all slave addresses of 7 bits, all values of up to 16      *)
(* bytes and any number of transfers.                                      *)
(*                                                                         *)
(* The second part says of a program what it makes the listener hear,      *)
(* whatever was heard before (Says); that two programs one after the other *)
(* say what each says is what the proof is built with, from one            *)
(* instruction up to blockread.  The engine then follows the conditions of *)
(* the lines its program makes, one by one (Follows).                      *)
(***************************************************************************)
EXTENDS PtxI2c, PtxWave, SequenceLemmas

(* A client assembles inside its program, from the first word on. *)
TypeInv ==
    /\ TypeOK
    /\ \A c \in Clients :
          /\ at[c] = "assemble" => address[c] <= Words(c)
          /\ at[c] # "assemble" => address[c] = 1

(* One client has the bus, and only then does anybody sleep for it. *)
BusInv ==
    /\ \A c \in Clients : Inside(c) => i2c_progress
    /\ \A c, d \in Clients : Inside(c) /\ Inside(d) => c = d
    /\ NoSleeperForgotten

Whole(c) == \A a \in 1 .. Words(c) : fifo[a] = c

(* How far the transfer of the client that has the bus is, and the engine. *)
ProgramInv ==
    /\ engine # 0 => \E c \in Clients : at[c] = "poll"
    /\ \A c \in Clients :
          /\ at[c] = "assemble" => \A a \in 1 .. address[c] - 1 : fifo[a] = c
          /\ at[c] \in {"go", "poll"} => Whole(c)
          /\ at[c] = "poll" => engine <= Words(c)
          /\ at[c] = "poll" /\ engine = 0 => answer = c
          /\ at[c] = "result" => answer = c /\ op[c] = "read"
          /\ at[c] = "release" /\ op[c] = "read" => val[c] = c

I2cInv == TypeInv /\ BusInv /\ (~ late => ProgramInv)

Step(c) == Call(c) \/ Interrupted(c) \/ Transfer(c)

-----------------------------------------------------------------------------

(* Programs fit into the memory. *)
LEMMA WordsFit ==
    ASSUME NEW c \in Clients
    PROVE  /\ Words(c) \in Memory /\ 1 \in Memory
           /\ Memory \subseteq Nat \ {0}
           /\ 1 .. Words(c) \subseteq Memory
BY PtxI2cAssumption DEF Words, Memory

(* The types hold at first.                                                  *)
LEMMA TypeInvInit == Init => TypeInv
<1>1. 1 \in Memory
    BY PtxI2cAssumption DEF Memory
<1>2. 0 \in 0 .. MaxPolls - 1
    BY PtxI2cAssumption
<1>3. Init => /\ at \in [Clients -> Places] /\ address \in [Clients -> Memory]
              /\ lp \in [Clients -> 0 .. MaxPolls - 1]
    BY <1>1, <1>2 DEF Init, Places
<1>4. Init => /\ op \in [Clients -> Ops \cup {"none"}]
              /\ val \in [Clients -> Clients \cup {Old}]
              /\ fifo \in [Memory -> Clients \cup {Old}]
    BY DEF Init
<1>5. Init => \A c \in Clients : at[c] # "assemble" /\ address[c] = 1
    BY DEF Init
<1>6. QED
    BY <1>3, <1>4, <1>5 DEF Init, TypeInv, TypeOK

(* Types, and the bounds of address, are kept by every step. *)
LEMMA TypeInvNext == TypeInv /\ [Next]_vars => TypeInv'
<1> SUFFICES ASSUME TypeInv, [Next]_vars PROVE TypeInv'
    OBVIOUS
<1> USE DEF TypeInv, TypeOK
<1>1. CASE Play
    <2>1. engine' \in {0} \cup Memory
        BY <1>1, PtxI2cAssumption DEF Play, Memory
    <2>2. answer' \in Clients \cup {Old}
        BY <1>1 DEF Play
    <2>3. QED
        BY <1>1, <2>1, <2>2 DEF Play, Words
<1>2. ASSUME NEW c \in Clients, Call(c) PROVE TypeInv'
    BY <1>2 DEF Call, Places, Ops, Words
<1>3. ASSUME NEW c \in Clients, Interrupted(c) PROVE TypeInv'
    BY <1>3 DEF Interrupted, Places, Words
<1>4. ASSUME NEW c \in Clients, EnterOrSleep(c) PROVE TypeInv'
    BY <1>4, WordsFit DEF EnterOrSleep, Places, Words
<1>5. ASSUME NEW c \in Clients, Assemble(c) PROVE TypeInv'
    <2>1. address[c] \in Memory /\ address[c] <= Words(c)
        BY <1>5 DEF Assemble
    <2>2. address[c] # Words(c) => address[c] + 1 \in Memory /\ address[c] + 1 <= Words(c)
        BY <2>1, WordsFit, PtxI2cAssumption DEF Memory
    <2>3. address' \in [Clients -> Memory]
        BY <1>5, <2>1, <2>2, WordsFit DEF Assemble
    <2>4. \A d \in Clients : at'[d] = "assemble" => address'[d] <= Words(d)'
        BY <1>5, <2>1, <2>2 DEF Assemble, Words
    <2>5. \A d \in Clients : at'[d] # "assemble" => address'[d] = 1
        BY <1>5, <2>1 DEF Assemble
    <2>6. at' \in [Clients -> Places] /\ fifo' \in [Memory -> Clients \cup {Old}]
        BY <1>5 DEF Assemble, Places
    <2>7. QED
        BY <1>5, <2>3, <2>4, <2>5, <2>6 DEF Assemble
<1>6. ASSUME NEW c \in Clients, Go(c) PROVE TypeInv'
    BY <1>6, WordsFit DEF Go, Places, Words
<1>7. ASSUME NEW c \in Clients, Poll(c) PROVE TypeInv'
    <2>1. lp' \in [Clients -> 0 .. MaxPolls - 1]
        BY <1>7, PtxI2cAssumption DEF Poll
    <2>2. late' \in BOOLEAN
        BY <1>7 DEF Poll
    <2>3. QED
        BY <1>7, <2>1, <2>2 DEF Poll, AfterPolls, Places, Words
<1>8. ASSUME NEW c \in Clients, Result(c) PROVE TypeInv'
    BY <1>8 DEF Result, Places, Words
<1>9. ASSUME NEW c \in Clients, Release(c) PROVE TypeInv'
    <2>1. at' \in [Clients -> Places] /\ \A d \in Clients :
              at'[d] = "assemble" => d # c /\ at[d] = "assemble"
        BY <1>9 DEF Release, Places
    <2>2. \A d \in Clients : at'[d] # "assemble" => at[d] # "assemble"
        BY <1>9 DEF Release
    <2>3. \A d \in Clients : d # c => Words(d)' = Words(d)
        BY <1>9 DEF Release, Returned, Words
    <2>4. QED
        BY <1>9, <2>1, <2>2, <2>3 DEF Release, Returned
<1>10. CASE UNCHANGED vars
    BY <1>10 DEF vars, Words
<1>11. QED
    BY <1>1, <1>2, <1>3, <1>4, <1>5, <1>6, <1>7, <1>8, <1>9, <1>10
    DEF Next, Transfer

(* Every variable has its type, and every program fits into the memory       *)
(* (i2c_write, i2c_read, blockwrite, blockread).                             *)
THEOREM I2cTypeCorrect == Spec => []TypeOK
<1>1. TypeInv => TypeOK
    BY DEF TypeInv
<1>2. QED
    BY <1>1, TypeInvInit, TypeInvNext, PTL DEF Spec

-----------------------------------------------------------------------------

(* The bus changes hands only through the flag. *)
LEMMA BusInvNext == TypeInv /\ BusInv /\ [Next]_vars => BusInv'
<1> SUFFICES ASSUME TypeInv, BusInv, [Next]_vars PROVE BusInv'
    OBVIOUS
<1>at. at \in [Clients -> Places]
    BY DEF TypeInv, TypeOK
<1> USE DEF BusInv, NoSleeperForgotten, Inside
<1>1. CASE Play
    BY <1>1 DEF Play
<1>2. ASSUME NEW c \in Clients, Call(c) PROVE BusInv'
    BY <1>2, <1>at DEF Call
<1>3. ASSUME NEW c \in Clients, Interrupted(c) PROVE BusInv'
    BY <1>3, <1>at DEF Interrupted
<1>4. ASSUME NEW c \in Clients, EnterOrSleep(c) PROVE BusInv'
    BY <1>4, <1>at DEF EnterOrSleep
<1>5. ASSUME NEW c \in Clients, Assemble(c) PROVE BusInv'
    BY <1>5, <1>at DEF Assemble
<1>6. ASSUME NEW c \in Clients, Go(c) PROVE BusInv'
    BY <1>6, <1>at DEF Go
<1>7. ASSUME NEW c \in Clients, Poll(c) PROVE BusInv'
    BY <1>7, <1>at DEF Poll, AfterPolls
<1>8. ASSUME NEW c \in Clients, Result(c) PROVE BusInv'
    BY <1>8, <1>at DEF Result
<1>9. ASSUME NEW c \in Clients, Release(c) PROVE BusInv'
    BY <1>9, <1>at DEF Release
<1>10. CASE UNCHANGED vars
    BY <1>10 DEF vars
<1>11. QED
    BY <1>1, <1>2, <1>3, <1>4, <1>5, <1>6, <1>7, <1>8, <1>9, <1>10
    DEF Next, Transfer

(* Whoever is inside is alone, so nobody else touches the memory, the engine *)
(* or the result register while its transfer lasts.                          *)
LEMMA ProgramInvNext ==
    TypeInv /\ BusInv /\ ~ late' /\ ProgramInv /\ [Next]_vars => ProgramInv'
<1> SUFFICES ASSUME TypeInv, BusInv, ~ late', ProgramInv, [Next]_vars
             PROVE  ProgramInv'
    OBVIOUS
<1>at. /\ at \in [Clients -> Places] /\ address \in [Clients -> Memory]
       /\ fifo \in [Memory -> Clients \cup {Old}] /\ engine \in {0} \cup Memory
       /\ op \in [Clients -> Ops \cup {"none"}] /\ val \in [Clients -> Clients \cup {Old}]
       /\ Memory \subseteq Nat \ {0}
    BY DEF TypeInv, TypeOK, Memory
<1>alone. \A c, d \in Clients : Inside(c) /\ Inside(d) => c = d
    BY DEF BusInv
<1>old. Old \notin Clients
    BY PtxI2cAssumption DEF Old
<1>1. CASE Play
    <2>1. PICK c \in Clients : at[c] = "poll" /\ Whole(c) /\ engine <= Words(c)
        BY <1>1 DEF Play, ProgramInv
    <2>2. fifo[engine] = c /\ engine \in Memory
        BY <1>1, <1>at, <2>1 DEF Play, Whole
    <2>3. PICK last \in BOOLEAN :
              /\ last = (engine >= Words(c))
              /\ engine' = IF last THEN 0 ELSE engine + 1
              /\ answer' = IF last THEN c ELSE answer
        BY <1>1, <2>1, <2>2, <1>old DEF Play
    <2>4. Words(c) \in Nat
        BY PtxI2cAssumption DEF Words
    <2>5. engine' <= Words(c) /\ (engine' = 0 => answer' = c)
        <3>1. engine \in Nat /\ engine # 0
            BY <2>2, <1>at
        <3>2. engine + 1 # 0 /\ (~ (engine >= Words(c)) => engine + 1 <= Words(c))
            BY <3>1, <2>4
        <3>3. CASE last
            BY <3>3, <2>3, <2>4
        <3>4. CASE ~ last
            <4>1. engine' = engine + 1 /\ ~ (engine >= Words(c))
                BY <3>4, <2>3
            <4>2. QED
                BY <4>1, <3>2
        <3>5. QED
            BY <3>3, <3>4
    <2>6. \A d \in Clients : Inside(d) => d = c
        BY <2>1, <1>alone DEF Inside
    <2>7. UNCHANGED <<at, op, address, val, fifo>>
        BY <1>1 DEF Play
    <2>8. QED
        BY <2>1, <2>4, <2>5, <2>6, <2>7 DEF ProgramInv, Whole, Words, Inside
<1>2. ASSUME NEW c \in Clients, Call(c) PROVE ProgramInv'
    BY <1>2, <1>at DEF Call, ProgramInv, Whole, Words
<1>3. ASSUME NEW c \in Clients, Interrupted(c) PROVE ProgramInv'
    BY <1>3, <1>at DEF Interrupted, ProgramInv, Whole, Words
<1>4. ASSUME NEW c \in Clients, EnterOrSleep(c) PROVE ProgramInv'
    <2>1. address[c] = 1
        BY <1>4 DEF EnterOrSleep, TypeInv
    <2>2. QED
        BY <1>4, <1>at, <2>1 DEF EnterOrSleep, ProgramInv, Whole, Words
<1>5. ASSUME NEW c \in Clients, Assemble(c) PROVE ProgramInv'
    <2>1. \A d \in Clients : Inside(d) => d = c
        BY <1>5, <1>alone DEF Assemble, Inside
    <2>2. engine = 0
        BY <1>5, <2>1 DEF Assemble, ProgramInv, Inside
    <2>3. \A a \in 1 .. address[c] : fifo'[a] = c
        <3>1. address[c] \in Nat /\ address[c] \in Memory
            BY <1>at
        <3>2. \A a \in 1 .. address[c] : a = address[c] \/ a \in 1 .. address[c] - 1
            BY <3>1
        <3>3. \A a \in 1 .. address[c] : a \in Memory
            BY <3>1, PtxI2cAssumption DEF Memory
        <3>4. QED
            BY <1>5, <1>at, <3>2, <3>3 DEF Assemble, ProgramInv
    <2>4. Inside(c)' /\ \A d \in Clients : d # c => at'[d] = at[d]
        BY <1>5, <1>at DEF Assemble, Inside
    <2>5. at'[c] = "assemble" => \A a \in 1 .. address'[c] - 1 : fifo'[a] = c
        <3>1. address[c] \in Nat
            BY <1>at
        <3>2. at'[c] = "assemble" => address'[c] = address[c] + 1
            BY <1>5, <1>at DEF Assemble
        <3>3. at'[c] = "assemble" => address'[c] - 1 = address[c]
            BY <3>1, <3>2
        <3>4. QED
            BY <3>3, <2>3
    <2>6. at'[c] = "go" => Whole(c)'
        BY <1>5, <1>at, <2>3 DEF Assemble, Whole, Words
    <2>7. at'[c] \in {"assemble", "go"}
        BY <1>5, <1>at DEF Assemble
    <2>8. engine' = 0 /\ UNCHANGED <<op, val, answer>>
        BY <1>5, <2>2 DEF Assemble
    <2>9. \A d \in Clients : d # c =>
              at'[d] \notin {"assemble", "go", "poll", "result", "release"}
        BY <2>1, <2>4 DEF Inside
    <2>10. QED
        BY <2>5, <2>6, <2>7, <2>8, <2>9 DEF ProgramInv
<1>6. ASSUME NEW c \in Clients, Go(c) PROVE ProgramInv'
    <2>1. \A d \in Clients : Inside(d) => d = c
        BY <1>6, <1>alone DEF Go, Inside
    <2>2. 1 <= Words(c) /\ 1 # 0
        BY PtxI2cAssumption DEF Words
    <2>3. at'[c] = "poll" /\ \A d \in Clients : d # c => at'[d] = at[d]
        BY <1>6, <1>at DEF Go
    <2>4. QED
        BY <1>6, <2>1, <2>2, <2>3 DEF Go, ProgramInv, Inside, Whole, Words
<1>7. ASSUME NEW c \in Clients, Poll(c) PROVE ProgramInv'
    <2>1. \A d \in Clients : Inside(d) => d = c
        BY <1>7, <1>alone DEF Poll, Inside
    <2>2. at'[c] # "poll" => engine = 0
        BY <1>7, <1>at DEF Poll
    <2>3. at'[c] = IF at'[c] = "poll" THEN "poll" ELSE AfterPolls(c)
        BY <1>7, <1>at DEF Poll
    <2>4. at[c] = "poll" /\ \A d \in Clients : d # c => at'[d] = at[d]
        BY <1>7, <1>at DEF Poll
    <2>5. UNCHANGED <<op, address, val, fifo, engine, answer>>
        BY <1>7 DEF Poll
    <2>6. engine # 0 => at'[c] = "poll"
        BY <2>2
    <2>7. QED
        BY <2>1, <2>2, <2>3, <2>4, <2>5, <2>6 DEF AfterPolls, ProgramInv, Inside, Whole, Words
<1>8. ASSUME NEW c \in Clients, Result(c) PROVE ProgramInv'
    BY <1>8, <1>at DEF Result, ProgramInv, Whole, Words
<1>9. ASSUME NEW c \in Clients, Release(c) PROVE ProgramInv'
    <2>1. \A d \in Clients : Inside(d) => d = c
        BY <1>9, <1>alone DEF Release, Inside
    <2>2. \A d \in Clients : ~ Inside(d)'
        BY <1>9, <1>at, <2>1 DEF Release, Inside
    <2>3. engine' = 0
        BY <1>9, <2>1 DEF Release, Returned, ProgramInv, Inside
    <2>4. QED
        BY <2>2, <2>3 DEF ProgramInv, Inside
<1>10. CASE UNCHANGED vars
    BY <1>10 DEF vars, ProgramInv, Whole, Words
<1>11. QED
    BY <1>1, <1>2, <1>3, <1>4, <1>5, <1>6, <1>7, <1>8, <1>9, <1>10
    DEF Next, Transfer

(* A transfer given up is never undone.                                      *)
LEMMA LateStaysLate == TypeInv /\ [Next]_vars /\ late => late'
BY DEF TypeInv, TypeOK, Next, Transfer, Play, Call, Interrupted, EnterOrSleep,
       Assemble, Go, Poll, Result, Release, Returned, vars

(* The invariant of the bus holds throughout. *)
LEMMA I2cInvAlways == Spec => []I2cInv
<1>1. Init => I2cInv
    BY TypeInvInit DEF Init, I2cInv, BusInv, NoSleeperForgotten, Inside, ProgramInv
<1>2. I2cInv /\ [Next]_vars => I2cInv'
    BY TypeInvNext, BusInvNext, ProgramInvNext, LateStaysLate DEF I2cInv
<1>3. QED
    BY <1>1, <1>2, PTL DEF Spec

(* Until a transfer is given up, what the engine plays is the whole program  *)
(* of the client that waits for it (i2c_progress).                           *)
THEOREM ProgramsAreAlwaysWhole == Spec => []ProgramsAreWhole
<1>1. I2cInv => ProgramsAreWhole
    BY DEF I2cInv, ProgramInv, ProgramsAreWhole, Whole
<1>2. QED
    BY <1>1, I2cInvAlways, PTL

(* Until a transfer is given up, i2c_read returns the answer to its request. *)
THEOREM AnswersAlwaysBelong == Spec => []AnswersBelong
<1>1. I2cInv => AnswersBelong
    BY DEF I2cInv, ProgramInv, AnswersBelong
<1>2. QED
    BY <1>1, I2cInvAlways, PTL

(* Nobody ever sleeps for a bus that is free (msleep, wakeup). *)
THEOREM NoSleeperIsForgotten == Spec => []NoSleeperForgotten
<1>1. I2cInv => NoSleeperForgotten
    BY DEF I2cInv, BusInv
<1>2. QED
    BY <1>1, I2cInvAlways, PTL

-----------------------------------------------------------------------------
(* What a program makes the listener hear: the engine goes from one          *)
(* condition of the lines, with what has been heard so far, to the next.     *)

Instructions == [read : BOOLEAN, sda : {0, 1}, scl : {0, 1}]

Sounds == {"start", "stop", "high", "low", "read"}

On(data, clock, h) == [sda |-> data, scl |-> clock, heard |-> h]

Lines == [sda : {0, 1}, scl : {0, 1}, heard : Seq(Sounds)]

(* What is heard of an instruction (Heard), and what the lines are then. *)
Heard1(s, i) ==
    IF s.scl = 1 /\ i.scl = 1 /\ s.sda # i.sda
      THEN <<IF i.sda = 0 THEN "start" ELSE "stop">>
    ELSE IF s.scl = 0 /\ i.scl = 1 THEN <<Level(i.sda)>>
    ELSE IF i.read THEN <<"read">> ELSE <<>>

Played(s, i) == On(i.sda, i.scl, s.heard \o Heard1(s, i))

(* An acknowledge between two bytes was the last that was heard. *)
Answered(h) ==
    LET n == Len(h) IN n > 1 /\ h[n] = "low" /\ h[n - 1] = "read"

(* Both lines move only after one. *)
Careful(s, i) == s.sda # i.sda /\ s.scl # i.scl => Answered(s.heard)

(* The conditions t[0], t[1], ... the instructions of p make. *)
Plays(t, p) ==
    /\ t \in [0 .. Len(p) -> Lines]
    /\ \A k \in 1 .. Len(p) : t[k] = Played(t[k - 1], p[k]) /\ Careful(t[k - 1], p[k])

(* The engine playing p gets from s to u. *)
Leads(p, s, u) ==
    /\ p \in Seq(Instructions)
    /\ \E t : Plays(t, p) /\ t[0] = s /\ t[Len(p)] = u

(* An instruction puts levels on the lines; what is heard is added.          *)
LEMMA PlayedIsLines ==
    ASSUME NEW s \in Lines, NEW i \in Instructions
    PROVE  /\ Heard1(s, i) \in Seq(Sounds)
           /\ Played(s, i) \in Lines
<1>1. /\ s.heard \in Seq(Sounds) /\ i.sda \in {0, 1} /\ i.scl \in {0, 1}
      /\ i.read \in BOOLEAN
  BY DEF Lines, Instructions
<1>2. Heard1(s, i) \in Seq(Sounds)
  <2>1. \A e \in Sounds : <<e>> \in Seq(Sounds)
    OBVIOUS
  <2>2. <<>> \in Seq(Sounds)
    OBVIOUS
  <2>3. "start" \in Sounds /\ "stop" \in Sounds /\ "read" \in Sounds /\ Level(i.sda) \in Sounds
    BY DEF Sounds, Level
  <2>4. (IF i.sda = 0 THEN "start" ELSE "stop") \in Sounds
    BY <2>3
  <2> QED
    BY <2>1, <2>2, <2>3, <2>4, Zenon DEF Heard1
<1>3. s.heard \o Heard1(s, i) \in Seq(Sounds)
  BY <1>1, <1>2, ConcatProperties
<1> QED
  BY <1>1, <1>2, <1>3 DEF Played, On, Lines

(* What an abbreviation for the lines stands for.                           *)
LEMMA OnIsLines ==
    ASSUME NEW data \in {0, 1}, NEW clock \in {0, 1}, NEW h \in Seq(Sounds)
    PROVE  /\ On(data, clock, h) \in Lines
           /\ On(data, clock, h).sda = data
           /\ On(data, clock, h).scl = clock
           /\ On(data, clock, h).heard = h
BY DEF On, Lines

(* No program leads nowhere.                                                 *)
LEMMA LeadsNowhere ==
    ASSUME NEW s \in Lines
    PROVE  Leads(<<>>, s, s)
<1> DEFINE t == [k \in 0 .. 0 |-> s]
<1>1. <<>> \in Seq(Instructions) /\ Len(<<>>) = 0
  OBVIOUS
<1>2. Plays(t, <<>>)
  BY <1>1 DEF Plays
<1> QED
  BY <1>1, <1>2 DEF Leads

(* One instruction leads to what it plays.                                   *)
LEMMA LeadsOne ==
    ASSUME NEW s \in Lines, NEW i \in Instructions, Careful(s, i)
    PROVE  Leads(<<i>>, s, Played(s, i))
<1> DEFINE u == Played(s, i)
           t == [k \in 0 .. 1 |-> IF k = 0 THEN s ELSE u]
<1>1. u \in Lines
  BY PlayedIsLines
<1> HIDE DEF u
<1>2. <<i>> \in Seq(Instructions) /\ Len(<<i>>) = 1 /\ <<i>>[1] = i
  OBVIOUS
<1>3. t \in [0 .. 1 -> Lines] /\ t[0] = s /\ t[1] = u
  BY <1>1
<1> HIDE DEF t
<1>4. Plays(t, <<i>>)
  <2>1. ASSUME NEW k \in 1 .. Len(<<i>>)
        PROVE  t[k] = Played(t[k - 1], <<i>>[k]) /\ Careful(t[k - 1], <<i>>[k])
    <3>1. k = 1 /\ k - 1 = 0
      BY <1>2
    <3> QED
      BY <1>2, <1>3, <3>1 DEF u
  <2> QED
    BY <1>2, <1>3, <2>1 DEF Plays
<1> QED
  BY <1>2, <1>3, <1>4 DEF Leads, u

(* Two programs, one after the other.                                        *)
LEMMA LeadsOn ==
    ASSUME NEW p, NEW q, NEW s, NEW u, NEW w,
           Leads(p, s, u), Leads(q, u, w)
    PROVE  Leads(p \o q, s, w)
<1>1. PICK f : Plays(f, p) /\ f[0] = s /\ f[Len(p)] = u
  BY DEF Leads
<1>2. PICK g : Plays(g, q) /\ g[0] = u /\ g[Len(q)] = w
  BY DEF Leads
<1>3. p \in Seq(Instructions) /\ q \in Seq(Instructions)
  BY DEF Leads
<1> DEFINE m == Len(p)
           n == Len(q)
           r == p \o q
           t == [k \in 0 .. m + n |-> IF k <= m THEN f[k] ELSE g[k - m]]
<1>4. /\ m \in Nat /\ n \in Nat /\ r \in Seq(Instructions) /\ Len(r) = m + n
      /\ \A k \in 1 .. m + n : r[k] = IF k <= m THEN p[k] ELSE q[k - m]
  BY <1>3, ConcatProperties, LenProperties
<1> HIDE DEF r, m, n
<1>5. /\ f \in [0 .. m -> Lines] /\ g \in [0 .. n -> Lines]
      /\ \A k \in 1 .. m : f[k] = Played(f[k - 1], p[k]) /\ Careful(f[k - 1], p[k])
      /\ \A k \in 1 .. n : g[k] = Played(g[k - 1], q[k]) /\ Careful(g[k - 1], q[k])
  BY <1>1, <1>2 DEF Plays, m, n
<1>6. /\ f[0] = s /\ f[m] = u /\ g[0] = u /\ g[n] = w
  BY <1>1, <1>2 DEF m, n
<1>7. t \in [0 .. m + n -> Lines]
  BY <1>4, <1>5
<1>8. \A k \in 0 .. m : t[k] = f[k]
  BY <1>4
<1>9. \A k \in 0 .. n : t[m + k] = g[k]
  <2> TAKE k \in 0 .. n
  <2>1. m + k \in 0 .. m + n /\ (m + k <= m <=> k = 0) /\ (m + k) - m = k
    BY <1>4
  <2> QED
    BY <1>4, <1>6, <2>1
<1> HIDE DEF t
<1>10. ASSUME NEW k \in 1 .. m + n
       PROVE  t[k] = Played(t[k - 1], r[k]) /\ Careful(t[k - 1], r[k])
  <2>1. CASE k <= m
    <3>1. k \in 1 .. m /\ k \in 0 .. m /\ k - 1 \in 0 .. m
      BY <1>4, <2>1
    <3>2. t[k] = f[k] /\ t[k - 1] = f[k - 1] /\ r[k] = p[k]
      BY <1>4, <1>8, <2>1, <3>1
    <3> QED
      BY <1>5, <3>1, <3>2
  <2>2. CASE k > m
    <3> DEFINE j == k - m
    <3>1. /\ j \in 1 .. n /\ j \in 0 .. n /\ j - 1 \in 0 .. n
          /\ k = m + j /\ k - 1 = m + (j - 1) /\ ~ (k <= m)
      BY <1>4, <2>2
    <3>2. r[k] = q[j]
      BY <1>4, <3>1
    <3> HIDE DEF j
    <3>3. t[k] = g[j] /\ t[k - 1] = g[j - 1]
      BY <1>9, <3>1
    <3> QED
      BY <1>5, <3>1, <3>2, <3>3
  <2> QED
    BY <1>4, <2>1, <2>2
<1>11. t[0] = s /\ t[m + n] = w
  <2>1. 0 \in 0 .. m /\ n \in 0 .. n
    BY <1>4
  <2> QED
    BY <1>6, <1>8, <1>9, <2>1
<1>12. Plays(t, r)
  BY <1>4, <1>7, <1>10 DEF Plays
<1>13. Leads(r, s, w)
  BY <1>4, <1>11, <1>12 DEF Leads
<1> QED
  BY <1>13 DEF r

(* Programs, one after the other.  a[m] is the level of data after the first *)
(* m; x[m] is what is heard of the m-th, if what was heard before it is in   *)
(* H[m - 1], which puts what was heard after it into H[m].                   *)
Through(n, p, x, a, H) ==
    /\ n \in Nat /\ a[0] \in {0, 1}
    /\ p \in [1 .. n -> Seq(Instructions)]
    /\ x \in [1 .. n -> Seq(Sounds)]
    /\ \A m \in 1 .. n : \A h \in H[m - 1] \cap Seq(Sounds) :
          /\ Leads(p[m], On(a[m - 1], 1, h), On(a[m], 1, h \o x[m]))
          /\ h \o x[m] \in H[m]

(* All of them lead from the first lines to the last.                        *)
LEMMA LeadsThrough ==
    ASSUME NEW n, NEW p, NEW x, NEW a, NEW H, Through(n, p, x, a, H),
           NEW h0 \in Seq(Sounds), h0 \in H[0]
    PROVE  /\ Leads(FlattenSeq(p), On(a[0], 1, h0), On(a[n], 1, h0 \o FlattenSeq(x)))
           /\ FlattenSeq(x) \in Seq(Sounds)
           /\ h0 \o FlattenSeq(x) \in H[n]
<1> /\ n \in Nat /\ a[0] \in {0, 1}
    /\ p \in [1 .. n -> Seq(Instructions)]
    /\ x \in [1 .. n -> Seq(Sounds)]
    /\ \A m \in 1 .. n : \A h \in H[m - 1] \cap Seq(Sounds) :
          /\ Leads(p[m], On(a[m - 1], 1, h), On(a[m], 1, h \o x[m]))
          /\ h \o x[m] \in H[m]
  BY DEF Through
<1>0. \A y, z \in Seq(Sounds) : (h0 \o y) \o z = h0 \o (y \o z)
  BY ONLY h0 \in Seq(Sounds)
<1> DEFINE X(m) == FlattenSeq([i \in 1 .. m |-> x[i]])
           Fit == [m \in 0 .. n |->
                     {s \in Seq(Instructions) :
                        /\ Leads(s, On(a[0], 1, h0), On(a[m], 1, h0 \o X(m)))
                        /\ h0 \o X(m) \in H[m]}]
<1>1. X(0) = <<>>
  BY DEF FlattenSeq
<1>2. \A m \in 0 .. n : X(m) \in Seq(Sounds)
  <2> TAKE m \in 0 .. n
  <2>1. m \in Nat /\ [i \in 1 .. m |-> x[i]] \in [1 .. m -> Seq(Sounds)]
    OBVIOUS
  <2> QED
    BY <2>1, FlattenSeqIsASeq
<1>3. \A m \in 0 .. n - 1 : X(m + 1) = X(m) \o x[m + 1]
  <2> TAKE m \in 0 .. n - 1
  <2> DEFINE y == [i \in 1 .. m + 1 |-> x[i]]
  <2>1. /\ m \in Nat /\ y \in [1 .. m + 1 -> Seq(Sounds)]
        /\ [i \in 1 .. m |-> y[i]] = [i \in 1 .. m |-> x[i]] /\ y[m + 1] = x[m + 1]
    OBVIOUS
  <2>2. FlattenSeq(y) = FlattenSeq([i \in 1 .. m |-> y[i]]) \o y[m + 1]
    <3> HIDE DEF y
    <3> QED
      BY <2>1, FlattenMore
  <2> QED
    BY <2>1, <2>2
<1> HIDE DEF X
<1>4. <<>> \in Fit[0]
  <2>1. h0 \o X(0) = h0
    BY <1>1, ConcatEmptySeq
  <2>2. On(a[0], 1, h0) \in Lines
    BY OnIsLines
  <2>3. Leads(<<>>, On(a[0], 1, h0), On(a[0], 1, h0))
    BY <2>2, LeadsNowhere
  <2>4. Fit[0] = {z \in Seq(Instructions) :
                     /\ Leads(z, On(a[0], 1, h0), On(a[0], 1, h0 \o X(0)))
                     /\ h0 \o X(0) \in H[0]}
    OBVIOUS
  <2>5. <<>> \in Seq(Instructions)
    OBVIOUS
  <2> HIDE DEF Fit
  <2> QED
    BY <2>1, <2>3, <2>4, <2>5
<1>5. ASSUME NEW m \in 0 .. n - 1, NEW s \in Fit[m] \cap Seq(Instructions)
      PROVE  s \o p[m + 1] \in Fit[m + 1]
  <2> DEFINE h == h0 \o X(m)
  <2>1. m \in 0 .. n /\ m + 1 \in 0 .. n /\ m + 1 \in 1 .. n /\ (m + 1) - 1 = m
    OBVIOUS
  <2>2. s \in Seq(Instructions) /\ p[m + 1] \in Seq(Instructions) /\ x[m + 1] \in Seq(Sounds)
    BY <2>1
  <2>3. Leads(s, On(a[0], 1, h0), On(a[m], 1, h)) /\ h \in H[m]
    BY <2>1
  <2>4. h \in Seq(Sounds)
    BY <1>2, <2>1, ConcatProperties
  <2>5. h0 \o X(m + 1) = h \o x[m + 1]
    <3>1. X(m) \in Seq(Sounds) /\ X(m + 1) = X(m) \o x[m + 1]
      BY <1>2, <1>3, <2>1
    <3>2. (h0 \o X(m)) \o x[m + 1] = h0 \o (X(m) \o x[m + 1])
      BY <1>0, <2>2, <3>1
    <3> QED
      BY <3>1, <3>2
  <2> HIDE DEF h
  <2>6. /\ Leads(p[m + 1], On(a[m], 1, h), On(a[m + 1], 1, h \o x[m + 1]))
        /\ h \o x[m + 1] \in H[m + 1]
    <3>1. h \in H[(m + 1) - 1] \cap Seq(Sounds)
      BY <2>1, <2>3, <2>4
    <3> QED
      BY <2>1, <3>1
  <2>7. Leads(s \o p[m + 1], On(a[0], 1, h0), On(a[m + 1], 1, h \o x[m + 1]))
    BY <2>3, <2>6, LeadsOn
  <2>8. s \o p[m + 1] \in Seq(Instructions)
    BY <2>2, ConcatProperties
  <2>9. Fit[m + 1] = {z \in Seq(Instructions) :
                        /\ Leads(z, On(a[0], 1, h0), On(a[m + 1], 1, h0 \o X(m + 1)))
                        /\ h0 \o X(m + 1) \in H[m + 1]}
    BY <2>1
  <2> HIDE DEF Fit
  <2> QED
    BY <2>5, <2>6, <2>7, <2>8, <2>9
<1>6. FlattenSeq(p) \in Fit[n]
  <2> HIDE DEF Fit
  <2> QED
    BY <1>4, <1>5, FlattenBuilds
<1>7. X(n) = FlattenSeq(x)
  <2>1. [i \in 1 .. n |-> x[i]] = x
    OBVIOUS
  <2> QED
    BY <2>1 DEF X
<1> QED
  BY <1>2, <1>6, <1>7

-----------------------------------------------------------------------------
(* The parts of a program.                                                   *)

(* An instruction puts the two levels it was made with on the lines.         *)
LEMMA PutIsInstruction ==
    ASSUME NEW data \in {0, 1}, NEW clock \in {0, 1}
    PROVE  /\ Put(data, clock) \in Instructions
           /\ Put(data, clock).sda = 1 - data
           /\ Put(data, clock).scl = 1 - clock
           /\ Put(data, clock).read = FALSE
           /\ 1 - data \in {0, 1} /\ 1 - clock \in {0, 1}
BY DEF Put, Instructions

(* The clock goes low, or stays low: nothing is heard.                       *)
LEMMA ClockLow ==
    ASSUME NEW d \in {0, 1}, NEW c \in {0, 1}, NEW h \in Seq(Sounds), NEW data \in {0, 1},
           c = 0 \/ d = 1 - data \/ Answered(h)
    PROVE  Leads(<<Put(data, 1)>>, On(d, c, h), On(1 - data, 0, h))
<1> DEFINE i == Put(data, 1)
           s == On(d, c, h)
<1>1. s \in Lines /\ s.sda = d /\ s.scl = c /\ s.heard = h
  BY OnIsLines
<1>2. i \in Instructions /\ i.sda = 1 - data /\ i.scl = 0 /\ i.read = FALSE
  BY PutIsInstruction, 1 \in {0, 1}, 1 - 1 = 0, Zenon
<1> HIDE DEF i, s
<1>3. Careful(s, i)
  BY <1>1, <1>2 DEF Careful
<1>4. Heard1(s, i) = <<>>
  BY <1>1, <1>2 DEF Heard1
<1>5. Played(s, i) = On(1 - data, 0, h)
  <2>1. h \o <<>> = h
    OBVIOUS
  <2> QED
    BY <1>1, <1>2, <1>4, <2>1 DEF Played
<1> QED
  BY <1>1, <1>2, <1>3, <1>5, LeadsOne DEF i, s

(* The clock rises with data as it is: the level is heard.                   *)
LEMMA ClockRises ==
    ASSUME NEW h \in Seq(Sounds), NEW data \in {0, 1}
    PROVE  Leads(<<Put(data, 0)>>, On(1 - data, 0, h),
                 On(1 - data, 1, h \o <<Level(1 - data)>>))
<1> DEFINE i == Put(data, 0)
           s == On(1 - data, 0, h)
<1>1. s \in Lines /\ s.sda = 1 - data /\ s.scl = 0 /\ s.heard = h
  BY OnIsLines, 1 - data \in {0, 1}
<1>2. i \in Instructions /\ i.sda = 1 - data /\ i.scl = 1 /\ i.read = FALSE
  BY PutIsInstruction, 0 \in {0, 1}, 1 - 0 = 1, Zenon
<1> HIDE DEF i, s
<1>3. Careful(s, i)
  BY <1>1, <1>2 DEF Careful
<1>4. Heard1(s, i) = <<Level(1 - data)>>
  BY <1>1, <1>2 DEF Heard1
<1>5. Played(s, i) = On(1 - data, 1, h \o <<Level(1 - data)>>)
  BY <1>1, <1>2, <1>4 DEF Played
<1> QED
  BY <1>1, <1>2, <1>3, <1>5, LeadsOne DEF i, s

(* The clock stays high: a start or a stop is heard if data moves.           *)
LEMMA ClockStays ==
    ASSUME NEW d \in {0, 1}, NEW h \in Seq(Sounds), NEW data \in {0, 1}
    PROVE  Leads(<<Put(data, 0)>>, On(d, 1, h),
                 On(1 - data, 1,
                    h \o (IF d = 1 - data THEN <<>>
                          ELSE IF data = 1 THEN <<"start">> ELSE <<"stop">>)))
<1> DEFINE i == Put(data, 0)
           s == On(d, 1, h)
<1>1. s \in Lines /\ s.sda = d /\ s.scl = 1 /\ s.heard = h
  BY OnIsLines
<1>2. i \in Instructions /\ i.sda = 1 - data /\ i.scl = 1 /\ i.read = FALSE
  BY PutIsInstruction, 0 \in {0, 1}, 1 - 0 = 1, Zenon
<1> HIDE DEF i, s
<1>3. Careful(s, i)
  BY <1>1, <1>2 DEF Careful
<1>4. Heard1(s, i) = IF d = 1 - data THEN <<>>
                     ELSE IF data = 1 THEN <<"start">> ELSE <<"stop">>
  BY <1>1, <1>2 DEF Heard1
<1>5. Played(s, i) = On(1 - data, 1,
                        h \o (IF d = 1 - data THEN <<>>
                              ELSE IF data = 1 THEN <<"start">> ELSE <<"stop">>))
  BY <1>1, <1>2, <1>4 DEF Played
<1> QED
  BY <1>1, <1>2, <1>3, <1>5, LeadsOne DEF i, s

(* The level of data is noted, both lines being high.                        *)
LEMMA LevelIsRead ==
    ASSUME NEW h \in Seq(Sounds)
    PROVE  Leads(<<[Put(0, 0) EXCEPT !.read = TRUE]>>, On(1, 1, h), On(1, 1, h \o <<"read">>))
<1> DEFINE i == [Put(0, 0) EXCEPT !.read = TRUE]
           s == On(1, 1, h)
<1>1. s \in Lines /\ s.sda = 1 /\ s.scl = 1 /\ s.heard = h
  BY OnIsLines
<1>2. i \in Instructions /\ i.sda = 1 /\ i.scl = 1 /\ i.read = TRUE
  <2>1. Put(0, 0) \in Instructions /\ Put(0, 0).sda = 1 /\ Put(0, 0).scl = 1
    BY PutIsInstruction, 0 \in {0, 1}, 1 - 0 = 1, Zenon
  <2>2. i \in Instructions /\ i.sda = Put(0, 0).sda /\ i.scl = Put(0, 0).scl /\ i.read = TRUE
    BY <2>1 DEF Instructions
  <2> QED
    BY <2>1, <2>2
<1> HIDE DEF i, s
<1>3. Careful(s, i)
  BY <1>1, <1>2 DEF Careful
<1>4. Heard1(s, i) = <<"read">>
  BY <1>1, <1>2 DEF Heard1
<1>5. Played(s, i) = On(1, 1, h \o <<"read">>)
  BY <1>1, <1>2, <1>4 DEF Played
<1> QED
  BY <1>1, <1>2, <1>3, <1>5, LeadsOne DEF i, s

(* A bit is written with three instructions.                                 *)
LEMMA BitIsInstructions ==
    ASSUME NEW old \in {0, 1}, NEW bit \in {0, 1}
    PROVE  /\ writebits(old, bit) \in Seq(Instructions)
           /\ Len(writebits(old, bit)) <= 3
<1>1. 1 - old \in {0, 1} /\ 1 - bit \in {0, 1} /\ 0 \in {0, 1} /\ 1 \in {0, 1}
  OBVIOUS
<1>2. /\ Put(1 - old, 1) \in Instructions /\ Put(1 - bit, 1) \in Instructions
      /\ Put(1 - bit, 0) \in Instructions
  BY <1>1, PutIsInstruction, Zenon
<1> QED
  BY <1>2 DEF writebits

(* A bit is written: it is heard once, and data keeps its level.             *)
LEMMA BitIsHeard ==
    ASSUME NEW old \in {0, 1}, NEW bit \in {0, 1}, NEW d \in {0, 1}, NEW h \in Seq(Sounds),
           d = old \/ Answered(h)
    PROVE  Leads(writebits(old, bit), On(d, 1, h), On(bit, 1, h \o <<Level(bit)>>))
<1>1. /\ 1 - old \in {0, 1} /\ 1 - bit \in {0, 1}
      /\ 1 - (1 - old) = old /\ 1 - (1 - bit) = bit
  OBVIOUS
<1>2. Leads(<<Put(1 - old, 1)>>, On(d, 1, h), On(old, 0, h))
  BY <1>1, ClockLow
<1>3. Leads(<<Put(1 - bit, 1)>>, On(old, 0, h), On(bit, 0, h))
  BY <1>1, ClockLow
<1>4. Leads(<<Put(1 - bit, 0)>>, On(bit, 0, h), On(bit, 1, h \o <<Level(bit)>>))
  BY <1>1, ClockRises
<1>5. Leads(<<Put(1 - old, 1), Put(1 - bit, 1)>>, On(d, 1, h), On(bit, 0, h))
  BY <1>2, <1>3, LeadsOn, Join11
<1>6. Leads(writebits(old, bit), On(d, 1, h), On(bit, 1, h \o <<Level(bit)>>))
  <2>1. <<Put(1 - old, 1), Put(1 - bit, 1)>> \o <<Put(1 - bit, 0)>> = writebits(old, bit)
    BY Join21 DEF writebits
  <2> QED
    BY <1>4, <1>5, <2>1, LeadsOn
<1> QED
  BY <1>6
(* Bits are written one after the other: each is heard, the first first.     *)
LEMMA BitsAreHeard ==
    ASSUME NEW n \in Nat, NEW bits \in [1 .. n -> {0, 1}], NEW old \in {0, 1},
           NEW h \in Seq(Sounds)
    PROVE  /\ Leads(WriteAll(old, bits), On(old, 1, h),
                    On(IF n = 0 THEN old ELSE bits[n], 1, h \o Levels(bits)))
           /\ Levels(bits) \in Seq(Sounds)
           /\ Len(WriteAll(old, bits)) <= n * 3
<1> DEFINE a == [m \in 0 .. n |-> IF m = 0 THEN old ELSE bits[m]]
           H == [m \in 0 .. n |-> Seq(Sounds)]
           p == [m \in 1 .. n |-> writebits(IF m = 1 THEN old ELSE bits[m - 1], bits[m])]
           e == [m \in 1 .. n |-> Level(bits[m])]
           x == [m \in 1 .. n |-> <<e[m]>>]
<1>1. /\ a[0] = old /\ a[n] = (IF n = 0 THEN old ELSE bits[n])
      /\ h \in H[0]
  OBVIOUS
<1>2. \A m \in 1 .. n :
         /\ m - 1 \in 0 .. n
         /\ a[m - 1] \in {0, 1} /\ a[m] \in {0, 1}
         /\ p[m] = writebits(a[m - 1], a[m])
         /\ x[m] = <<Level(a[m])>>
         /\ H[m - 1] = Seq(Sounds) /\ H[m] = Seq(Sounds)
  OBVIOUS
<1>3. /\ e \in [1 .. n -> Sounds] /\ e \in Seq(Sounds)
      /\ Levels(bits) = e
  <2>1. DOMAIN bits = 1 .. n
    OBVIOUS
  <2> QED
    BY <2>1 DEF Levels, Level, Sounds
<1>4. x \in [1 .. n -> Seq(Sounds)]
  BY <1>3
<1>5. p \in [1 .. n -> Seq(Instructions)] /\ \A m \in 1 .. n : Len(p[m]) <= 3
  <2> SUFFICES ASSUME NEW m \in 1 .. n
               PROVE  p[m] \in Seq(Instructions) /\ Len(p[m]) <= 3
    OBVIOUS
  <2> HIDE DEF a, p, x, H
  <2>1. writebits(a[m - 1], a[m]) \in Seq(Instructions) /\ Len(writebits(a[m - 1], a[m])) <= 3
    <3>1. a[m - 1] \in {0, 1} /\ a[m] \in {0, 1}
      BY <1>2
    <3> QED
      BY <3>1, BitIsInstructions
  <2>2. p[m] = writebits(a[m - 1], a[m])
    BY <1>2
  <2> QED
    BY <2>1, <2>2
<1>6. WriteAll(old, bits) = FlattenSeq(p)
  <2>1. DOMAIN bits = 1 .. n
    OBVIOUS
  <2> QED
    BY <2>1 DEF WriteAll
<1>7. FlattenSeq(x) = e
  <2> HIDE DEF e
  <2> QED
    BY <1>3, FlattenSingles
<1> HIDE DEF a, H, p, x, e
<1>8. ASSUME NEW m \in 1 .. n, NEW g \in H[m - 1] \cap Seq(Sounds)
      PROVE  /\ Leads(p[m], On(a[m - 1], 1, g), On(a[m], 1, g \o x[m]))
             /\ g \o x[m] \in H[m]
  <2>1. g \in Seq(Sounds)
    OBVIOUS
  <2>2. Leads(writebits(a[m - 1], a[m]), On(a[m - 1], 1, g),
              On(a[m], 1, g \o <<Level(a[m])>>))
    BY <1>2, <2>1, BitIsHeard
  <2>3. g \o x[m] \in Seq(Sounds)
    BY <1>4, <2>1, ConcatProperties
  <2> QED
    BY <1>2, <2>2, <2>3
<1>9. Leads(FlattenSeq(p), On(a[0], 1, h), On(a[n], 1, h \o FlattenSeq(x)))
  <2>1. a[0] \in {0, 1} /\ h \in H[0]
    BY <1>1
  <2>2. \A m \in 1 .. n : \A g \in H[m - 1] \cap Seq(Sounds) :
           /\ Leads(p[m], On(a[m - 1], 1, g), On(a[m], 1, g \o x[m]))
           /\ g \o x[m] \in H[m]
    BY <1>8
  <2>3. Through(n, p, x, a, H)
    BY <1>4, <1>5, <2>1, <2>2 DEF Through
  <2> QED
    BY <2>1, <2>3, LeadsThrough
<1>10. Len(FlattenSeq(p)) <= n * 3
  BY <1>5, FlattenedLength
<1> QED
  BY <1>1, <1>3, <1>6, <1>7, <1>9, <1>10

(* The bits of a number are bits.                                            *)
LEMMA BitsAreBits ==
    ASSUME NEW v \in Nat, NEW n \in Nat
    PROVE  Bits(v, n) \in [1 .. n -> {0, 1}]
<1> SUFFICES ASSUME NEW i \in 1 .. n PROVE Bit(v, n, i) \in {0, 1}
  BY DEF Bits
<1>1. n - i \in Nat
  OBVIOUS
<1>2. \A k \in Nat : (v \div (2 ^ k)) % 2 \in {0, 1}
  OBVIOUS
<1> QED
  BY <1>1, <1>2 DEF Bit

(* A number is sent, and what ends it, a 1 at last: all that is heard, the   *)
(* highest bit first, and data is free then.                                 *)
LEMMA NumberIsHeard ==
    ASSUME NEW v \in Nat, NEW n \in Nat, NEW k \in Nat \ {0},
           NEW ends \in [1 .. k -> {0, 1}], ends[k] = 1,
           NEW old \in {0, 1}, NEW h \in Seq(Sounds)
    PROVE  LET bits == Bits(v, n) \o ends
           IN  /\ Leads(WriteAll(old, bits), On(old, 1, h), On(1, 1, h \o Levels(bits)))
               /\ Levels(bits) \in Seq(Sounds)
               /\ Len(WriteAll(old, bits)) <= (n + k) * 3
<1> DEFINE bits == Bits(v, n) \o ends
           m == n + k
<1>1. Bits(v, n) \in [1 .. n -> {0, 1}]
  BY BitsAreBits
<1>2. bits \in [1 .. m -> {0, 1}] /\ bits[m] = 1
  <2> DEFINE B == {0, 1}
  <2>1. Bits(v, n) \in [1 .. n -> B] /\ ends \in [1 .. k -> B]
    BY <1>1
  <2>2. \A f \in [1 .. n -> B], g \in [1 .. k -> B] :
           f \o g \in [1 .. n + k -> B] /\ (f \o g)[n + k] = g[k]
    <3> HIDE DEF B
    <3> TAKE f \in [1 .. n -> B], g \in [1 .. k -> B]
    <3>1. f \o g \in [1 .. n + k -> B]
      BY JoinedIsFunction
    <3>2. (f \o g)[n + k] = g[k]
      BY JoinedLast
    <3> QED
      BY <3>1, <3>2, Zenon
  <2> HIDE DEF B
  <2>3. bits \in [1 .. n + k -> B] /\ bits[n + k] = ends[k]
    BY <2>1, <2>2, Zenon
  <2> QED
    BY <2>3 DEF B
<1>3. m \in Nat /\ m # 0
  OBVIOUS
<1> HIDE DEF bits, m
<1>4. /\ Leads(WriteAll(old, bits), On(old, 1, h),
               On(IF m = 0 THEN old ELSE bits[m], 1, h \o Levels(bits)))
      /\ Levels(bits) \in Seq(Sounds)
      /\ Len(WriteAll(old, bits)) <= m * 3
  BY <1>2, <1>3, BitsAreHeard
<1>5. (IF m = 0 THEN old ELSE bits[m]) = 1
  BY <1>2, <1>3
<1> QED
  BY <1>4, <1>5 DEF bits, m

(* The address, the direction and the slot for the answer.                   *)
LEMMA AddressIsHeard ==
    ASSUME NEW addr \in 0 .. 127, NEW direction \in {0, 1}, NEW h \in Seq(Sounds)
    PROVE  LET x == Levels(Bits(addr, 7) \o <<direction, 1>>)
           IN  /\ Leads(Address(addr, direction), On(0, 1, h), On(1, 1, h \o x))
               /\ x \in Seq(Sounds)
               /\ Len(Address(addr, direction)) <= 27
<1> DEFINE bits == Bits(addr, 7) \o <<direction, 1>>
<1>1. <<direction, 1>> \in [1 .. 2 -> {0, 1}] /\ <<direction, 1>>[2] = 1
  OBVIOUS
<1>2. /\ Leads(WriteAll(0, bits), On(0, 1, h), On(1, 1, h \o Levels(bits)))
      /\ Levels(bits) \in Seq(Sounds)
      /\ Len(WriteAll(0, bits)) <= (7 + 2) * 3
  <2>1. addr \in Nat /\ 7 \in Nat /\ 2 \in Nat \ {0} /\ 0 \in {0, 1}
    OBVIOUS
  <2> QED
    BY <1>1, <2>1, NumberIsHeard
<1> QED
  BY <1>2 DEF Address

(* A byte and the slot for the answer.                                       *)
LEMMA ByteIsHeard ==
    ASSUME NEW v \in 0 .. 255, NEW h \in Seq(Sounds)
    PROVE  LET x == Levels(Bits(v, 8) \o <<1>>)
               p == WriteAll(1, Bits(v, 8) \o <<1>>)
           IN  /\ Leads(p, On(1, 1, h), On(1, 1, h \o x))
               /\ x \in Seq(Sounds)
               /\ Len(p) <= 27
<1> DEFINE bits == Bits(v, 8) \o <<1>>
<1>1. <<1>> \in [1 .. 1 -> {0, 1}] /\ <<1>>[1] = 1
  OBVIOUS
<1>2. /\ Leads(WriteAll(1, bits), On(1, 1, h), On(1, 1, h \o Levels(bits)))
      /\ Levels(bits) \in Seq(Sounds)
      /\ Len(WriteAll(1, bits)) <= (8 + 1) * 3
  <2>1. v \in Nat /\ 8 \in Nat /\ 1 \in Nat \ {0} /\ 1 \in {0, 1}
    OBVIOUS
  <2> QED
    BY <1>1, <2>1, NumberIsHeard
<1> QED
  BY <1>2

(* What is sent, byte by byte.                                               *)
LEMMA ValueIsHeard ==
    ASSUME NEW n \in 0 .. 16, NEW value \in [1 .. n -> 0 .. 255], NEW h \in Seq(Sounds)
    PROVE  LET p == FlattenSeq([i \in DOMAIN value |->
                                   WriteAll(1, Bits(value[i], 8) \o <<1>>)])
               x == FlattenSeq([i \in DOMAIN value |-> Levels(Bits(value[i], 8) \o <<1>>)])
           IN  /\ Leads(p, On(1, 1, h), On(1, 1, h \o x))
               /\ x \in Seq(Sounds)
               /\ Len(p) <= 432
<1> DEFINE p == [i \in 1 .. n |-> WriteAll(1, Bits(value[i], 8) \o <<1>>)]
           x == [i \in 1 .. n |-> Levels(Bits(value[i], 8) \o <<1>>)]
           a == [m \in 0 .. n |-> 1]
           H == [m \in 0 .. n |-> Seq(Sounds)]
<1>1. DOMAIN value = 1 .. n
  OBVIOUS
<1>2. ASSUME NEW m \in 1 .. n, NEW g \in Seq(Sounds)
      PROVE  /\ Leads(p[m], On(1, 1, g), On(1, 1, g \o x[m]))
             /\ x[m] \in Seq(Sounds)
             /\ Len(p[m]) <= 27
  <2>1. /\ value[m] \in 0 .. 255
        /\ p[m] = WriteAll(1, Bits(value[m], 8) \o <<1>>)
        /\ x[m] = Levels(Bits(value[m], 8) \o <<1>>)
    OBVIOUS
  <2> HIDE DEF p, x
  <2>2. /\ Leads(WriteAll(1, Bits(value[m], 8) \o <<1>>), On(1, 1, g),
                 On(1, 1, g \o Levels(Bits(value[m], 8) \o <<1>>)))
        /\ Levels(Bits(value[m], 8) \o <<1>>) \in Seq(Sounds)
        /\ Len(WriteAll(1, Bits(value[m], 8) \o <<1>>)) <= 27
    BY <2>1, ByteIsHeard
  <2> QED
    BY <2>1, <2>2
<1>3. /\ p \in [1 .. n -> Seq(Instructions)]
      /\ x \in [1 .. n -> Seq(Sounds)]
  <2>1. \A m \in 1 .. n : p[m] \in Seq(Instructions) /\ x[m] \in Seq(Sounds)
    BY <1>2 DEF Leads
  <2>2. /\ p = [m \in 1 .. n |-> p[m]]
        /\ x = [m \in 1 .. n |-> x[m]]
    OBVIOUS
  <2> HIDE DEF p, x
  <2> QED
    BY <2>1, <2>2
<1>4. /\ n \in Nat /\ a[0] = 1 /\ a[n] = 1 /\ H[0] = Seq(Sounds)
      /\ \A m \in 1 .. n :
            a[m - 1] = 1 /\ a[m] = 1 /\ H[m - 1] = Seq(Sounds) /\ H[m] = Seq(Sounds)
  OBVIOUS
<1> HIDE DEF p, x, a, H
<1>5. Through(n, p, x, a, H)
  <2>1. ASSUME NEW m \in 1 .. n, NEW g \in H[m - 1] \cap Seq(Sounds)
        PROVE  /\ Leads(p[m], On(a[m - 1], 1, g), On(a[m], 1, g \o x[m]))
               /\ g \o x[m] \in H[m]
    <3>1. g \in Seq(Sounds) /\ x[m] \in Seq(Sounds) /\ g \o x[m] \in Seq(Sounds)
      BY <1>3, ConcatProperties
    <3> QED
      BY <1>2, <1>4, <3>1
  <2> QED
    BY <1>3, <1>4, <2>1 DEF Through
<1>6. /\ Leads(FlattenSeq(p), On(1, 1, h), On(1, 1, h \o FlattenSeq(x)))
      /\ FlattenSeq(x) \in Seq(Sounds)
  BY <1>4, <1>5, LeadsThrough
<1>7. Len(FlattenSeq(p)) <= 432
  <2>1. \A m \in 1 .. n : Len(p[m]) <= 27
    BY <1>2
  <2>2. Len(FlattenSeq(p)) <= n * 27
    BY <1>3, <1>4, <2>1, FlattenedLength, 27 \in Nat
  <2>3. n * 27 <= 432
    OBVIOUS
  <2>4. Len(FlattenSeq(p)) \in Nat
    BY <1>6, LenProperties DEF Leads
  <2> QED
    BY <1>4, <2>2, <2>3, <2>4
<1> QED
  BY <1>1, <1>6, <1>7 DEF p, x

-----------------------------------------------------------------------------
(* Reading.                                                                  *)

(* What has been heard ends with an answer after a byte that is not the last.*)
LEMMA ReceivedEndsWithAnswer ==
    ASSUME NEW h \in Seq(Sounds)
    PROVE  /\ \A last \in BOOLEAN : Received(last) \in Seq(Sounds)
           /\ Answered(h \o Received(FALSE))
<1> DEFINE e == [i \in 1 .. 7 + 1 |-> <<"high", "read">>]
           f == [i \in 1 .. 7 |-> e[i]]
           pair == <<"high", "read">>
           g == FlattenSeq(f)
           ack(last) == <<IF last THEN "high" ELSE "low">>
<1>1. pair \in Seq(Sounds) /\ Len(pair) = 2 /\ pair[2] = "read"
  BY DEF Sounds
<1>2. e \in [1 .. 7 + 1 -> Seq(Sounds)] /\ f \in [1 .. 7 -> Seq(Sounds)] /\ e[7 + 1] = pair
  BY <1>1
<1>3. g \in Seq(Sounds)
  BY <1>2, FlattenSeqIsASeq, 7 \in Nat
<1>4. FlattenSeq(e) = g \o pair
  <2>1. FlattenSeq(e) = FlattenSeq([i \in 1 .. 7 |-> e[i]]) \o e[7 + 1]
    <3> HIDE DEF e
    <3> QED
      BY <1>2, FlattenMore, 7 \in Nat
  <2> QED
    BY <1>2, <2>1
<1>5. \A last \in BOOLEAN : Received(last) = (g \o pair) \o ack(last)
  <2>1. FlattenSeq([i \in 1 .. 8 |-> <<"high", "read">>]) = FlattenSeq(e)
    BY 7 + 1 = 8
  <2> QED
    BY <1>4, <2>1 DEF Received
<1>6. \A last \in BOOLEAN :
         ack(last) \in Seq(Sounds) /\ Len(ack(last)) = 1 /\ (~ last => ack(last)[1] = "low")
  BY DEF Sounds
<1> HIDE DEF e, f, pair, g, ack
<1>7. \A last \in BOOLEAN : Received(last) \in Seq(Sounds)
  <2> TAKE last \in BOOLEAN
  <2>1. g \o pair \in Seq(Sounds) /\ ack(last) \in Seq(Sounds)
    BY <1>1, <1>3, <1>6, ConcatProperties
  <2>2. (g \o pair) \o ack(last) \in Seq(Sounds)
    BY <2>1, ConcatProperties
  <2> QED
    BY <1>5, <2>2
<1>8. Answered(h \o Received(FALSE))
  <2> DEFINE a == ack(FALSE)
             s == h \o g
             u == s \o pair
             z == u \o a
             n == Len(s)
             one == 1
             two == 2
  <2>1. a \in Seq(Sounds) /\ Len(a) = one /\ a[one] = "low"
    BY <1>6
  <2>2. s \in Seq(Sounds) /\ n \in Nat
    BY <1>3, ConcatProperties, LenProperties
  <2>3. h \o Received(FALSE) = z
    <3>1. Received(FALSE) = (g \o pair) \o a
      BY <1>5
    <3> HIDE DEF a
    <3> HIDE DEF g, pair
    <3>2. g \in Seq(Sounds)
      BY <1>3
    <3>3. pair \in Seq(Sounds)
      BY <1>1
    <3>4. a \in Seq(Sounds)
      BY <2>1
    <3>5. ((h \o g) \o pair) \o a = h \o ((g \o pair) \o a)
      BY <3>2, <3>3, <3>4, SMTT(20)
    <3> QED
      BY <3>1, <3>5
  <2>4. Len(pair) = two /\ pair[two] = "read" /\ two \in Nat /\ two \in 1 .. two
    BY <1>1
  <2>5. one \in Nat /\ one \in 1 .. one
    OBVIOUS
  <2>6. two = one + one /\ one = 1
    OBVIOUS
  <2> HIDE DEF a, s, one, two
  <2>7. u \in Seq(Sounds) /\ Len(u) = n + two /\ n + two \in Nat
    BY <1>1, <2>2, <2>4, JoinedIsSeq
  <2>8. u[n + two] = "read"
    BY <1>1, <2>2, <2>4, JoinedAt
  <2> DEFINE k == n + two
  <2>9. k \in 1 .. k /\ k > 1 /\ k + one - 1 = k
    BY <2>2, <2>4, <2>6
  <2>10. u \in Seq(Sounds) /\ Len(u) = k /\ k \in Nat /\ u[k] = "read"
    BY <2>7, <2>8
  <2> HIDE DEF u, n, k
  <2>11. z \in Seq(Sounds) /\ Len(z) = k + one
    BY <2>1, <2>5, <2>10, JoinedIsSeq
  <2>12. z[k] = u[k]
    BY <2>1, <2>5, <2>9, <2>10, JoinedAt
  <2>13. z[k + one] = a[one]
    BY <2>1, <2>5, <2>10, JoinedAt
  <2> HIDE DEF z
  <2>14. Len(z) > 1 /\ z[Len(z)] = "low" /\ z[Len(z) - 1] = "read"
    <3>1. Len(z) - 1 = k /\ Len(z) > 1
      BY <2>5, <2>6, <2>9, <2>10, <2>11
    <3> QED
      BY <2>1, <2>10, <2>11, <2>12, <2>13, <3>1
  <2> QED
    BY <2>3, <2>14 DEF Answered
<1> QED
  BY <1>7, <1>8
(* A clock with data free, and its level noted.                              *)
LEMMA LevelIsHeardAndRead ==
    ASSUME NEW d \in {0, 1}, NEW h \in Seq(Sounds), d = 1 \/ Answered(h)
    PROVE  LET p == Append(writebits(1, 1), [Put(0, 0) EXCEPT !.read = TRUE])
           IN  /\ Leads(p, On(d, 1, h), On(1, 1, h \o <<"high", "read">>))
               /\ Len(p) <= 4
<1> DEFINE r == [Put(0, 0) EXCEPT !.read = TRUE]
           w == writebits(1, 1)
           p == Append(w, r)
<1>1. Leads(w, On(d, 1, h), On(1, 1, h \o <<"high">>))
  <2>1. Level(1) = "high"
    BY DEF Level
  <2>2. Leads(w, On(d, 1, h), On(1, 1, h \o <<Level(1)>>))
    BY BitIsHeard, 1 \in {0, 1}
  <2> QED
    BY <2>1, <2>2
<1>2. h \o <<"high">> \in Seq(Sounds) /\ (h \o <<"high">>) \o <<"read">> = h \o <<"high", "read">>
  <2>1. <<"high">> \in Seq(Sounds) /\ <<"read">> \in Seq(Sounds)
    BY DEF Sounds
  <2>2. <<"high">> \o <<"read">> = <<"high", "read">>
    BY Join11
  <2> DEFINE x == <<"high">>
             y == <<"read">>
  <2> HIDE DEF x, y
  <2>3. h \o x \in Seq(Sounds) /\ (h \o x) \o y = h \o (x \o y)
    BY <2>1 DEF x, y
  <2> QED
    BY <2>2, <2>3 DEF x, y
<1>3. Leads(<<r>>, On(1, 1, h \o <<"high">>), On(1, 1, (h \o <<"high">>) \o <<"read">>))
  BY <1>2, LevelIsRead
<1>4. p = w \o <<r>> /\ Len(p) <= 4
  <2>1. w \in Seq(Instructions) /\ Len(w) <= 3
    BY BitIsInstructions, 1 \in {0, 1}
  <2>2. r \in Instructions
    BY <1>3 DEF Leads
  <2> HIDE DEF w, r
  <2>3. p = w \o <<r>>
    BY <2>1, <2>2
  <2>4. Len(p) = Len(w) + 1 /\ Len(w) \in Nat
    BY <2>1, <2>2
  <2> QED
    BY <2>1, <2>3, <2>4
<1> HIDE DEF w, r
<1>5. Leads(w \o <<r>>, On(d, 1, h), On(1, 1, (h \o <<"high">>) \o <<"read">>))
  BY <1>1, <1>3, LeadsOn
<1> QED
  BY <1>2, <1>4, <1>5 DEF w, r

(* A byte is read: its eight levels, and the answer.                         *)
LEMMA ByteIsRead ==
    ASSUME NEW last \in BOOLEAN, NEW d \in {0, 1}, NEW h \in Seq(Sounds),
           d = 1 \/ Answered(h)
    PROVE  /\ Leads(ReadByte(last), On(d, 1, h),
                    On(IF last THEN 1 ELSE 0, 1, h \o Received(last)))
           /\ Len(ReadByte(last)) <= 35
<1> DEFINE n == 8
           q == Append(writebits(1, 1), [Put(0, 0) EXCEPT !.read = TRUE])
           pair == <<"high", "read">>
           b == IF last THEN 1 ELSE 0
           p == [i \in 1 .. n |-> q]
           x == [i \in 1 .. n |-> pair]
           a == [m \in 0 .. n |-> IF m = 0 THEN d ELSE 1]
           H == [m \in 0 .. n |-> IF m = 0 THEN {g \in Seq(Sounds) : d = 1 \/ Answered(g)}
                                   ELSE Seq(Sounds)]
<1>1. n \in Nat /\ n # 0 /\ n * 4 = 32 /\ n = 8
  OBVIOUS
<1>2. pair \in Seq(Sounds)
  BY DEF Sounds
<1>3. ASSUME NEW g \in Seq(Sounds), NEW c \in {0, 1}, c = 1 \/ Answered(g)
      PROVE  Leads(q, On(c, 1, g), On(1, 1, g \o pair))
  BY <1>3, LevelIsHeardAndRead
<1>4. q \in Seq(Instructions) /\ Len(q) <= 4
  <2>1. Leads(q, On(d, 1, h), On(1, 1, h \o pair)) /\ Len(q) <= 4
    BY LevelIsHeardAndRead
  <2> HIDE DEF q, pair
  <2> QED
    BY <2>1 DEF Leads
<1>5. /\ ReadByte(last) = FlattenSeq(p) \o writebits(1, b)
      /\ Received(last) = FlattenSeq(x) \o <<Level(b)>>
  BY DEF ReadByte, Received, Level
<1> HIDE DEF n, q, pair
<1>6. /\ a[0] = d /\ a[n] = 1 /\ h \in H[0]
      /\ \A m \in 1 .. n : /\ a[m - 1] \in {0, 1} /\ a[m] = 1
                            /\ H[m] = Seq(Sounds)
                            /\ p[m] = q /\ x[m] = pair
                            /\ \A g \in H[m - 1] : a[m - 1] = 1 \/ Answered(g)
  BY <1>1
<1>7. p \in [1 .. n -> Seq(Instructions)] /\ x \in [1 .. n -> Seq(Sounds)]
  BY <1>2, <1>4
<1> HIDE DEF p, x, a, H, b
<1>8. Through(n, p, x, a, H)
  <2>1. ASSUME NEW m \in 1 .. n, NEW g \in H[m - 1] \cap Seq(Sounds)
        PROVE  /\ Leads(p[m], On(a[m - 1], 1, g), On(a[m], 1, g \o x[m]))
               /\ g \o x[m] \in H[m]
    <3>1. g \in Seq(Sounds) /\ g \o pair \in Seq(Sounds)
      BY <1>2, ConcatProperties
    <3>2. Leads(q, On(a[m - 1], 1, g), On(1, 1, g \o pair))
      BY <1>3, <1>6, <3>1
    <3> QED
      BY <1>6, <3>1, <3>2
  <2> QED
    BY <1>1, <1>6, <1>7, <2>1 DEF Through
<1>9. /\ Leads(FlattenSeq(p), On(d, 1, h), On(1, 1, h \o FlattenSeq(x)))
      /\ FlattenSeq(x) \in Seq(Sounds)
  BY <1>6, <1>8, LeadsThrough
<1>10. b \in {0, 1}
  BY DEF b
<1>11. h \o FlattenSeq(x) \in Seq(Sounds) /\ <<Level(b)>> \in Seq(Sounds)
  BY <1>9, ConcatProperties DEF Level, Sounds
<1>12. Leads(writebits(1, b), On(1, 1, h \o FlattenSeq(x)),
             On(b, 1, (h \o FlattenSeq(x)) \o <<Level(b)>>))
  BY <1>10, <1>11, BitIsHeard, 1 \in {0, 1}
<1>13. (h \o FlattenSeq(x)) \o <<Level(b)>> = h \o Received(last)
  BY <1>5, <1>9, <1>11
<1>14. Leads(ReadByte(last), On(d, 1, h), On(b, 1, h \o Received(last)))
  BY <1>5, <1>9, <1>12, <1>13, LeadsOn
<1>15. Len(ReadByte(last)) <= 35
  <2> DEFINE f == FlattenSeq(p)
             w == writebits(1, b)
  <2>1. Len(f) <= n * 4
    BY <1>1, <1>4, <1>6, <1>7, FlattenedLength, 4 \in Nat
  <2>2. w \in Seq(Instructions) /\ Len(w) <= 3
    BY <1>10, BitIsInstructions, 1 \in {0, 1}
  <2>3. f \in Seq(Instructions)
    BY <1>9 DEF Leads
  <2>4. ReadByte(last) = f \o w
    BY <1>5
  <2> HIDE DEF f, w
  <2>5. Len(f \o w) = Len(f) + Len(w) /\ Len(f) \in Nat /\ Len(w) \in Nat
    BY <2>2, <2>3
  <2> QED
    BY <1>1, <2>1, <2>2, <2>4, <2>5
<1> QED
  BY <1>14, <1>15 DEF b

(* Bytes are read one after the other: all but the last are answered low,    *)
(* and data let go at once with the clock falling.                           *)
LEMMA BytesAreRead ==
    ASSUME NEW n \in 1 .. 4, NEW h \in Seq(Sounds)
    PROVE  LET p == FlattenSeq([i \in 1 .. n |-> ReadByte(i = n)])
               x == FlattenSeq([i \in 1 .. n |-> Received(i = n)])
           IN  /\ Leads(p, On(1, 1, h), On(1, 1, h \o x))
               /\ x \in Seq(Sounds)
               /\ Len(p) <= 140
<1> DEFINE p == [i \in 1 .. n |-> ReadByte(i = n)]
           x == [i \in 1 .. n |-> Received(i = n)]
           a == [m \in 0 .. n |-> IF m = 0 \/ m = n THEN 1 ELSE 0]
           H == [m \in 0 .. n |-> IF m = 0 \/ m = n THEN Seq(Sounds)
                                   ELSE {g \in Seq(Sounds) : Answered(g)}]
<1>1. n \in Nat /\ n # 0
  OBVIOUS
<1>2. ASSUME NEW last \in BOOLEAN, NEW g \in Seq(Sounds), NEW c \in {0, 1},
             c = 1 \/ Answered(g)
      PROVE  /\ Leads(ReadByte(last), On(c, 1, g),
                      On(IF last THEN 1 ELSE 0, 1, g \o Received(last)))
             /\ ReadByte(last) \in Seq(Instructions)
             /\ Len(ReadByte(last)) <= 35
             /\ Received(last) \in Seq(Sounds)
             /\ g \o Received(last) \in Seq(Sounds)
             /\ ~ last => Answered(g \o Received(last))
  <2>1. /\ Leads(ReadByte(last), On(c, 1, g),
                 On(IF last THEN 1 ELSE 0, 1, g \o Received(last)))
        /\ Len(ReadByte(last)) <= 35
    BY <1>2, ByteIsRead
  <2>2. Received(last) \in Seq(Sounds) /\ (~ last => Answered(g \o Received(last)))
    BY ReceivedEndsWithAnswer
  <2>3. g \o Received(last) \in Seq(Sounds)
    BY <2>2, ConcatProperties
  <2> QED
    BY <2>1, <2>2, <2>3 DEF Leads
<1>3. /\ a[0] = 1 /\ a[n] = 1 /\ h \in H[0]
      /\ \A m \in 1 .. n :
            /\ p[m] = ReadByte(m = n) /\ x[m] = Received(m = n)
            /\ a[m - 1] \in {0, 1} /\ a[m] = (IF m = n THEN 1 ELSE 0)
            /\ H[m] = (IF m = n THEN Seq(Sounds) ELSE {g \in Seq(Sounds) : Answered(g)})
            /\ \A g \in H[m - 1] : a[m - 1] = 1 \/ Answered(g)
  BY <1>1
<1>4. /\ p \in [1 .. n -> Seq(Instructions)] /\ x \in [1 .. n -> Seq(Sounds)]
      /\ \A m \in 1 .. n : Len(p[m]) <= 35
  <2>1. \A last \in BOOLEAN : /\ ReadByte(last) \in Seq(Instructions)
                              /\ Len(ReadByte(last)) <= 35
                              /\ Received(last) \in Seq(Sounds)
    BY <1>2, 1 \in {0, 1}
  <2>2. \A m \in 1 .. n : (m = n) \in BOOLEAN
    OBVIOUS
  <2>3. \A m \in 1 .. n : /\ p[m] \in Seq(Instructions) /\ Len(p[m]) <= 35
                          /\ x[m] \in Seq(Sounds)
    BY <1>3, <2>1, <2>2
  <2>4. /\ p = [m \in 1 .. n |-> p[m]]
        /\ x = [m \in 1 .. n |-> x[m]]
    OBVIOUS
  <2> HIDE DEF p, x
  <2> QED
    BY <2>3, <2>4
<1> HIDE DEF p, x, a, H
<1>5. Through(n, p, x, a, H)
  <2>1. ASSUME NEW m \in 1 .. n, NEW g \in H[m - 1] \cap Seq(Sounds)
        PROVE  /\ Leads(p[m], On(a[m - 1], 1, g), On(a[m], 1, g \o x[m]))
               /\ g \o x[m] \in H[m]
    <3> DEFINE last == m = n
               c == a[m - 1]
    <3>1. last \in BOOLEAN /\ g \in Seq(Sounds) /\ c \in {0, 1} /\ (c = 1 \/ Answered(g))
      BY <1>3
    <3>2. /\ p[m] = ReadByte(last) /\ x[m] = Received(last)
          /\ a[m] = (IF last THEN 1 ELSE 0)
          /\ H[m] = (IF last THEN Seq(Sounds) ELSE {z \in Seq(Sounds) : Answered(z)})
      BY <1>3
    <3> HIDE DEF last, c
    <3>3. /\ Leads(ReadByte(last), On(c, 1, g),
                   On(IF last THEN 1 ELSE 0, 1, g \o Received(last)))
          /\ g \o Received(last) \in Seq(Sounds)
          /\ ~ last => Answered(g \o Received(last))
      BY <1>2, <3>1
    <3>4. g \o x[m] \in H[m]
      BY <3>2, <3>3
    <3> QED
      BY <3>2, <3>3, <3>4 DEF c
  <2> QED
    BY <1>1, <1>3, <1>4, <2>1 DEF Through
<1>6. /\ Leads(FlattenSeq(p), On(1, 1, h), On(1, 1, h \o FlattenSeq(x)))
      /\ FlattenSeq(x) \in Seq(Sounds)
  BY <1>3, <1>5, LeadsThrough
<1>7. Len(FlattenSeq(p)) <= 140
  <2>1. Len(FlattenSeq(p)) <= n * 35
    BY <1>1, <1>4, FlattenedLength, 35 \in Nat
  <2>2. n * 35 <= 140
    OBVIOUS
  <2>3. Len(FlattenSeq(p)) \in Nat
    BY <1>6, LenProperties DEF Leads
  <2> QED
    BY <1>1, <2>1, <2>2, <2>3
<1> QED
  BY <1>6, <1>7 DEF p, x

-----------------------------------------------------------------------------
(* Starts and stops, and the parts put together.                             *)

(* A program of at most k instructions. *)
Takes(p, k) == p \in Seq(Instructions) /\ Len(p) <= k

(* The lengths of two programs add up.                                       *)
LEMMA TakesOn ==
    ASSUME NEW j \in Nat, NEW k \in Nat, NEW p, NEW q, Takes(p, j), Takes(q, k)
    PROVE  Takes(p \o q, j + k)
<1>1. p \in Seq(Instructions) /\ q \in Seq(Instructions) /\ Len(p) <= j /\ Len(q) <= k
  BY DEF Takes
<1>2. p \o q \in Seq(Instructions)
  BY <1>1
<1>3. Len(p \o q) = Len(p) + Len(q) /\ Len(p) \in Nat /\ Len(q) \in Nat
  BY <1>1
<1> QED
  BY <1>1, <1>2, <1>3 DEF Takes

(* One instruction.                                                          *)
LEMMA TakesOne ==
    ASSUME NEW data \in {0, 1}, NEW clock \in {0, 1}
    PROVE  Takes(<<Put(data, clock)>>, 1)
<1>1. Put(data, clock) \in Instructions
  BY PutIsInstruction
<1> QED
  BY <1>1 DEF Takes

(* What the starts and stops are made of, as they are used.                  *)
LEMMA StartsAndStops ==
    /\ start_i2c(FALSE, 1) = <<Put(1, 0)>>
    /\ stop_i2c(FALSE, 0) = <<Put(0, 0)>>
    /\ start_i2c(TRUE, 1) = <<Put(0, 0)>> \o <<Put(1, 0)>>
    /\ stop_i2c(TRUE, 1) = (<<Put(1, 1)>> \o <<Put(1, 0)>>) \o <<Put(0, 0)>>
<1>0. 1 # 0 /\ 0 # 1
  OBVIOUS
<1>1. \A s \in Seq(Instructions) : <<>> \o s = s
  BY ConcatEmptySeq
<1>2. <<>> \in Seq(Instructions) /\ <<>> \o <<>> = <<>>
  BY <1>1
<1>3. \A data, clock \in {0, 1} : <<Put(data, clock)>> \in Seq(Instructions)
  BY TakesOne DEF Takes
<1>4. /\ <<Put(1, 0)>> \in Seq(Instructions) /\ <<Put(0, 0)>> \in Seq(Instructions)
      /\ <<Put(1, 1)>> \in Seq(Instructions)
  BY <1>3
<1>5. start_i2c(FALSE, 1) = <<Put(1, 0)>>
  <2>1. start_i2c(FALSE, 1) = ((<<>> \o <<>>) \o <<>>) \o <<Put(1, 0)>>
    BY <1>0, Zenon DEF start_i2c
  <2> QED
    BY <1>1, <1>2, <1>4, <2>1
<1>6. stop_i2c(FALSE, 0) = <<Put(0, 0)>>
  <2>1. stop_i2c(FALSE, 0) = ((<<>> \o <<>>) \o <<>>) \o <<Put(0, 0)>>
    BY <1>0, Zenon DEF stop_i2c
  <2> QED
    BY <1>1, <1>2, <1>4, <2>1
<1>7. start_i2c(TRUE, 1) = <<Put(0, 0)>> \o <<Put(1, 0)>>
  <2>1. start_i2c(TRUE, 1) = ((<<>> \o <<>>) \o <<Put(0, 0)>>) \o <<Put(1, 0)>>
    BY <1>0, Zenon DEF start_i2c
  <2> QED
    BY <1>1, <1>2, <1>4, <2>1
<1>8. stop_i2c(TRUE, 1) = (<<Put(1, 1)>> \o <<Put(1, 0)>>) \o <<Put(0, 0)>>
  <2>1. stop_i2c(TRUE, 1) = ((<<>> \o <<Put(1, 1)>>) \o <<Put(1, 0)>>) \o <<Put(0, 0)>>
    BY <1>0, Zenon DEF stop_i2c
  <2> QED
    BY <1>1, <1>4, <2>1
<1> QED
  BY <1>5, <1>6, <1>7, <1>8

(* With the bus free a start is heard, and after it a stop.                  *)
LEMMA StartIsHeard ==
    ASSUME NEW h \in Seq(Sounds)
    PROVE  /\ Leads(start_i2c(FALSE, 1), On(1, 1, h), On(0, 1, h \o <<"start">>))
           /\ Leads(stop_i2c(FALSE, 0), On(0, 1, h), On(1, 1, h \o <<"stop">>))
           /\ Takes(start_i2c(FALSE, 1), 1) /\ Takes(stop_i2c(FALSE, 0), 1)
<1>1. Leads(<<Put(1, 0)>>, On(1, 1, h), On(0, 1, h \o <<"start">>))
  <2>1. Leads(<<Put(1, 0)>>, On(1, 1, h),
              On(1 - 1, 1, h \o (IF 1 = 1 - 1 THEN <<>>
                                 ELSE IF 1 = 1 THEN <<"start">> ELSE <<"stop">>)))
    BY ClockStays, 1 \in {0, 1}
  <2>2. 1 - 1 = 0
    OBVIOUS
  <2> QED
    BY <2>1, <2>2
<1>2. Leads(<<Put(0, 0)>>, On(0, 1, h), On(1, 1, h \o <<"stop">>))
  <2>1. Leads(<<Put(0, 0)>>, On(0, 1, h),
              On(1 - 0, 1, h \o (IF 0 = 1 - 0 THEN <<>>
                                 ELSE IF 0 = 1 THEN <<"start">> ELSE <<"stop">>)))
    BY ClockStays, 0 \in {0, 1}
  <2>2. 1 - 0 = 1
    OBVIOUS
  <2> QED
    BY <2>1, <2>2
<1> QED
  BY <1>1, <1>2, StartsAndStops, TakesOne, 0 \in {0, 1}, 1 \in {0, 1}

(* With the clock low and data free, the clock rises once more before a      *)
(* repeated start, and once more with data low before a stop.                *)
LEMMA StopIsHeard ==
    ASSUME NEW h \in Seq(Sounds)
    PROVE  /\ Leads(start_i2c(TRUE, 1), On(1, 0, h), On(0, 1, h \o <<"high", "start">>))
           /\ Leads(stop_i2c(TRUE, 1), On(1, 0, h), On(1, 1, h \o <<"low", "stop">>))
           /\ Takes(start_i2c(TRUE, 1), 2) /\ Takes(stop_i2c(TRUE, 1), 3)
<1>1. \A e \in Sounds : <<e>> \in Seq(Sounds) /\ h \o <<e>> \in Seq(Sounds)
  OBVIOUS
<1>2. ASSUME NEW e \in Sounds, NEW f \in Sounds
      PROVE  (h \o <<e>>) \o <<f>> = h \o <<e, f>>
  <2> DEFINE x == <<e>>
             y == <<f>>
  <2>1. x \in Seq(Sounds) /\ y \in Seq(Sounds)
    OBVIOUS
  <2>2. x \o y = <<e, f>>
    BY Join11
  <2> HIDE DEF x, y
  <2>3. (h \o x) \o y = h \o (x \o y)
    BY <2>1
  <2> QED
    BY <2>2, <2>3 DEF x, y
<1>3. "high" \in Sounds /\ "low" \in Sounds /\ "start" \in Sounds /\ "stop" \in Sounds
  BY DEF Sounds
<1>4. Leads(<<Put(0, 0)>>, On(1, 0, h), On(1, 1, h \o <<"high">>))
  <2>1. Leads(<<Put(0, 0)>>, On(1 - 0, 0, h), On(1 - 0, 1, h \o <<Level(1 - 0)>>))
    BY ClockRises, 0 \in {0, 1}
  <2>2. 1 - 0 = 1 /\ Level(1) = "high"
    BY DEF Level
  <2> QED
    BY <2>1, <2>2
<1>5. Leads(start_i2c(TRUE, 1), On(1, 0, h), On(0, 1, h \o <<"high", "start">>))
  <2>1. Leads(start_i2c(FALSE, 1), On(1, 1, h \o <<"high">>),
              On(0, 1, (h \o <<"high">>) \o <<"start">>))
    BY <1>1, <1>3, StartIsHeard
  <2>2. (h \o <<"high">>) \o <<"start">> = h \o <<"high", "start">>
    BY <1>2, <1>3
  <2>3. start_i2c(TRUE, 1) = <<Put(0, 0)>> \o start_i2c(FALSE, 1)
    BY StartsAndStops, Zenon
  <2>4. Leads(<<Put(0, 0)>> \o start_i2c(FALSE, 1), On(1, 0, h),
              On(0, 1, (h \o <<"high">>) \o <<"start">>))
    BY <1>4, <2>1, LeadsOn, Zenon
  <2> QED
    BY <2>2, <2>3, <2>4, Zenon
<1>6. Leads(<<Put(1, 1)>>, On(1, 0, h), On(0, 0, h))
  <2>1. Leads(<<Put(1, 1)>>, On(1, 0, h), On(1 - 1, 0, h))
    BY ClockLow, 0 \in {0, 1}, 1 \in {0, 1}
  <2>2. 1 - 1 = 0
    OBVIOUS
  <2> QED
    BY <2>1, <2>2
<1>7. Leads(<<Put(1, 0)>>, On(0, 0, h), On(0, 1, h \o <<"low">>))
  <2>1. Leads(<<Put(1, 0)>>, On(1 - 1, 0, h), On(1 - 1, 1, h \o <<Level(1 - 1)>>))
    BY ClockRises, 1 \in {0, 1}
  <2>2. 1 - 1 = 0 /\ Level(0) = "low"
    BY DEF Level
  <2> QED
    BY <2>1, <2>2
<1>8. Leads(stop_i2c(TRUE, 1), On(1, 0, h), On(1, 1, h \o <<"low", "stop">>))
  <2>1. Leads(stop_i2c(FALSE, 0), On(0, 1, h \o <<"low">>),
              On(1, 1, (h \o <<"low">>) \o <<"stop">>))
    BY <1>1, <1>3, StartIsHeard
  <2>2. Leads(<<Put(1, 1)>> \o <<Put(1, 0)>>, On(1, 0, h), On(0, 1, h \o <<"low">>))
    BY <1>6, <1>7, LeadsOn
  <2>3. (h \o <<"low">>) \o <<"stop">> = h \o <<"low", "stop">>
    BY <1>2, <1>3
  <2>4. stop_i2c(TRUE, 1) = (<<Put(1, 1)>> \o <<Put(1, 0)>>) \o stop_i2c(FALSE, 0)
    BY StartsAndStops, Zenon
  <2>5. Leads((<<Put(1, 1)>> \o <<Put(1, 0)>>) \o stop_i2c(FALSE, 0), On(1, 0, h),
              On(1, 1, (h \o <<"low">>) \o <<"stop">>))
    BY <2>1, <2>2, LeadsOn, Zenon
  <2> QED
    BY <2>3, <2>4, <2>5, Zenon
<1>9. Takes(start_i2c(TRUE, 1), 1 + 1) /\ Takes(stop_i2c(TRUE, 1), (1 + 1) + 1)
  <2>1. /\ Takes(<<Put(0, 0)>>, 1) /\ Takes(<<Put(1, 0)>>, 1) /\ Takes(<<Put(1, 1)>>, 1)
    BY TakesOne, 0 \in {0, 1}, 1 \in {0, 1}
  <2>2. /\ Takes(<<Put(0, 0)>> \o <<Put(1, 0)>>, 1 + 1)
        /\ Takes(<<Put(1, 1)>> \o <<Put(1, 0)>>, 1 + 1)
    BY <2>1, TakesOn, 1 \in Nat
  <2>3. Takes((<<Put(1, 1)>> \o <<Put(1, 0)>>) \o <<Put(0, 0)>>, (1 + 1) + 1)
    BY <2>1, <2>2, TakesOn, 1 \in Nat, 1 + 1 \in Nat
  <2> QED
    BY <2>2, <2>3, StartsAndStops
<1>10. 1 + 1 = 2 /\ (1 + 1) + 1 = 3
  OBVIOUS
<1> QED
  BY <1>5, <1>8, <1>9, <1>10

(* What a program of at most k instructions adds to what was heard, whatever *)
(* that was, on its way from the levels l of the lines to m.                 *)
Says(p, k, l, m, x) ==
    /\ Takes(p, k) /\ x \in Seq(Sounds)
    /\ \A h \in Seq(Sounds) : Leads(p, On(l[1], l[2], h), On(m[1], m[2], h \o x))

(* Two programs say what each says.                                          *)
LEMMA SaysOn ==
    ASSUME NEW j \in Nat, NEW k \in Nat, NEW p, NEW q, NEW l, NEW m, NEW n, NEW x, NEW y,
           Says(p, j, l, m, x), Says(q, k, m, n, y)
    PROVE  Says(p \o q, j + k, l, n, x \o y)
<1>1. /\ Takes(p, j) /\ x \in Seq(Sounds)
      /\ \A h \in Seq(Sounds) : Leads(p, On(l[1], l[2], h), On(m[1], m[2], h \o x))
  BY DEF Says
<1>2. /\ Takes(q, k) /\ y \in Seq(Sounds)
      /\ \A h \in Seq(Sounds) : Leads(q, On(m[1], m[2], h), On(n[1], n[2], h \o y))
  BY DEF Says
<1>3. Takes(p \o q, j + k)
  BY <1>1, <1>2, TakesOn
<1>4. x \o y \in Seq(Sounds)
  BY <1>1, <1>2
<1>5. ASSUME NEW h \in Seq(Sounds)
      PROVE  Leads(p \o q, On(l[1], l[2], h), On(n[1], n[2], h \o (x \o y)))
  <2>1. h \o x \in Seq(Sounds)
    BY <1>1
  <2>2. (h \o x) \o y = h \o (x \o y)
    BY <1>1, <1>2, SMTT(20)
  <2>3. Leads(p, On(l[1], l[2], h), On(m[1], m[2], h \o x))
    BY <1>1
  <2>4. Leads(q, On(m[1], m[2], h \o x), On(n[1], n[2], (h \o x) \o y))
    BY <1>2, <2>1
  <2> QED
    BY <2>2, <2>3, <2>4, LeadsOn
<1> QED
  BY <1>3, <1>4, <1>5 DEF Says

(* The lines: idle, in a frame with the clock high, and with the clock low   *)
(* after the last bit.                                                       *)
Idle == <<1, 1>>
Busy == <<0, 1>>
Slot == <<1, 0>>

(* What each part of a frame says.                                           *)
LEMMA PartsSay ==
    /\ Says(<<>>, 0, Idle, Idle, <<>>)
    /\ Says(begin_i2c, 1, Idle, Idle, <<>>)
    /\ Says(Clock, 1, Idle, Slot, <<>>)
    /\ Says(start_i2c(FALSE, 1), 1, Idle, Busy, <<"start">>)
    /\ Says(stop_i2c(FALSE, 0), 1, Busy, Idle, <<"stop">>)
    /\ Says(start_i2c(TRUE, 1), 2, Slot, Busy, <<"high", "start">>)
    /\ Says(stop_i2c(TRUE, 1), 3, Slot, Idle, <<"low", "stop">>)
<1>1. /\ Idle[1] = 1 /\ Idle[2] = 1 /\ Busy[1] = 0 /\ Busy[2] = 1
      /\ Slot[1] = 1 /\ Slot[2] = 0
  BY DEF Idle, Busy, Slot
<1>2. /\ <<>> \in Seq(Sounds) /\ <<"start">> \in Seq(Sounds) /\ <<"stop">> \in Seq(Sounds)
      /\ <<"high", "start">> \in Seq(Sounds) /\ <<"low", "stop">> \in Seq(Sounds)
  BY DEF Sounds
<1>3. \A h \in Seq(Sounds) : h \o <<>> = h
  OBVIOUS
<1>4. 0 \in {0, 1} /\ 1 \in {0, 1} /\ 1 - 0 = 1 /\ 1 - 1 = 0
  OBVIOUS
<1>5. Says(<<>>, 0, Idle, Idle, <<>>)
  <2>1. Takes(<<>>, 0)
    BY DEF Takes
  <2>2. ASSUME NEW h \in Seq(Sounds)
        PROVE  Leads(<<>>, On(1, 1, h), On(1, 1, h \o <<>>))
    BY <1>3, <1>4, OnIsLines, LeadsNowhere
  <2> QED
    BY <1>1, <1>2, <2>1, <2>2 DEF Says
<1>6. Says(begin_i2c, 1, Idle, Idle, <<>>)
  <2>1. Takes(begin_i2c, 1)
    BY <1>4, TakesOne DEF begin_i2c
  <2>2. ASSUME NEW h \in Seq(Sounds)
        PROVE  Leads(begin_i2c, On(1, 1, h), On(1, 1, h \o <<>>))
    <3>1. Leads(<<Put(0, 0)>>, On(1, 1, h),
                On(1 - 0, 1, h \o (IF 1 = 1 - 0 THEN <<>>
                                   ELSE IF 0 = 1 THEN <<"start">> ELSE <<"stop">>)))
      BY <1>4, ClockStays
    <3> QED
      BY <1>4, <3>1 DEF begin_i2c
  <2> QED
    BY <1>1, <1>2, <2>1, <2>2 DEF Says
<1>7. Says(Clock, 1, Idle, Slot, <<>>)
  <2>1. Takes(Clock, 1)
    BY <1>4, TakesOne DEF Clock
  <2>2. ASSUME NEW h \in Seq(Sounds)
        PROVE  Leads(Clock, On(1, 1, h), On(1, 0, h \o <<>>))
    <3>1. Leads(<<Put(0, 1)>>, On(1, 1, h), On(1 - 0, 0, h))
      BY <1>4, ClockLow
    <3> QED
      BY <1>3, <1>4, <3>1 DEF Clock
  <2> QED
    BY <1>1, <1>2, <2>1, <2>2 DEF Says
<1>8. Says(start_i2c(FALSE, 1), 1, Idle, Busy, <<"start">>)
  BY <1>1, <1>2, StartIsHeard DEF Says
<1>9. Says(stop_i2c(FALSE, 0), 1, Busy, Idle, <<"stop">>)
  BY <1>1, <1>2, StartIsHeard DEF Says
<1>10. Says(start_i2c(TRUE, 1), 2, Slot, Busy, <<"high", "start">>)
  BY <1>1, <1>2, StopIsHeard DEF Says
<1>11. Says(stop_i2c(TRUE, 1), 3, Slot, Idle, <<"low", "stop">>)
  BY <1>1, <1>2, StopIsHeard DEF Says
<1> QED
  BY <1>5, <1>6, <1>7, <1>8, <1>9, <1>10, <1>11

(* Addresses, values and the bytes that are read.                            *)
LEMMA BytesSay ==
    ASSUME NEW r \in Requests
    PROVE  /\ \A direction \in {0, 1} :
                 Says(Address(r.addr, direction), 27, Busy, Idle,
                      Levels(Bits(r.addr, 7) \o <<direction, 1>>))
           /\ Says(FlattenSeq([i \in DOMAIN r.value |->
                                  WriteAll(1, Bits(r.value[i], 8) \o <<1>>)]), 432,
                   Idle, Idle,
                   FlattenSeq([i \in DOMAIN r.value |-> Levels(Bits(r.value[i], 8) \o <<1>>)]))
           /\ r.count # 0 =>
                 Says(FlattenSeq([i \in 1 .. r.count |-> ReadByte(i = r.count)]), 140,
                      Idle, Idle,
                      FlattenSeq([i \in 1 .. r.count |-> Received(i = r.count)]))
<1>1. /\ Idle[1] = 1 /\ Idle[2] = 1 /\ Busy[1] = 0 /\ Busy[2] = 1
  BY DEF Idle, Busy
<1>2. /\ r.addr \in 0 .. 127 /\ r.value \in Seq(0 .. 255) /\ Len(r.value) <= 16
      /\ r.count \in 0 .. 4
  BY PtxWaveAssumption DEF Requests
<1>3. <<>> \in Seq(Sounds)
  OBVIOUS
<1>4. ASSUME NEW direction \in {0, 1}
      PROVE  Says(Address(r.addr, direction), 27, Busy, Idle,
                  Levels(Bits(r.addr, 7) \o <<direction, 1>>))
  <2> DEFINE p == Address(r.addr, direction)
             x == Levels(Bits(r.addr, 7) \o <<direction, 1>>)
  <2>1. \A h \in Seq(Sounds) : /\ Leads(p, On(0, 1, h), On(1, 1, h \o x))
                               /\ x \in Seq(Sounds) /\ Len(p) <= 27
    BY <1>2, AddressIsHeard
  <2> HIDE DEF p, x
  <2>2. Leads(p, On(0, 1, <<>>), On(1, 1, <<>> \o x)) /\ x \in Seq(Sounds) /\ Len(p) <= 27
    BY <1>3, <2>1
  <2>3. Takes(p, 27)
    BY <2>2 DEF Takes, Leads
  <2>4. Says(p, 27, Busy, Idle, x)
    BY <1>1, <2>1, <2>2, <2>3 DEF Says
  <2> QED
    BY <2>4 DEF p, x
<1>5. Says(FlattenSeq([i \in DOMAIN r.value |->
                          WriteAll(1, Bits(r.value[i], 8) \o <<1>>)]), 432,
           Idle, Idle,
           FlattenSeq([i \in DOMAIN r.value |-> Levels(Bits(r.value[i], 8) \o <<1>>)]))
  <2> DEFINE v == r.value
             n == Len(v)
             p == FlattenSeq([i \in DOMAIN v |-> WriteAll(1, Bits(v[i], 8) \o <<1>>)])
             x == FlattenSeq([i \in DOMAIN v |-> Levels(Bits(v[i], 8) \o <<1>>)])
  <2>1. v \in Seq(0 .. 255) /\ n \in 0 .. 16 /\ n \in Nat
    <3> DEFINE S == 0 .. 255
    <3>1. v \in Seq(S) /\ Len(v) <= 16
      BY <1>2
    <3> HIDE DEF v, S
    <3>2. Len(v) \in Nat
      BY <3>1
    <3> DEFINE k == Len(v)
    <3>3. k \in Nat /\ k <= 16
      BY <3>1, <3>2
    <3> HIDE DEF k
    <3>4. k \in 0 .. 16
      BY <3>3
    <3> QED
      BY <3>1, <3>3, <3>4, Zenon DEF S, k
  <2>2. v \in [1 .. n -> 0 .. 255]
    <3> DEFINE S == 0 .. 255
    <3> HIDE DEF v
    <3>1. Len(v) = n /\ v \in Seq(S) /\ n \in Nat
      BY <2>1
    <3> HIDE DEF n, S
    <3>2. v \in [1 .. n -> S]
      BY <3>1, SeqIsFunction
    <3> QED
      BY <3>2 DEF S
  <2>3. \A h \in Seq(Sounds) : /\ Leads(p, On(1, 1, h), On(1, 1, h \o x))
                               /\ x \in Seq(Sounds) /\ Len(p) <= 432
    <3> HIDE DEF n, v
    <3> QED
      BY <2>1, <2>2, ValueIsHeard
  <2> HIDE DEF p, x
  <2>4. Leads(p, On(1, 1, <<>>), On(1, 1, <<>> \o x)) /\ x \in Seq(Sounds) /\ Len(p) <= 432
    BY <1>3, <2>3
  <2>5. Takes(p, 432)
    BY <2>4 DEF Takes, Leads
  <2>6. Says(p, 432, Idle, Idle, x)
    BY <1>1, <2>3, <2>4, <2>5 DEF Says
  <2> QED
    BY <2>6 DEF p, x, v
<1>6. ASSUME r.count # 0
      PROVE  Says(FlattenSeq([i \in 1 .. r.count |-> ReadByte(i = r.count)]), 140,
                  Idle, Idle,
                  FlattenSeq([i \in 1 .. r.count |-> Received(i = r.count)]))
  <2> DEFINE n == r.count
             p == FlattenSeq([i \in 1 .. n |-> ReadByte(i = n)])
             x == FlattenSeq([i \in 1 .. n |-> Received(i = n)])
  <2>1. n \in 1 .. 4
    BY <1>2, <1>6
  <2>2. \A h \in Seq(Sounds) : /\ Leads(p, On(1, 1, h), On(1, 1, h \o x))
                               /\ x \in Seq(Sounds) /\ Len(p) <= 140
    <3> HIDE DEF n
    <3> QED
      BY <2>1, BytesAreRead
  <2> HIDE DEF p, x
  <2>3. Leads(p, On(1, 1, <<>>), On(1, 1, <<>> \o x)) /\ x \in Seq(Sounds) /\ Len(p) <= 140
    BY <1>3, <2>2
  <2>4. Takes(p, 140)
    BY <2>3 DEF Takes, Leads
  <2>5. Says(p, 140, Idle, Idle, x)
    BY <1>1, <2>2, <2>3, <2>4 DEF Says
  <2> QED
    BY <2>5 DEF p, x, n
<1> QED
  BY <1>4, <1>5, <1>6

(* A bound may be raised.                                                    *)
LEMMA SaysInLess ==
    ASSUME NEW j \in Nat, NEW k \in Nat, j <= k, NEW p, NEW l, NEW m, NEW x,
           Says(p, j, l, m, x)
    PROVE  Says(p, k, l, m, x)
<1>1. p \in Seq(Instructions) /\ Len(p) <= j
  BY DEF Says, Takes
<1>2. Len(p) \in Nat
  BY <1>1
<1>3. Takes(p, k)
  BY <1>1, <1>2 DEF Takes
<1> QED
  BY <1>3 DEF Says

(* The first transfer is preceded by an empty frame.                         *)
Waking == IF i2c_state = "stop" THEN Wakeup ELSE <<>>

(* The empty frame is heard, or nothing.                                     *)
LEMMA WakeupSays ==
    Says(IF i2c_state = "stop" THEN start_i2c(FALSE, 1) \o stop_i2c(FALSE, 0) ELSE <<>>,
         2, Idle, Idle, Waking)
<1>1. CASE i2c_state = "stop"
  <2>1. Says(start_i2c(FALSE, 1) \o stop_i2c(FALSE, 0), 1 + 1, Idle, Idle,
             <<"start">> \o <<"stop">>)
    BY PartsSay, SaysOn, 1 \in Nat
  <2>2. <<"start">> \o <<"stop">> = Wakeup
    BY Join11 DEF Wakeup
  <2>3. 1 + 1 = 2
    OBVIOUS
  <2> QED
    BY <1>1, <2>1, <2>2, <2>3 DEF Waking
<1>2. CASE i2c_state # "stop"
  <2>1. Says(<<>>, 2, Idle, Idle, <<>>)
    BY PartsSay, SaysInLess, 0 \in Nat, 2 \in Nat, 0 <= 2
  <2> QED
    BY <1>2, <2>1 DEF Waking
<1> QED
  BY <1>1, <1>2

(* What blockwrite and blockread begin with: the address and the values.     *)
LEMMA SendSays ==
    ASSUME NEW r \in Requests
    PROVE  /\ Says(Send(r), 464, Idle, Slot, Waking \o Written(r.addr, r.value))
           /\ Waking \in Seq(Sounds) /\ Written(r.addr, r.value) \in Seq(Sounds)
<1> DEFINE w == IF i2c_state = "stop" THEN start_i2c(FALSE, 1) \o stop_i2c(FALSE, 0) ELSE <<>>
           s == start_i2c(FALSE, 1)
           a == Address(r.addr, 0)
           v == FlattenSeq([i \in DOMAIN r.value |-> WriteAll(1, Bits(r.value[i], 8) \o <<1>>)])
           x == <<"start">>
           y == Levels(Bits(r.addr, 7) \o <<0, 1>>)
           z == FlattenSeq([i \in DOMAIN r.value |-> Levels(Bits(r.value[i], 8) \o <<1>>)])
           g == Waking
<1>1. /\ Says(begin_i2c, 1, Idle, Idle, <<>>) /\ Says(w, 2, Idle, Idle, g)
      /\ Says(s, 1, Idle, Busy, x) /\ Says(a, 27, Busy, Idle, y)
      /\ Says(v, 432, Idle, Idle, z) /\ Says(Clock, 1, Idle, Slot, <<>>)
  <2>1. Says(begin_i2c, 1, Idle, Idle, <<>>) /\ Says(s, 1, Idle, Busy, x)
        /\ Says(Clock, 1, Idle, Slot, <<>>)
    BY PartsSay
  <2>2. Says(a, 27, Busy, Idle, y)
    BY BytesSay, 0 \in {0, 1}
  <2>3. Says(v, 432, Idle, Idle, z)
    BY BytesSay
  <2>4. Says(w, 2, Idle, Idle, g)
    BY WakeupSays
  <2> QED
    BY <2>1, <2>2, <2>3, <2>4
<1>2. /\ Send(r) = ((((begin_i2c \o w) \o s) \o a) \o v) \o Clock
      /\ Written(r.addr, r.value) = (x \o y) \o z
  BY DEF Send, Written
<1> HIDE DEF w, s, a, v, x, y, z, g
<1>3. g \in Seq(Sounds) /\ x \in Seq(Sounds) /\ y \in Seq(Sounds) /\ z \in Seq(Sounds)
  BY <1>1 DEF Says
<1>4. Says(begin_i2c \o w, 1 + 2, Idle, Idle, <<>> \o g)
  BY <1>1, SaysOn, 1 \in Nat, 2 \in Nat
<1>5. Says((begin_i2c \o w) \o s, (1 + 2) + 1, Idle, Busy, (<<>> \o g) \o x)
  BY <1>1, <1>4, SaysOn, 1 \in Nat, 1 + 2 \in Nat
<1>6. Says(((begin_i2c \o w) \o s) \o a, ((1 + 2) + 1) + 27, Idle, Idle,
           ((<<>> \o g) \o x) \o y)
  BY <1>1, <1>5, SaysOn, 27 \in Nat, (1 + 2) + 1 \in Nat
<1>7. Says((((begin_i2c \o w) \o s) \o a) \o v, (((1 + 2) + 1) + 27) + 432, Idle, Idle,
           (((<<>> \o g) \o x) \o y) \o z)
  BY <1>1, <1>6, SaysOn, 432 \in Nat, ((1 + 2) + 1) + 27 \in Nat
<1>8. Says(Send(r), ((((1 + 2) + 1) + 27) + 432) + 1, Idle, Slot,
           ((((<<>> \o g) \o x) \o y) \o z) \o <<>>)
  <2>1. (((1 + 2) + 1) + 27) + 432 \in Nat /\ 1 \in Nat
    OBVIOUS
  <2> DEFINE c == Clock
             o == <<>>
             f == (((begin_i2c \o w) \o s) \o a) \o v
             h == (((<<>> \o g) \o x) \o y) \o z
             k == (((1 + 2) + 1) + 27) + 432
  <2>2. Says(f, k, Idle, Idle, h) /\ Says(c, 1, Idle, Slot, o) /\ k \in Nat /\ 1 \in Nat
    BY <1>1, <1>7, <2>1
  <2>3. Send(r) = f \o c
    BY <1>2
  <2> HIDE DEF c, o, f, h, k
  <2>4. Says(f \o c, k + 1, Idle, Slot, h \o o)
    BY <2>2, SaysOn
  <2> QED
    BY <2>3, <2>4 DEF c, o, f, h, k
<1>9. ((((1 + 2) + 1) + 27) + 432) + 1 = 464
  OBVIOUS
<1>10. ((((<<>> \o g) \o x) \o y) \o z) \o <<>> = g \o ((x \o y) \o z)
  <2>1. <<>> \o g = g
    BY <1>3, ConcatEmptySeq
  <2>2. ((g \o x) \o y) \o z = g \o ((x \o y) \o z)
    BY <1>3, SMTT(20)
  <2>3. (x \o y) \o z \in Seq(Sounds)
    BY <1>3
  <2>4. g \o ((x \o y) \o z) \in Seq(Sounds)
    BY <1>3, <2>3
  <2>5. (g \o ((x \o y) \o z)) \o <<>> = g \o ((x \o y) \o z)
    BY <2>4, ConcatEmptySeq
  <2> QED
    BY <2>1, <2>2, <2>5, Zenon
<1>11. (x \o y) \o z \in Seq(Sounds)
  BY <1>3
<1> QED
  BY <1>2, <1>3, <1>8, <1>9, <1>10, <1>11, Zenon DEF g

(* A whole program says the frame of its request, from idle bus to idle bus. *)
LEMMA ProgramSays ==
    ASSUME NEW r \in Requests
    PROVE  /\ Says(IF r.count = 0 THEN blockwrite(r) ELSE blockread(r), 637, Idle, Idle,
                   Waking \o Frame(r))
           /\ Waking \in Seq(Sounds) /\ Frame(r) \in Seq(Sounds)
<1> DEFINE s == Send(r)
           t == start_i2c(TRUE, 1)
           a == Address(r.addr, 1)
           b == FlattenSeq([i \in 1 .. r.count |-> ReadByte(i = r.count)])
           e == stop_i2c(TRUE, 1)
           g == Waking
           u == Written(r.addr, r.value)
           x == <<"high", "start">>
           y == Levels(Bits(r.addr, 7) \o <<1, 1>>)
           z == FlattenSeq([i \in 1 .. r.count |-> Received(i = r.count)])
           l == <<"low", "stop">>
<1>1. /\ Says(s, 464, Idle, Slot, g \o u) /\ Says(e, 3, Slot, Idle, l)
      /\ g \in Seq(Sounds) /\ u \in Seq(Sounds)
  BY SendSays, PartsSay
<1>2. /\ Says(t, 2, Slot, Busy, x) /\ Says(Clock, 1, Idle, Slot, <<>>)
      /\ Says(a, 27, Busy, Idle, y)
      /\ r.count # 0 => Says(b, 140, Idle, Idle, z)
  <2>1. Says(t, 2, Slot, Busy, x) /\ Says(Clock, 1, Idle, Slot, <<>>)
    BY PartsSay
  <2>2. Says(a, 27, Busy, Idle, y)
    BY BytesSay, 1 \in {0, 1}
  <2>3. r.count # 0 => Says(b, 140, Idle, Idle, z)
    BY BytesSay
  <2> QED
    BY <2>1, <2>2, <2>3
<1>3. /\ blockwrite(r) = s \o e
      /\ blockread(r) = ((((s \o t) \o a) \o b) \o Clock) \o e
      /\ Frame(r) = (u \o (IF r.count = 0 THEN <<>> ELSE (x \o y) \o z)) \o l
  BY DEF blockwrite, blockread, Frame
<1>4. Waking = g
  OBVIOUS
<1> HIDE DEF s, t, a, b, e, g, u, x, y, z, l
<1>5. l \in Seq(Sounds)
  BY <1>1 DEF Says
<1>6. CASE r.count = 0
  <2>1. Says(s \o e, 464 + 3, Idle, Idle, (g \o u) \o l)
    BY <1>1, SaysOn, 464 \in Nat, 3 \in Nat
  <2>2. Says(s \o e, 637, Idle, Idle, (g \o u) \o l)
    BY <2>1, SaysInLess, 464 + 3 \in Nat, 637 \in Nat, 464 + 3 <= 637
  <2>3. (g \o u) \o l = g \o (u \o l) /\ u \o l \in Seq(Sounds)
    <3>1. g \in Seq(Sounds) /\ u \in Seq(Sounds)
      BY <1>1
    <3> QED
      BY <1>5, <3>1, SMTT(20)
  <2>4. u \o <<>> = u
    BY <1>1, ConcatEmptySeq
  <2>5. Frame(r) = u \o l
    BY <1>3, <1>6, <2>4
  <2> QED
    BY <1>1, <1>3, <1>4, <1>6, <2>2, <2>3, <2>5
<1>7. CASE r.count # 0
  <2>1. x \in Seq(Sounds) /\ y \in Seq(Sounds) /\ z \in Seq(Sounds)
    BY <1>2, <1>7 DEF Says
  <2>2. Says(s \o t, 464 + 2, Idle, Busy, (g \o u) \o x)
    BY <1>1, <1>2, SaysOn, 464 \in Nat, 2 \in Nat
  <2>3. Says((s \o t) \o a, (464 + 2) + 27, Idle, Idle, ((g \o u) \o x) \o y)
    BY <1>2, <2>2, SaysOn, 464 + 2 \in Nat, 27 \in Nat
  <2>4. Says(((s \o t) \o a) \o b, ((464 + 2) + 27) + 140, Idle, Idle,
             (((g \o u) \o x) \o y) \o z)
    BY <1>2, <1>7, <2>3, SaysOn, (464 + 2) + 27 \in Nat, 140 \in Nat
  <2>5. Says((((s \o t) \o a) \o b) \o Clock, (((464 + 2) + 27) + 140) + 1, Idle, Slot,
             ((((g \o u) \o x) \o y) \o z) \o <<>>)
    <3>1. ((464 + 2) + 27) + 140 \in Nat /\ 1 \in Nat
      OBVIOUS
    <3> DEFINE c == Clock
               o == <<>>
               f == ((s \o t) \o a) \o b
               h == (((g \o u) \o x) \o y) \o z
               k == ((464 + 2) + 27) + 140
    <3>2. Says(f, k, Idle, Idle, h) /\ Says(c, 1, Idle, Slot, o) /\ k \in Nat /\ 1 \in Nat
      BY <1>2, <2>4, <3>1
    <3> HIDE DEF c, o, f, h, k
    <3>3. Says(f \o c, k + 1, Idle, Slot, h \o o)
      BY <3>2, SaysOn
    <3> QED
      BY <3>3 DEF c, o, f, h, k
  <2>6. Says(((((s \o t) \o a) \o b) \o Clock) \o e, ((((464 + 2) + 27) + 140) + 1) + 3,
             Idle, Idle, (((((g \o u) \o x) \o y) \o z) \o <<>>) \o l)
    BY <1>1, <2>5, SaysOn, (((464 + 2) + 27) + 140) + 1 \in Nat, 3 \in Nat
  <2>7. ((((464 + 2) + 27) + 140) + 1) + 3 = 637
    OBVIOUS
  <2> DEFINE m == (x \o y) \o z
  <2>8. m \in Seq(Sounds)
    BY <2>1
  <2>9. ((((g \o u) \o x) \o y) \o z) \o <<>> = (g \o u) \o m
    <3> DEFINE h == g \o u
    <3>1. h \in Seq(Sounds)
      BY <1>1
    <3> HIDE DEF h
    <3>2. ((h \o x) \o y) \o z = h \o ((x \o y) \o z)
      BY <2>1, <3>1, SMTT(20)
    <3>4. h \o m \in Seq(Sounds)
      <4> HIDE DEF m
      <4> QED
        BY <2>8, <3>1
    <3>5. (h \o m) \o <<>> = h \o m
      BY <3>4, ConcatEmptySeq
    <3> QED
      BY <3>2, <3>5, Zenon DEF h
  <2>10. Frame(r) = (u \o m) \o l
    BY <1>3, <1>7
  <2> HIDE DEF m
  <2>11. ((g \o u) \o m) \o l = g \o ((u \o m) \o l)
    <3>1. u \o m \in Seq(Sounds) /\ (g \o u) \o m = g \o (u \o m)
      BY <1>1, <2>8
    <3> DEFINE q == u \o m
    <3>2. q \in Seq(Sounds)
      BY <3>1
    <3> HIDE DEF q
    <3>3. (g \o q) \o l = g \o (q \o l)
      BY <1>1, <1>5, <3>2
    <3> QED
      BY <3>1, <3>3, Zenon DEF q
  <2>12. (u \o m) \o l \in Seq(Sounds)
    <3>1. u \o m \in Seq(Sounds)
      BY <1>1, <2>8
    <3> QED
      BY <1>5, <3>1
  <2>13. Says(blockread(r), 637, Idle, Idle, Waking \o Frame(r))
    <3>1. (((((g \o u) \o x) \o y) \o z) \o <<>>) \o l = Waking \o Frame(r)
      BY <1>4, <2>9, <2>10, <2>11, Zenon
    <3>2. Says(blockread(r), ((((464 + 2) + 27) + 140) + 1) + 3, Idle, Idle,
               (((((g \o u) \o x) \o y) \o z) \o <<>>) \o l)
      BY <1>3, <2>6, Zenon
    <3> QED
      BY <2>7, <3>1, <3>2, Zenon
  <2>14. (IF r.count = 0 THEN blockwrite(r) ELSE blockread(r)) = blockread(r)
    BY <1>7, Zenon
  <2>15. Waking \in Seq(Sounds) /\ Frame(r) \in Seq(Sounds)
    BY <1>1, <1>4, <2>10, <2>12, Zenon
  <2> QED
    BY <2>13, <2>14, <2>15, Zenon
<1> QED
  BY <1>6, <1>7

(* It is not empty: it ends with a stop.                                     *)
LEMMA ProgramIsNotEmpty ==
    ASSUME NEW r \in Requests
    PROVE  blockwrite(r) # <<>> /\ (r.count # 0 => blockread(r) # <<>>)
<1> DEFINE e == stop_i2c(TRUE, 1)
           f == <<Put(1, 1)>> \o <<Put(1, 0)>>
           o == <<Put(0, 0)>>
<1>1. e \in Seq(Instructions) /\ Len(e) > 0
  <2>1. /\ <<Put(0, 0)>> \in Seq(Instructions) /\ <<Put(1, 0)>> \in Seq(Instructions)
        /\ <<Put(1, 1)>> \in Seq(Instructions)
    BY TakesOne, 0 \in {0, 1}, 1 \in {0, 1} DEF Takes
  <2>2. f \in Seq(Instructions) /\ o \in Seq(Instructions)
    BY <2>1
  <2>3. Len(o) = 1
    OBVIOUS
  <2>4. e = f \o o
    BY StartsAndStops
  <2> HIDE DEF e, f, o
  <2>5. Len(f \o o) = Len(f) + Len(o) /\ Len(f) \in Nat
    BY <2>2
  <2>6. f \o o \in Seq(Instructions)
    BY <2>2
  <2> QED
    BY <2>3, <2>4, <2>5, <2>6
<1>2. ASSUME NEW p \in Seq(Instructions)
      PROVE  p \o e # <<>>
  <2> HIDE DEF e
  <2>1. Len(p \o e) = Len(p) + Len(e) /\ Len(p) \in Nat /\ Len(e) \in Nat
    BY <1>1
  <2>2. Len(<<>>) = 0
    OBVIOUS
  <2> QED
    BY <1>1, <2>1, <2>2
<1>3. Send(r) \in Seq(Instructions)
  BY SendSays DEF Says, Takes
<1>4. blockwrite(r) # <<>>
  BY <1>2, <1>3 DEF blockwrite
<1>5. ASSUME r.count # 0
      PROVE  blockread(r) # <<>>
  <2> DEFINE t == start_i2c(TRUE, 1)
             a == Address(r.addr, 1)
             b == FlattenSeq([i \in 1 .. r.count |-> ReadByte(i = r.count)])
             p == (((Send(r) \o t) \o a) \o b) \o Clock
  <2>1. blockread(r) = p \o e
    BY DEF blockread
  <2>2. t \in Seq(Instructions) /\ Clock \in Seq(Instructions)
    BY PartsSay DEF Says, Takes
  <2>3. a \in Seq(Instructions)
    BY BytesSay, 1 \in {0, 1} DEF Says, Takes
  <2>4. b \in Seq(Instructions)
    BY <1>5, BytesSay DEF Says, Takes
  <2> HIDE DEF t, a, b, e
  <2>5. Send(r) \o t \in Seq(Instructions)
    BY <1>3, <2>2
  <2>6. (Send(r) \o t) \o a \in Seq(Instructions)
    BY <2>3, <2>5
  <2>7. ((Send(r) \o t) \o a) \o b \in Seq(Instructions)
    BY <2>4, <2>6
  <2>8. p \in Seq(Instructions)
    BY <2>2, <2>7
  <2> HIDE DEF p
  <2> QED
    BY <1>2, <2>1, <2>8
<1> QED
  BY <1>4, <1>5

-----------------------------------------------------------------------------
(* The engine plays the program.                                             *)

(* Where the engine is in its program, as conditions of the lines: t[0] is   *)
(* the idle bus before anything was heard, the last is the idle bus with all *)
(* of the frame heard, and the one before the instruction at pc is the one   *)
(* the engine is in.                                                         *)
Follows(t) ==
    /\ Plays(t, program)
    /\ t[0] = On(1, 1, <<>>)
    /\ t[Len(program)] = On(1, 1, (IF first THEN Wakeup ELSE <<>>) \o Frame(request))
    /\ t[IF pc = 0 THEN Len(program) ELSE pc - 1] = On(sda, scl, heard)

(* The inductive invariant.                                                  *)
WaveTypes ==
    /\ request \in Requests /\ i2c_state \in {"stop", "start"}
    /\ program \in Seq(Instructions) /\ Len(program) <= 637
    /\ pc \in 0 .. Len(program)
    /\ sda \in {0, 1} /\ scl \in {0, 1} /\ heard \in Seq(Sounds)
    /\ first \in BOOLEAN /\ moved \subseteq Nat

MovedAfterAnswers ==
    \A n \in moved : n <= Len(heard) /\ n > 1 /\ heard[n] = "low" /\ heard[n - 1] = "read"

NothingIsPlayed ==
    program = <<>> =>
        /\ pc = 0 /\ sda = 1 /\ scl = 1 /\ heard = <<>> /\ moved = {}
        /\ first <=> i2c_state = "stop"

ProgramIsFollowed == program # <<>> => i2c_state = "start" /\ \E t : Follows(t)

WaveInv == WaveTypes /\ MovedAfterAnswers /\ NothingIsPlayed /\ ProgramIsFollowed

(* It holds of the idle bus.                                                 *)
LEMMA WaveInvInit == WaveInit => WaveInv
<1> SUFFICES ASSUME WaveInit PROVE WaveInv
  OBVIOUS
<1>1. /\ <<>> \in Seq(Instructions) /\ Len(<<>>) = 0 /\ <<>> \in Seq(Sounds)
  OBVIOUS
<1>2. WaveTypes
  BY <1>1 DEF WaveInit, WaveTypes
<1>3. MovedAfterAnswers /\ NothingIsPlayed /\ ProgramIsFollowed
  BY DEF WaveInit, MovedAfterAnswers, NothingIsPlayed, ProgramIsFollowed
<1> QED
  BY <1>2, <1>3 DEF WaveInv

(* What is assembled gets the engine from the idle bus to the frame.         *)
LEMMA PrepareKeeps == WaveInv /\ Prepare => WaveInv'
<1> SUFFICES ASSUME WaveInv, Prepare PROVE WaveInv'
  OBVIOUS
<1> DEFINE p == IF request.count = 0 THEN blockwrite(request) ELSE blockread(request)
           x == (IF first THEN Wakeup ELSE <<>>) \o Frame(request)
<1>1. /\ request \in Requests /\ program = <<>> /\ pc = 0 /\ sda = 1 /\ scl = 1
      /\ heard = <<>> /\ moved = {} /\ first \in BOOLEAN /\ (first <=> i2c_state = "stop")
  BY DEF WaveInv, WaveTypes, NothingIsPlayed, Prepare
<1>2. /\ program' = p /\ i2c_state' = "start" /\ pc' = 1
      /\ request' = request /\ sda' = sda /\ scl' = scl /\ heard' = heard
      /\ first' = first /\ moved' = moved
  BY DEF Prepare
<1>3. /\ Says(p, 637, Idle, Idle, Waking \o Frame(request))
      /\ Waking \in Seq(Sounds) /\ Frame(request) \in Seq(Sounds)
  BY <1>1, ProgramSays
<1>4. p # <<>>
  BY <1>1, ProgramIsNotEmpty
<1>5. x = Waking \o Frame(request)
  BY <1>1 DEF Waking
<1> HIDE DEF p, x
<1>6. p \in Seq(Instructions) /\ Len(p) <= 637 /\ Len(p) \in Nat /\ Len(p) > 0
  <2>1. p \in Seq(Instructions) /\ Len(p) <= 637
    BY <1>3 DEF Says, Takes
  <2> QED
    BY <1>4, <2>1, EmptySeq, LenProperties
<1>7. Leads(p, On(1, 1, <<>>), On(1, 1, x))
  <2>1. <<>> \in Seq(Sounds) /\ x \in Seq(Sounds)
    BY <1>3, <1>5 DEF Says
  <2>2. Leads(p, On(Idle[1], Idle[2], <<>>), On(Idle[1], Idle[2], <<>> \o x))
    BY <1>3, <1>5, <2>1 DEF Says
  <2>3. <<>> \o x = x
    BY <2>1, ConcatEmptySeq
  <2>4. Idle[1] = 1 /\ Idle[2] = 1
    BY DEF Idle
  <2> QED
    BY <2>2, <2>3, <2>4
<1>8. PICK t : Plays(t, p) /\ t[0] = On(1, 1, <<>>) /\ t[Len(p)] = On(1, 1, x)
  BY <1>7 DEF Leads
<1>9. x' = x
  BY <1>2 DEF x, Frame
<1>10. Follows(t)'
  <2>1. (IF pc' = 0 THEN Len(p) ELSE pc' - 1) = 0
    BY <1>2
  <2>2. On(sda', scl', heard') = On(1, 1, <<>>)
    BY <1>1, <1>2
  <2>3. ((IF first THEN Wakeup ELSE <<>>) \o Frame(request))' = x
    BY <1>9 DEF x
  <2> QED
    BY <1>2, <1>8, <2>1, <2>2, <2>3 DEF Follows
<1>11. WaveTypes'
  <2>1. pc' \in 0 .. Len(p)
    BY <1>2, <1>6
  <2> QED
    BY <1>1, <1>2, <1>6, <2>1 DEF WaveInv, WaveTypes
<1>12. MovedAfterAnswers' /\ NothingIsPlayed' /\ ProgramIsFollowed'
  BY <1>1, <1>2, <1>4, <1>10 DEF MovedAfterAnswers, NothingIsPlayed, ProgramIsFollowed
<1> QED
  BY <1>11, <1>12 DEF WaveInv

(* The engine goes to the next condition, and both lines move only after an  *)
(* acknowledge between two bytes.                                            *)
LEMMA PlayNextKeeps == WaveInv /\ PlayNext => WaveInv'
<1> SUFFICES ASSUME WaveInv, PlayNext PROVE WaveInv'
  OBVIOUS
<1> DEFINE i == program[pc]
           n == Len(program)
           s == On(sda, scl, heard)
           g == Heard(i)
<1>1. /\ request \in Requests /\ i2c_state \in {"stop", "start"}
      /\ program \in Seq(Instructions) /\ n <= 637 /\ n \in Nat
      /\ pc \in 0 .. n /\ pc # 0
      /\ sda \in {0, 1} /\ scl \in {0, 1} /\ heard \in Seq(Sounds)
      /\ first \in BOOLEAN /\ moved \subseteq Nat
  BY LenProperties DEF WaveInv, WaveTypes, PlayNext
<1>2. /\ sda' = i.sda /\ scl' = i.scl /\ heard' = heard \o g
      /\ moved' = (IF sda # i.sda /\ scl # i.scl THEN moved \cup {Len(heard)} ELSE moved)
      /\ pc' = (IF pc = n THEN 0 ELSE pc + 1)
      /\ request' = request /\ i2c_state' = i2c_state /\ program' = program
      /\ first' = first
  BY DEF PlayNext, Successor
<1>3. program # <<>>
  BY <1>1 DEF WaveInv, NothingIsPlayed
<1>4. i2c_state = "start" /\ \E t : Follows(t)
  BY <1>3 DEF WaveInv, ProgramIsFollowed
<1>5. PICK t : Follows(t)
  BY <1>4
<1>6. pc \in 1 .. n /\ i \in Instructions
  BY <1>1
<1>7. s \in Lines /\ s.sda = sda /\ s.scl = scl /\ s.heard = heard
  BY <1>1, OnIsLines
<1>8. Heard1(s, i) = g
  <2> HIDE DEF s, i
  <2> QED
    BY <1>7 DEF Heard1, Heard
<1>9. g \in Seq(Sounds)
  <2> HIDE DEF s, i, g
  <2> QED
    BY <1>6, <1>7, <1>8, PlayedIsLines
<1>10. t[pc] = On(i.sda, i.scl, heard \o g) /\ Careful(s, i)
  <2>1. t[pc - 1] = s
    BY <1>1, <1>5 DEF Follows
  <2>2. t[pc] = Played(t[pc - 1], program[pc]) /\ Careful(t[pc - 1], program[pc])
    BY <1>5, <1>6 DEF Follows, Plays
  <2> HIDE DEF s, i, g
  <2>3. t[pc] = Played(s, i) /\ Careful(s, i)
    BY <2>1, <2>2 DEF i
  <2> QED
    BY <1>7, <1>8, <2>3 DEF Played
<1>11. Follows(t)'
  <2>1. (IF pc' = 0 THEN n ELSE pc' - 1) = pc
    BY <1>1, <1>2
  <2>2. On(sda', scl', heard') = t[pc]
    BY <1>2, <1>10
  <2>3. ((IF first THEN Wakeup ELSE <<>>) \o Frame(request))'
            = (IF first THEN Wakeup ELSE <<>>) \o Frame(request)
    BY <1>2 DEF Frame
  <2>4. /\ Plays(t, program) /\ t[0] = On(1, 1, <<>>)
        /\ t[n] = On(1, 1, (IF first THEN Wakeup ELSE <<>>) \o Frame(request))
    BY <1>5 DEF Follows
  <2> QED
    BY <1>2, <2>1, <2>2, <2>3, <2>4 DEF Follows
<1>12. /\ heard' \in Seq(Sounds) /\ Len(heard') = Len(heard) + Len(g)
       /\ Len(heard) \in Nat /\ Len(g) \in Nat
       /\ \A k \in 1 .. Len(heard) : heard'[k] = heard[k]
  <2> HIDE DEF g
  <2>1. heard \o g \in Seq(Sounds)
    BY <1>1, <1>9
  <2>2. Len(heard \o g) = Len(heard) + Len(g) /\ Len(heard) \in Nat /\ Len(g) \in Nat
    BY <1>1, <1>9
  <2>3. \A k \in 1 .. Len(heard) : (heard \o g)[k] = heard[k]
    BY <1>1, <1>9
  <2> QED
    BY <1>2, <2>1, <2>2, <2>3
<1>13. WaveTypes'
  <2>1. i.sda \in {0, 1} /\ i.scl \in {0, 1}
    <3> HIDE DEF i
    <3> QED
      BY <1>6 DEF Instructions
  <2>2. pc' \in 0 .. n
    BY <1>1, <1>2
  <2>3. moved' \subseteq Nat
    BY <1>1, <1>2, <1>12
  <2> QED
    BY <1>1, <1>2, <1>12, <2>1, <2>2, <2>3 DEF WaveTypes
<1>14. MovedAfterAnswers'
  <2>1. ASSUME NEW k \in moved
        PROVE  k <= Len(heard) /\ k > 1 /\ heard[k] = "low" /\ heard[k - 1] = "read"
    BY DEF WaveInv, MovedAfterAnswers
  <2>2. ASSUME NEW k \in moved'
        PROVE  k <= Len(heard) /\ k > 1 /\ heard[k] = "low" /\ heard[k - 1] = "read"
    <3>1. CASE k \in moved
      BY <2>1, <3>1
    <3>2. CASE k \notin moved
      <4>1. sda # i.sda /\ scl # i.scl /\ k = Len(heard)
        BY <1>2, <2>2, <3>2
      <4>2. Answered(heard)
        <5> HIDE DEF s, i
        <5> QED
          BY <1>7, <1>10, <4>1 DEF Careful
      <4> QED
        BY <1>12, <4>1, <4>2 DEF Answered
    <3> QED
      BY <3>1, <3>2
  <2>3. ASSUME NEW k \in moved'
        PROVE  k <= Len(heard') /\ k > 1 /\ heard'[k] = "low" /\ heard'[k - 1] = "read"
    <3>1. k <= Len(heard) /\ k > 1 /\ heard[k] = "low" /\ heard[k - 1] = "read"
      BY <2>2
    <3>2. k \in Nat
      BY <1>1, <1>2, <1>12
    <3>3. k \in 1 .. Len(heard) /\ k - 1 \in 1 .. Len(heard)
      BY <1>12, <3>1, <3>2
    <3> QED
      BY <1>12, <3>1, <3>2, <3>3
  <2> QED
    BY <2>3 DEF MovedAfterAnswers
<1>15. NothingIsPlayed' /\ ProgramIsFollowed'
  BY <1>2, <1>3, <1>4, <1>11 DEF NothingIsPlayed, ProgramIsFollowed
<1> QED
  BY <1>13, <1>14, <1>15 DEF WaveInv

(* The bus is idle again, and another request comes.                         *)
LEMMA DoneKeeps == WaveInv /\ Done => WaveInv'
<1> SUFFICES ASSUME WaveInv, Done PROVE WaveInv'
  OBVIOUS
<1>1. /\ pc = 0 /\ program # <<>> /\ request' \in Requests
      /\ program' = <<>> /\ heard' = <<>> /\ first' = FALSE /\ moved' = {}
      /\ i2c_state' = i2c_state /\ pc' = pc /\ sda' = sda /\ scl' = scl
  BY DEF Done
<1>2. i2c_state = "start" /\ \E t : Follows(t)
  BY <1>1 DEF WaveInv, ProgramIsFollowed
<1>3. PICK t : Follows(t)
  BY <1>2
<1>4. On(sda, scl, heard) = On(1, 1, (IF first THEN Wakeup ELSE <<>>) \o Frame(request))
  BY <1>1, <1>3 DEF Follows
<1>5. sda = 1 /\ scl = 1
  <2>1. On(sda, scl, heard).sda = sda /\ On(sda, scl, heard).scl = scl
    BY DEF On
  <2>2. \A x : On(1, 1, x).sda = 1 /\ On(1, 1, x).scl = 1
    BY DEF On
  <2> QED
    BY <1>4, <2>1, <2>2, Zenon
<1>6. <<>> \in Seq(Instructions) /\ Len(<<>>) = 0 /\ <<>> \in Seq(Sounds)
  OBVIOUS
<1>7. WaveTypes'
  <2>1. i2c_state' \in {"stop", "start"} /\ sda' \in {0, 1} /\ scl' \in {0, 1}
    BY <1>1 DEF WaveInv, WaveTypes
  <2>2. /\ program' \in Seq(Instructions) /\ Len(program') = 0 /\ heard' \in Seq(Sounds)
        /\ moved' \subseteq Nat /\ first' \in BOOLEAN
    BY <1>1, <1>6
  <2>3. pc' \in 0 .. Len(program') /\ Len(program') <= 637
    BY <1>1, <2>2
  <2> QED
    BY <1>1, <2>1, <2>2, <2>3 DEF WaveTypes
<1>8. MovedAfterAnswers' /\ NothingIsPlayed' /\ ProgramIsFollowed'
  BY <1>1, <1>2, <1>5 DEF MovedAfterAnswers, NothingIsPlayed, ProgramIsFollowed
<1> QED
  BY <1>7, <1>8 DEF WaveInv

(* Every step keeps the invariant.                                           *)
LEMMA WaveInvStep == WaveInv /\ [WaveNext]_waveVars => WaveInv'
<1> SUFFICES ASSUME WaveInv, [WaveNext]_waveVars PROVE WaveInv'
  OBVIOUS
<1>1. CASE Prepare
  BY <1>1, PrepareKeeps
<1>2. CASE PlayNext
  BY <1>2, PlayNextKeeps
<1>3. CASE Done
  BY <1>3, DoneKeeps
<1>4. CASE UNCHANGED waveVars
  <2>1. /\ request' = request /\ i2c_state' = i2c_state /\ program' = program /\ pc' = pc
        /\ sda' = sda /\ scl' = scl /\ heard' = heard /\ first' = first /\ moved' = moved
    BY <1>4 DEF waveVars
  <2>2. Frame(request)' = Frame(request)
    BY <2>1 DEF Frame
  <2>3. \A t : Follows(t)' = Follows(t)
    BY <2>1, <2>2 DEF Follows
  <2>4. WaveTypes' /\ MovedAfterAnswers' /\ NothingIsPlayed'
    BY <2>1 DEF WaveInv, WaveTypes, MovedAfterAnswers, NothingIsPlayed
  <2>5. ProgramIsFollowed'
    BY <2>1, <2>3 DEF WaveInv, ProgramIsFollowed
  <2> QED
    BY <2>4, <2>5 DEF WaveInv
<1> QED
  BY <1>1, <1>2, <1>3, <1>4 DEF WaveNext

(* The listener hears the frame of the request and nothing else, no line     *)
(* moves with the other but after an acknowledge between two bytes, and the  *)
(* program fits: for every address, every value of up to sixteen bytes,      *)
(* every number of bytes read up to four, and every sequence of transfers.   *)
THEOREM FrameIsAlwaysHeard == WaveSpec => []FrameIsHeard
<1>1. WaveInv => FrameIsHeard
  <2> SUFFICES ASSUME WaveInv PROVE FrameIsHeard
    OBVIOUS
  <2>1. LinesMoveOneAtATime
    BY DEF WaveInv, MovedAfterAnswers, LinesMoveOneAtATime
  <2>2. Len(program) < 2 ^ 10
    <3>1. Len(program) <= 637 /\ Len(program) \in Nat
      BY LenProperties DEF WaveInv, WaveTypes
    <3>2. 2 ^ 10 = 1024
      OBVIOUS
    <3> QED
      BY <3>1, <3>2
  <2>3. ASSUME pc = 0, program # <<>>
        PROVE  heard = (IF first THEN Wakeup ELSE <<>>) \o Frame(request)
    <3> DEFINE x == (IF first THEN Wakeup ELSE <<>>) \o Frame(request)
    <3>1. \E t : Follows(t)
      BY <2>3 DEF WaveInv, ProgramIsFollowed
    <3>2. On(sda, scl, heard) = On(1, 1, x)
      BY <2>3, <3>1 DEF Follows
    <3> HIDE DEF x
    <3>3. On(sda, scl, heard).heard = heard /\ On(1, 1, x).heard = x
      BY DEF On
    <3> QED
      BY <3>2, <3>3, Zenon DEF x
  <2> QED
    BY <2>1, <2>2, <2>3 DEF FrameIsHeard
<1> QED
  BY <1>1, WaveInvInit, WaveInvStep, PTL DEF WaveSpec
=============================================================================
