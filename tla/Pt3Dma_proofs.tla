---------------------------- MODULE Pt3Dma_proofs ----------------------------
(***************************************************************************)
(* Proofs about Pt3Dma, for a buffer of any size, any units and any number *)
(* of sessions: with one thread to the open file a reset is undisturbed,   *)
(* an overrun between two blocks is logged before its data are delivered,  *)
(* and until the first overrun the data come in order.                     *)
(*                                                                         *)
(* The code never compares the board's place with the reader's: it tells   *)
(* from the first bytes of two blocks what the board has done.  HeadInv    *)
(* says what those bytes mean, DataInv what is in the blocks.              *)
(*                                                                         *)
(* Then, about Pt3Descriptors, that the descriptors lead through the       *)
(* buffer in a ring, whatever its size and that of a page: Placed says     *)
(* that the pages are filled one after the other, and Chained that the     *)
(* descriptors written so far lead from each to the next.                  *)
(*                                                                         *)
(* Last, about Pt3Program, that the engine of the board plays the programs *)
(* of the threads as the transactions they ask for, whatever the programs: *)
(* Says is what a piece of a program makes heard, whatever was before,     *)
(* and ProgramInv that the thread with the flag has its program, and its   *)
(* alone, in the memory when the engine takes it from there.               *)
(***************************************************************************)
EXTENDS Pt3Dma, Pt3Descriptors, Pt3Program, SequenceLemmas

UnitIdx == 0 .. Units - 1

BufferTypes ==
    /\ head \in [BlockIdx -> {"sync", "mark", "other"}]
    /\ content \in [BlockIdx -> [UnitIdx -> 0 .. Numbers]]
    /\ dpos \in [BlockIdx -> UnitIdx] /\ ts_pos \in BlockIdx

BoardTypes ==
    /\ engine \in {"off", "on", "stopping"}
    /\ hblk \in BlockIdx /\ hunit \in UnitIdx /\ written \in Stream
    /\ blk \in BlockIdx
    /\ want \in Stream /\ lapped \in {"no", "waiting", "copying"} /\ logged \in BOOLEAN

ReaderTypes ==
    /\ valid \in BOOLEAN /\ rstart \in BOOLEAN
    /\ slock \in Threads \cup {None} /\ dlock \in Readers \cup {None}
    /\ rpc \in [Readers -> ReaderPCs]
    /\ remain \in [Readers -> Nat] /\ csize \in [Readers -> Nat]
    /\ got \in [Readers -> Nat] /\ tries \in [Readers -> Nat]
    /\ \A r \in Readers : rpc[r] = "copy" => csize[r] <= remain[r]

TypeInv == BufferTypes /\ BoardTypes /\ ReaderTypes

-----------------------------------------------------------------------------
(* One thread reads through the open file.                                   *)

OneReader == \A r, s \in Readers : r = s

Starting(r) == rpc[r] \in {"reset", "enable"}
Inside(r)   == rpc[r] \in {"look", "check", "size", "copy"}

(* Who has the locks, and when the board is off. *)
ReaderLocks(r) ==
    /\ dlock = (IF Inside(r) THEN r ELSE None)
    /\ rpc[r] = "start" => ~ rstart
    /\ Starting(r) <=> slock = r
    /\ Starting(r) => rstart /\ engine = "off"
    /\ Inside(r) \/ rpc[r] = "enter" => rstart
    /\ slock = "closer" => rpc[r] = "idle"

LockInv ==
    /\ \A r \in Readers : ReaderLocks(r)
    /\ slock = "closer" => ~ rstart /\ ~ valid
    /\ engine = "on" => rstart
    /\ engine = "stopping" => slock = "closer"

(* What a reset has done so far. *)
ResetInv ==
    \A r \in Readers :
        /\ rpc[r] = "reset" =>
             \A b \in BlockIdx : b < blk => head[b] = "mark" /\ dpos[b] = 0
        /\ rpc[r] = "enable" =>
             ts_pos = 0 /\ \A b \in BlockIdx : head[b] = "mark" /\ dpos[b] = 0

-----------------------------------------------------------------------------
(* How far a block is ahead of the reader's, and where the board is.         *)

Dist(b) == IF b >= ts_pos THEN b - ts_pos ELSE b - ts_pos + Blocks

Complete(b) == Overtakes \/ Dist(b) < Dist(hblk)
Begun(b)    == Complete(b) \/ (b = hblk /\ hunit > 0)

(* Until the board overtakes the reader, exactly the blocks it has begun     *)
(* start with a sync byte, and only the reader's is read in part.            *)
HeadInv ==
    /\ \A b \in BlockIdx :
          /\ head[b] = (IF Begun(b) THEN "sync" ELSE "mark")
          /\ b # ts_pos => dpos[b] = 0
    /\ ~ Complete(ts_pos) => dpos[ts_pos] = 0
    /\ \A r \in Readers :
          /\ rpc[r] \in {"check", "size", "copy"} => Complete(ts_pos)
          /\ rpc[r] = "copy" => csize[r] <= Units - dpos[ts_pos] /\ got[r] <= csize[r]

First(b) == content[b][0]

(* The units of a block follow each other, and so do the blocks; the board's *)
(* next unit follows the last one written, and the reader's next unit is the *)
(* one after those that were delivered.                                      *)
DataInv ==
    /\ \A b \in BlockIdx : \A u \in UnitIdx :
          Complete(b) \/ (b = hblk /\ u < hunit) =>
              content[b][u] = (First(b) + u) % Numbers
    /\ \A b \in BlockIdx :
          Complete(b) =>
              (First(b) + Units) % Numbers =
                  IF NextBlock(b) = hblk /\ hunit = 0 THEN written
                  ELSE First(NextBlock(b))
    /\ hunit > 0 => written = (First(hblk) + hunit) % Numbers
    /\ want = IF Begun(ts_pos) THEN (First(ts_pos) + dpos[ts_pos]) % Numbers
              ELSE written

(* Once it has, every block starts with a sync byte until that is noticed.   *)
LapInv ==
    lapped = "waiting" /\ ~ logged =>
        /\ \A b \in BlockIdx : head[b] = "sync"
        /\ \A r \in Readers : ~ Copying(r)

InSession == rstart /\ \A r \in Readers : ~ Starting(r)

DmaInv ==
    /\ TypeInv /\ LockInv /\ ResetInv
    /\ InSession => LapInv
    /\ InSession /\ lapped = "no" => HeadInv /\ DataInv

-----------------------------------------------------------------------------
(* Remainders.                                                               *)

LEMMA RemainderIsUnique ==
    ASSUME NEW m \in Nat \ {0}, NEW x \in Int, NEW k \in Int, NEW r \in 0 .. m - 1,
           x = k * m + r
    PROVE  x % m = r
OBVIOUS

LEMMA RemainderType ==
    ASSUME NEW m \in Nat \ {0}, NEW x \in Int
    PROVE  x % m \in 0 .. m - 1
OBVIOUS

(* A remainder may be taken on the way. *)
LEMMA RemainderOfSum ==
    ASSUME NEW m \in Nat \ {0}, NEW x \in Int, NEW y \in Int
    PROVE  ((x % m) + y) % m = (x + y) % m
<1> DEFINE k == x \div m
           r == x % m
           j == (r + y) \div m
           q == (r + y) % m
<1>1. k \in Int /\ r \in Int /\ x = k * m + r
  OBVIOUS
<1>2. j \in Int /\ q \in 0 .. m - 1 /\ r + y = j * m + q
  BY <1>1
<1> HIDE DEF k, r, j, q
<1>3. x + y = (k + j) * m + q
  BY <1>1, <1>2
<1>4. x + y \in Int /\ k + j \in Int
  BY <1>1, <1>2
<1>5. (x + y) % m = q
  BY <1>2, <1>3, <1>4, RemainderIsUnique
<1> QED
  BY <1>5 DEF q, r

LEMMA Sizes ==
    /\ Blocks \in Nat /\ Blocks >= 2
    /\ Units \in Nat \ {0} /\ Numbers \in Nat \ {0}
BY Pt3DmaAssumption

LEMMA NextBlockType ==
    ASSUME NEW b \in BlockIdx
    PROVE  NextBlock(b) \in BlockIdx
BY Sizes DEF BlockIdx, NextBlock

LEMMA NextUnit ==
    ASSUME NEW u \in UnitIdx
    PROVE  (u + 1) % Units = IF u + 1 = Units THEN 0 ELSE u + 1
<1>1. CASE u + 1 = Units
  <2>1. u + 1 = 1 * Units + 0 /\ 0 \in 0 .. Units - 1
    BY Sizes, <1>1 DEF UnitIdx
  <2> QED
    BY Sizes, <1>1, <2>1, RemainderIsUnique
<1>2. CASE u + 1 # Units
  <2>1. u + 1 = 0 * Units + (u + 1) /\ u + 1 \in 0 .. Units - 1 /\ u + 1 \in Int
    BY Sizes, <1>2 DEF UnitIdx
  <2> QED
    BY Sizes, <1>2, <2>1, RemainderIsUnique
<1> QED
  BY <1>1, <1>2

LEMMA StreamRemainder ==
    ASSUME NEW n \in Int
    PROVE  n % Numbers \in Stream
BY Sizes, RemainderType DEF Stream

-----------------------------------------------------------------------------
(* Types.                                                                    *)

LEMMA TypeInvInit == Init => TypeInv
<1> SUFFICES ASSUME Init PROVE TypeInv
  OBVIOUS
<1>1. 0 \in BlockIdx /\ 0 \in UnitIdx /\ 0 \in Stream
  BY Sizes DEF BlockIdx, UnitIdx, Stream
<1>2. [u \in 0 .. Units - 1 |-> Numbers] \in [UnitIdx -> 0 .. Numbers]
  BY Sizes DEF UnitIdx
<1>3. BufferTypes
  BY <1>1, <1>2 DEF Init, BufferTypes
<1>4. BoardTypes
  BY <1>1 DEF Init, BoardTypes
<1>5. ReaderTypes
  BY DEF Init, ReaderTypes, ReaderPCs
<1> QED
  BY <1>3, <1>4, <1>5 DEF TypeInv

(* The board writes. *)
LEMMA FillTypes ==
    ASSUME TypeInv, Fill
    PROVE  TypeInv'
<1> USE DEF TypeInv, BufferTypes, BoardTypes
<1>1. hblk \in BlockIdx /\ hunit \in UnitIdx /\ written \in Int /\ written \in 0 .. Numbers
  BY Sizes DEF Stream
<1>2. (written + 1) % Numbers \in Stream
  BY <1>1, StreamRemainder
<1>3. (hunit + 1) % Units \in UnitIdx
  BY <1>1, NextUnit, Sizes DEF UnitIdx
<1>4. hblk' \in BlockIdx
  BY <1>1, NextBlockType DEF Fill
<1>5. BufferTypes'
  BY <1>1 DEF Fill
<1>6. BoardTypes'
  BY <1>2, <1>3, <1>4 DEF Fill
<1>7. ReaderTypes'
  BY DEF Fill, ReaderTypes, readerVars
<1> QED
  BY <1>5, <1>6, <1>7

LEMMA ResetTypes ==
    ASSUME TypeInv, NEW r \in Readers, ResetBlock(r)
    PROVE  TypeInv'
<1> USE DEF TypeInv
<1>1. [u \in 0 .. Units - 1 |-> Numbers] \in [UnitIdx -> 0 .. Numbers]
  BY Sizes DEF UnitIdx
<1>2. 0 \in UnitIdx /\ 0 \in BlockIdx
  BY Sizes DEF UnitIdx, BlockIdx
<1>3. BufferTypes'
  BY <1>1, <1>2 DEF ResetBlock, BufferTypes
<1>4. BoardTypes'
  BY Sizes DEF ResetBlock, BoardTypes, BlockIdx, boardVars, history
<1>5. ReaderTypes'
  BY DEF ResetBlock, ReaderTypes, Goto, ReaderPCs
<1> QED
  BY <1>3, <1>4, <1>5

LEMMA CopiedTypes ==
    ASSUME TypeInv, NEW r \in Readers, Copied(r)
    PROVE  TypeInv'
<1> USE DEF TypeInv
<1>1. /\ csize[r] \in Nat /\ remain[r] \in Nat /\ csize[r] <= remain[r]
      /\ dpos[ts_pos] \in UnitIdx /\ ts_pos \in BlockIdx /\ want \in Stream
  BY DEF BufferTypes, BoardTypes, ReaderTypes, Copied
<1>2. (want + csize[r]) % Numbers \in Stream
  BY <1>1, StreamRemainder, Sizes DEF Stream
<1>3. BufferTypes'
  <2>1. 0 \in UnitIdx /\ NextBlock(ts_pos) \in BlockIdx
    BY <1>1, Sizes, NextBlockType DEF UnitIdx
  <2>2. dpos[ts_pos] + csize[r] < Units => dpos[ts_pos] + csize[r] \in UnitIdx
    BY <1>1, Sizes DEF UnitIdx
  <2>3. dpos[ts_pos] + csize[r] >= Units \/ dpos[ts_pos] + csize[r] < Units
    BY <1>1, Sizes DEF UnitIdx
  <2> QED
    BY <2>1, <2>2, <2>3 DEF Copied, BufferTypes
<1>4. BoardTypes'
  BY <1>2 DEF Copied, BoardTypes, boardVars
<1>5. ReaderTypes'
  <2>1. remain[r] - csize[r] \in Nat
    BY <1>1
  <2>2. \A s \in Readers \ {r} :
          rpc'[s] = rpc[s] /\ csize'[s] = csize[s] /\ remain'[s] = remain[s]
    BY DEF Copied, Leave, Forget, Goto, ReaderTypes
  <2>3. rpc' \in [Readers -> ReaderPCs] /\ rpc'[r] # "copy"
    BY DEF Copied, Leave, Goto, ReaderTypes, ReaderPCs
  <2>4. remain' \in [Readers -> Nat]
    BY <2>1 DEF Copied, Leave, ReaderTypes
  <2>5. /\ csize' \in [Readers -> Nat] /\ got' \in [Readers -> Nat]
        /\ tries' \in [Readers -> Nat] /\ dlock' \in Readers \cup {None}
    BY DEF Copied, Leave, Forget, ReaderTypes
  <2> QED
    BY <2>2, <2>3, <2>4, <2>5 DEF Copied, ReaderTypes
<1> QED
  BY <1>3, <1>4, <1>5

(* Every step keeps the types.                                               *)
LEMMA TypeInvNext == TypeInv /\ [Next]_vars => TypeInv'
<1> SUFFICES ASSUME TypeInv, [Next]_vars PROVE TypeInv'
  OBVIOUS
<1> USE DEF TypeInv, bufferVars, boardVars, readerVars, history
<1>1. CASE UNCHANGED vars
  BY <1>1 DEF vars, BufferTypes, BoardTypes, ReaderTypes
<1>2. CASE BoardStops \/ Open \/ Close \/ Closed
  BY <1>2 DEF BoardStops, Open, Close, Closed, Threads, BufferTypes, BoardTypes, ReaderTypes
<1>3. ASSUME NEW r \in Readers,
             ReadCall(r) \/ Start(r) \/ Enter(r) \/ Look(r) \/ Check(r) \/ Size(r)
             \/ CopyUnit(r) \/ CopyFault(r)
      PROVE  TypeInv'
  <2> USE DEF Goto
  <2>1. BufferTypes'
    <3>1. UNCHANGED bufferVars
      BY <1>3 DEF ReadCall, Start, Enter, Look, Check, Size, CopyUnit, CopyFault
    <3> QED
      BY <3>1 DEF BufferTypes
  <2>2. BoardTypes'
    <3>1. UNCHANGED <<boardVars, want, lapped>>
      BY <1>3 DEF ReadCall, Start, Enter, Look, Check, Size, CopyUnit, CopyFault
    <3>2. blk' \in {0, blk} /\ 0 \in BlockIdx
      BY <1>3, Sizes
      DEF ReadCall, Start, Enter, Look, Check, Size, CopyUnit, CopyFault, BlockIdx
    <3>3. logged' \in BOOLEAN
      BY <1>3 DEF ReadCall, Start, Enter, Look, Check, Size, CopyUnit, CopyFault, BoardTypes
    <3> QED
      BY <3>1, <3>2, <3>3 DEF BoardTypes
  <2>3. Units - dpos[ts_pos] \in Nat
    BY Sizes DEF BufferTypes, UnitIdx
  <2>4. ReaderTypes'
    <3> USE DEF ReaderTypes, ReaderPCs
    <3>1. CASE ReadCall(r)
      BY <3>1, Pt3DmaAssumption DEF ReadCall
    <3>2. CASE Start(r)
      BY <3>2 DEF Start, Threads
    <3>6. CASE Enter(r)
      BY <3>6 DEF Enter
    <3>7. CASE Check(r)
      BY <3>7 DEF Check
    <3>3. CASE Look(r)
      <4>1. /\ rpc' \in [Readers -> ReaderPCs] /\ rpc'[r] # "copy"
            /\ \A s \in Readers \ {r} : rpc'[s] = rpc[s] /\ remain'[s] = remain[s]
        BY <3>3 DEF Look, Leave
      <4>2. tries' \in [Readers -> Nat] /\ remain' \in [Readers -> Nat]
        BY <3>3 DEF Look, Leave
      <4> QED
        BY <3>3, <4>1, <4>2 DEF Look, Leave
    <3>4. CASE Size(r)
      BY <3>4, <2>3 DEF Size
    <3>5. CASE CopyUnit(r) \/ CopyFault(r)
      BY <3>5 DEF CopyUnit, CopyFault, Leave, Forget
    <3> QED
      BY <1>3, <3>1, <3>2, <3>3, <3>4, <3>5, <3>6, <3>7
  <2> QED
    BY <2>1, <2>2, <2>4
<1>4. ASSUME NEW r \in Readers, Enable(r) PROVE TypeInv'
  <2>1. 0 \in BlockIdx /\ 0 \in UnitIdx
    BY Sizes DEF BlockIdx, UnitIdx
  <2> QED
    BY <1>4, <2>1 DEF Enable, Goto, ReaderPCs, BufferTypes, BoardTypes, ReaderTypes
<1> QED
  BY <1>1, <1>2, <1>3, <1>4, FillTypes, ResetTypes, CopiedTypes DEF Next, Reading

(* The variables keep their types, with any number of threads. *)
THEOREM Pt3DmaTypeCorrect == Spec => []TypeInv
BY TypeInvInit, TypeInvNext, PTL DEF Spec

-----------------------------------------------------------------------------
(* The locks.                                                                *)

LEMMA Names ==
    ASSUME NEW r \in Readers
    PROVE  r # None /\ r # "closer" /\ None # "closer"
BY Pt3DmaAssumption

(* Every step keeps what is said of the locks.                               *)
LEMMA LockInvNext ==
    ASSUME OneReader, TypeInv, LockInv, [Next]_vars
    PROVE  LockInv'
<1> USE DEF bufferVars, boardVars, readerVars, history
<1> USE DEF LockInv, ReaderLocks, Starting, Inside
<1>1. CASE UNCHANGED vars \/ Fill \/ BoardStops
  BY <1>1 DEF vars, Fill, BoardStops
<1>2. CASE Open \/ Closed
  BY <1>2, Names, Pt3DmaAssumption DEF Open, Closed, TypeInv, BoardTypes
<1>4. CASE Close
  BY <1>4, Names DEF Close, TypeInv, BoardTypes
<1>3. ASSUME NEW r \in Readers, ReadCall(r) \/ Reading(r)
      PROVE  LockInv'
  <2>1. \A s \in Readers : s = r
    BY DEF OneReader
  <2>2. rpc \in [Readers -> ReaderPCs] /\ ReaderLocks(r)
    BY DEF TypeInv, ReaderTypes, LockInv
  <2>3. SUFFICES /\ ReaderLocks(r)'
                 /\ slock' = "closer" => ~ rstart' /\ ~ valid'
                 /\ engine' = "on" => rstart'
                 /\ engine' = "stopping" => slock' = "closer"
    BY <2>1 DEF LockInv
  <2>4. /\ slock = "closer" => ~ rstart /\ ~ valid
        /\ engine = "on" => rstart
        /\ engine = "stopping" => slock = "closer"
        /\ engine \in {"off", "on", "stopping"}
    BY DEF LockInv, TypeInv, BoardTypes
  <2> USE Names DEF ReaderLocks, Starting, Inside, Goto
  <2>5. CASE ReadCall(r)
    BY <2>2, <2>4, <2>5 DEF ReadCall
  <2>6. CASE Start(r)
    BY <2>2, <2>4, <2>6 DEF Start
  <2>7. CASE ResetBlock(r)
    BY <2>2, <2>4, <2>7 DEF ResetBlock
  <2>8. CASE Enable(r)
    BY <2>2, <2>4, <2>8 DEF Enable
  <2>9. CASE Enter(r) \/ Check(r) \/ Size(r) \/ CopyUnit(r)
    BY <2>2, <2>4, <2>9 DEF Enter, Check, Size, CopyUnit
  <2>10. CASE Look(r) \/ CopyFault(r)
    BY <2>2, <2>4, <2>10 DEF Look, CopyFault, Leave
  <2>11. CASE Copied(r)
    <3>1. \/ rpc'[r] \in {"look", "size"} /\ dlock' = dlock
          \/ rpc'[r] = "idle" /\ dlock' = None
      BY <2>2, <2>11 DEF Copied, Leave
    <3>2. UNCHANGED <<engine, rstart, slock>> /\ rpc[r] = "copy"
      BY <2>11 DEF Copied
    <3> QED
      BY <2>2, <2>4, <3>1, <3>2
  <2> QED
    BY <1>3, <2>5, <2>6, <2>7, <2>8, <2>9, <2>10, <2>11 DEF Reading
<1> QED
  BY <1>1, <1>2, <1>3, <1>4 DEF Next

(* Every step keeps what is said of a reset.                                 *)
LEMMA ResetInvNext ==
    ASSUME OneReader, TypeInv, LockInv, ResetInv, [Next]_vars
    PROVE  ResetInv'
<1> USE DEF bufferVars, boardVars, readerVars, history
<1>1. SUFFICES ASSUME NEW r \in Readers, Starting(r)'
               PROVE  ResetInv'
  BY DEF ResetInv, Starting
<1>2. \A s \in Readers : s = r
  BY DEF OneReader
<1>3. rpc \in [Readers -> ReaderPCs] /\ ReaderLocks(r)
  BY DEF TypeInv, ReaderTypes, LockInv
<1>4. CASE UNCHANGED <<bufferVars, rpc, blk>>
  BY <1>4 DEF ResetInv
<1>5. CASE Fill
  BY <1>1, <1>3, <1>5 DEF Fill, ReaderLocks, Starting
<1>6. CASE Start(r)
  BY <1>2, <1>3, <1>6, Sizes DEF Start, ResetInv, Goto, BlockIdx
<1>7. CASE ResetBlock(r)
  <2>1. /\ blk \in BlockIdx /\ head \in [BlockIdx -> {"sync", "mark", "other"}]
        /\ dpos \in [BlockIdx -> UnitIdx]
    BY DEF TypeInv, BufferTypes, BoardTypes
  <2>2. \A b \in BlockIdx : b < blk => head[b] = "mark" /\ dpos[b] = 0
    BY <1>7 DEF ResetInv, ResetBlock
  <2>3. \A b \in BlockIdx : b < blk + 1 => head'[b] = "mark" /\ dpos'[b] = 0
    BY <1>7, <2>1, <2>2 DEF ResetBlock, BlockIdx
  <2>4. CASE blk + 1 < Blocks
    BY <1>2, <1>3, <1>7, <2>1, <2>3, <2>4 DEF ResetBlock, ResetInv
  <2>5. CASE ~ (blk + 1 < Blocks)
    <3>1. blk + 1 = Blocks
      BY <2>1, <2>5, Sizes DEF BlockIdx
    <3>2. rpc'[r] = "enable" /\ ts_pos' = 0
      BY <1>3, <1>7, <2>5 DEF ResetBlock, Goto
    <3>3. \A b \in BlockIdx : head'[b] = "mark" /\ dpos'[b] = 0
      BY <2>3, <3>1, Sizes DEF BlockIdx
    <3> QED
      BY <1>2, <3>2, <3>3 DEF ResetInv
  <2> QED
    BY <2>4, <2>5
<1>8. CASE \/ ReadCall(r) \/ Enable(r) \/ Enter(r) \/ Look(r) \/ Check(r) \/ Size(r)
           \/ CopyFault(r) \/ Copied(r)
  <2>1. rpc'[r] \notin {"reset", "enable"}
    BY <1>3, <1>8 DEF ReadCall, Enable, Enter, Look, Check, Size, CopyFault, Copied, Leave, Goto
  <2> QED
    BY <1>1, <2>1 DEF Starting
<1> QED
  BY <1>2, <1>4, <1>5, <1>6, <1>7, <1>8
  DEF Next, vars, Reading, BoardStops, Open, Close, Closed, CopyUnit

(* A reset is undisturbed: the board is off and nobody has the buffer's lock *)
(* while pt3_dma_reset and the start of the board are under way, for any     *)
(* number of blocks and of sessions (pt3_dma.c:269-296, 449-462).          *)
THEOREM ResetIsAlwaysUndisturbed ==
    ASSUME OneReader
    PROVE  Spec => []ResetIsUndisturbed
<1> DEFINE I == TypeInv /\ LockInv
<1>1. Init => I
  BY TypeInvInit, Names DEF Init, LockInv, ReaderLocks, Starting, Inside
<1>2. I /\ [Next]_vars => I'
  BY TypeInvNext, LockInvNext
<1>3. I => ResetIsUndisturbed
  BY DEF LockInv, ReaderLocks, Starting, Inside, ResetIsUndisturbed
<1> QED
  BY <1>1, <1>2, <1>3, PTL DEF Spec

-----------------------------------------------------------------------------
(* Places in the ring.                                                       *)

LEMMA Distances ==
    ASSUME ts_pos \in BlockIdx
    PROVE  /\ \A b \in BlockIdx : Dist(b) \in 0 .. Blocks - 1
           /\ \A b, c \in BlockIdx : Dist(b) = Dist(c) => b = c
           /\ Dist(ts_pos) = 0
           /\ \A b \in BlockIdx :
                Dist(NextBlock(b)) = IF Dist(b) + 1 = Blocks THEN 0 ELSE Dist(b) + 1
           /\ NextBlock(ts_pos) # ts_pos
BY Sizes DEF Dist, NextBlock, BlockIdx

LEMMA NextBlockIsUnique ==
    ASSUME NEW b \in BlockIdx, NEW c \in BlockIdx, NextBlock(b) = NextBlock(c)
    PROVE  b = c
BY Sizes DEF NextBlock, BlockIdx

LEMMA DistancesShrink ==
    ASSUME ts_pos \in BlockIdx, ts_pos' = NextBlock(ts_pos), NEW b \in BlockIdx
    PROVE  Dist(b)' = IF b = ts_pos THEN Blocks - 1 ELSE Dist(b) - 1
BY Sizes DEF Dist, NextBlock, BlockIdx

(* The block the board is in is not complete. *)
LEMMA BoardsBlock ==
    ASSUME TypeInv, ~ Overtakes
    PROVE  ~ Complete(hblk)
<1>1. Dist(hblk) \in Int
  BY Distances, Sizes DEF TypeInv, BufferTypes, BoardTypes
<1> QED
  BY <1>1 DEF Complete

(* The board writes a unit and does not overtake the reader. *)
LEMMA FillBegins ==
    ASSUME TypeInv, HeadInv, Fill, ~ Overtakes
    PROVE  \A b \in BlockIdx :
             /\ Complete(b)' <=> Complete(b) \/ (b = hblk /\ hunit + 1 = Units)
             /\ Begun(b)' <=> Begun(b) \/ b = hblk
             /\ head'[b] = IF Begun(b)' THEN "sync" ELSE "mark"
<1>1. /\ ts_pos \in BlockIdx /\ hblk \in BlockIdx /\ hunit \in UnitIdx
      /\ head \in [BlockIdx -> {"sync", "mark", "other"}]
  BY DEF TypeInv, BufferTypes, BoardTypes
<1>2. /\ ts_pos' = ts_pos
      /\ hunit' = IF hunit + 1 = Units THEN 0 ELSE hunit + 1
      /\ hblk' = IF hunit + 1 = Units THEN NextBlock(hblk) ELSE hblk
      /\ head' = IF hunit = 0 THEN [head EXCEPT ![hblk] = "sync"] ELSE head
  BY <1>1, NextUnit DEF Fill
<1>3. /\ \A b \in BlockIdx : Dist(b)' = Dist(b) /\ Dist(b) \in 0 .. Blocks - 1
      /\ \A b, c \in BlockIdx : Dist(b) = Dist(c) => b = c
      /\ Dist(ts_pos) = 0
      /\ Dist(NextBlock(hblk)) = IF Dist(hblk) + 1 = Blocks THEN 0 ELSE Dist(hblk) + 1
      /\ NextBlock(hblk) \in BlockIdx
  <2>1. \A b \in BlockIdx : Dist(b)' = Dist(b)
    BY <1>2 DEF Dist
  <2> QED
    BY <1>1, <2>1, Distances, NextBlockType
<1>4. \A b \in BlockIdx :
        /\ head[b] = (IF Begun(b) THEN "sync" ELSE "mark")
        /\ Complete(b) <=> Dist(b) < Dist(hblk)
        /\ Begun(b) <=> Complete(b) \/ (b = hblk /\ hunit > 0)
  BY DEF HeadInv, Complete, Begun
<1>5. \A b \in BlockIdx : head'[b] = IF Begun(b) \/ b = hblk THEN "sync" ELSE "mark"
  <2>1. hunit # 0 => hunit > 0
    BY <1>1, Sizes DEF UnitIdx
  <2> QED
    BY <1>1, <1>2, <1>4, <2>1
<1>6. CASE hunit + 1 # Units
  <2>1. hunit' > 0 /\ hunit' # 0 /\ hblk' = hblk
    BY <1>1, <1>2, <1>6, Sizes DEF UnitIdx
  <2>2. ~ Overtakes'
    BY <2>1 DEF Overtakes
  <2>3. \A b \in BlockIdx : Complete(b)' <=> Complete(b)
    BY <1>1, <1>3, <1>4, <2>1, <2>2 DEF Complete
  <2>4. \A b \in BlockIdx : Begun(b)' <=> Begun(b) \/ b = hblk
    BY <1>4, <2>1, <2>3 DEF Begun
  <2> QED
    BY <1>5, <1>6, <2>3, <2>4
<1>7. CASE hunit + 1 = Units
  <2>1. hunit' = 0 /\ hblk' = NextBlock(hblk)
    BY <1>2, <1>7
  <2>2. \A b \in BlockIdx : Complete(b)' <=> Complete(b) \/ b = hblk
    <3>1. CASE Dist(hblk) + 1 = Blocks
      <4>1. hblk' = ts_pos
        BY <1>1, <1>3, <2>1, <3>1
      <4>2. \A b \in BlockIdx : Complete(b) \/ b = hblk
        <5> TAKE b \in BlockIdx
        <5>1. Dist(b) < Dist(hblk) \/ Dist(b) = Dist(hblk)
          BY <1>1, <1>3, <3>1, Sizes
        <5> QED
          BY <1>1, <1>3, <1>4, <5>1
      <4>3. head'[ts_pos] = "sync"
        BY <1>1, <1>4, <1>5, <4>2
      <4>4. Overtakes'
        BY <1>2, <2>1, <4>1, <4>3 DEF Overtakes
      <4> QED
        BY <4>2, <4>4 DEF Complete
    <3>2. CASE Dist(hblk) + 1 # Blocks
      <4>1. Dist(hblk') = Dist(hblk) + 1 /\ hblk' \in BlockIdx
        BY <1>3, <2>1, <3>2
      <4>2. Dist(hblk)' = Dist(hblk) + 1
        BY <1>2, <4>1 DEF Dist
      <4>3. ~ Overtakes'
        <5>1. hblk' # ts_pos
          BY <1>1, <1>3, <4>1
        <5> QED
          BY <1>2, <5>1 DEF Overtakes
      <4>4. \A b \in BlockIdx : Dist(b) < Dist(hblk) + 1 <=> Dist(b) < Dist(hblk) \/ b = hblk
        BY <1>1, <1>3
      <4> QED
        BY <1>3, <1>4, <4>2, <4>3, <4>4 DEF Complete
    <3> QED
      BY <3>1, <3>2
  <2>3. \A b \in BlockIdx : Begun(b)' <=> Complete(b)'
    BY <2>1 DEF Begun
  <2>4. \A b \in BlockIdx : Begun(b)' <=> Begun(b) \/ b = hblk
    BY <1>4, <2>2, <2>3
  <2> QED
    BY <1>5, <1>7, <2>2, <2>4
<1> QED
  BY <1>6, <1>7

(* The reader gives back a complete block. *)
LEMMA MoveEnds ==
    ASSUME TypeInv, HeadInv, Complete(ts_pos), UNCHANGED <<hblk, hunit>>,
           ts_pos' = NextBlock(ts_pos), head' = [head EXCEPT ![ts_pos] = "mark"]
    PROVE  /\ \A b \in BlockIdx :
                /\ Complete(b)' <=> Complete(b) /\ b # ts_pos
                /\ Begun(b)' <=> Begun(b) /\ b # ts_pos
           /\ Begun(ts_pos') <=> ~ (ts_pos' = hblk /\ hunit = 0)
<1> DEFINE n == NextBlock(ts_pos)
<1>1. /\ ts_pos \in BlockIdx /\ hblk \in BlockIdx /\ hunit \in UnitIdx
      /\ head \in [BlockIdx -> {"sync", "mark", "other"}]
  BY DEF TypeInv, BufferTypes, BoardTypes
<1>2. /\ \A b \in BlockIdx : Dist(b) \in 0 .. Blocks - 1
      /\ \A b, c \in BlockIdx : Dist(b) = Dist(c) => b = c
      /\ Dist(ts_pos) = 0 /\ Dist(n) = 1 /\ n # ts_pos /\ n \in BlockIdx
  BY <1>1, Distances, NextBlockType, Sizes
<1>3. \A b \in BlockIdx : Dist(b)' = IF b = ts_pos THEN Blocks - 1 ELSE Dist(b) - 1
  BY <1>1, DistancesShrink
<1> HIDE DEF n
<1>4. \A b \in BlockIdx : head[b] = IF Begun(b) THEN "sync" ELSE "mark"
  BY DEF HeadInv
<1>5. hblk = n /\ hunit = 0 => ~ Begun(n)
  BY <1>2 DEF Begun, Complete, Overtakes
<1>6. ~ Overtakes'
  <2>1. head'[n] = head[n]
    BY <1>1, <1>2
  <2> QED
    BY <1>2, <1>4, <1>5, <2>1 DEF Overtakes, n
<1>7. ~ (hblk = ts_pos /\ hunit > 0)
  BY <1>1, <1>2 DEF Complete, Overtakes
<1>8. \A b \in BlockIdx : Complete(b)' <=> Dist(b)' < Dist(hblk)'
  BY <1>6 DEF Complete
<1>9. \A b \in BlockIdx : Complete(b)' <=> Complete(b) /\ b # ts_pos
  <2>1. CASE hblk = ts_pos
    <3>1. Overtakes
      BY <1>2, <2>1 DEF Complete
    <3>2. Dist(hblk)' = Blocks - 1
      BY <1>1, <1>3, <2>1
    <3> QED
      BY <1>2, <1>3, <1>8, <3>1, <3>2, Sizes DEF Complete
  <2>2. CASE hblk # ts_pos
    <3>1. Dist(hblk)' = Dist(hblk) - 1 /\ Dist(hblk) \in 0 .. Blocks - 1
      BY <1>1, <1>2, <1>3, <2>2
    <3>2. \A b \in BlockIdx : Complete(b) <=> Dist(b) < Dist(hblk)
      BY <2>2 DEF Complete, Overtakes
    <3> QED
      BY <1>2, <1>3, <1>8, <3>1, <3>2, Sizes
  <2> QED
    BY <2>1, <2>2
<1>10. \A b \in BlockIdx : Begun(b)' <=> Begun(b) /\ b # ts_pos
  BY <1>7, <1>9 DEF Begun
<1>11. Begun(n) \/ (n = hblk /\ hunit = 0)
  <2>1. CASE Overtakes
    BY <2>1 DEF Begun, Complete
  <2>2. CASE ~ Overtakes
    <3>1. 0 < Dist(hblk)
      BY <1>2, <2>2 DEF Complete
    <3>2. Dist(n) < Dist(hblk) \/ n = hblk
      BY <1>1, <1>2, <3>1
    <3>3. hunit = 0 \/ hunit > 0
      BY <1>1, Sizes DEF UnitIdx
    <3> QED
      BY <3>2, <3>3 DEF Begun, Complete
  <2> QED
    BY <2>1, <2>2
<1> QED
  BY <1>5, <1>9, <1>10, <1>11 DEF n

-----------------------------------------------------------------------------
(* What is in the blocks.                                                    *)

LEMMA NextNumber ==
    ASSUME NEW f \in Int, NEW i \in Int, NEW j \in Int
    PROVE  (((f + i) % Numbers) + j) % Numbers = (f + (i + j)) % Numbers
<1> DEFINE x == f + i
<1>1. x \in Int /\ x + j = f + (i + j) /\ Numbers \in Nat \ {0}
  BY Sizes
<1> HIDE DEF x
<1>2. ((x % Numbers) + j) % Numbers = (x + j) % Numbers
  BY ONLY <1>1, RemainderOfSum
<1> QED
  BY <1>1, <1>2, Zenon DEF x

LEMMA OwnRemainder ==
    ASSUME NEW n \in Stream
    PROVE  (n + 0) % Numbers = n
<1>1. n + 0 = 0 * Numbers + n /\ n \in 0 .. Numbers - 1 /\ n + 0 \in Int
  BY Sizes DEF Stream
<1> QED
  BY <1>1, Sizes, RemainderIsUnique

LEMMA FirstType ==
    ASSUME TypeInv, NEW b \in BlockIdx
    PROVE  First(b) \in 0 .. Numbers /\ First(b) \in Int
<1>1. 0 \in UnitIdx
  BY Sizes DEF UnitIdx
<1> QED
  BY <1>1, Sizes DEF First, TypeInv, BufferTypes

LEMMA FillData ==
    ASSUME TypeInv, HeadInv, DataInv, Fill, ~ Overtakes
    PROVE  DataInv'
<1> DEFINE h == hblk
           F == IF hunit = 0 THEN written ELSE First(h)
<1>1. /\ ts_pos \in BlockIdx /\ h \in BlockIdx /\ hunit \in UnitIdx
      /\ written \in Stream /\ written \in Int /\ F \in Int
      /\ content \in [BlockIdx -> [UnitIdx -> 0 .. Numbers]]
      /\ 0 \in UnitIdx
  <2>1. 0 \in UnitIdx
    BY Sizes DEF UnitIdx
  <2> QED
    BY <2>1, FirstType, Sizes DEF TypeInv, BufferTypes, BoardTypes, Stream
<1>2. /\ UNCHANGED <<ts_pos, dpos, want>>
      /\ written' = (written + 1) % Numbers
      /\ hunit' = IF hunit + 1 = Units THEN 0 ELSE hunit + 1
      /\ hblk' = IF hunit + 1 = Units THEN NextBlock(h) ELSE h
      /\ content' = [content EXCEPT ![h][hunit] = written]
  BY <1>1, NextUnit DEF Fill
<1>3. \A b \in BlockIdx :
        /\ Complete(b)' <=> Complete(b) \/ (b = h /\ hunit + 1 = Units)
        /\ Begun(b)' <=> Begun(b) \/ b = h
  BY FillBegins
<1>4. /\ \A b \in BlockIdx \ {h} : content'[b] = content[b] /\ First(b)' = First(b)
      /\ \A u \in UnitIdx \ {hunit} : content'[h][u] = content[h][u]
      /\ content'[h][hunit] = written
      /\ content'[h][0] = F
  BY <1>1, <1>2 DEF First
<1>5. ~ Complete(h)
  BY BoardsBlock
<1>6. written = (F + hunit) % Numbers
  <2>1. CASE hunit = 0
    BY <1>1, <2>1, OwnRemainder
  <2>2. CASE hunit # 0
    BY <1>1, <2>2, Sizes DEF DataInv, UnitIdx
  <2> QED
    BY <2>1, <2>2
<1> HIDE DEF F
<1>7. written' = (F + (hunit + 1)) % Numbers
  <2>1. hunit \in Int /\ 1 \in Int
    BY <1>1, Sizes DEF UnitIdx
  <2>2. (((F + hunit) % Numbers) + 1) % Numbers = (F + (hunit + 1)) % Numbers
    BY <1>1, <2>1, NextNumber
  <2> QED
    BY <1>2, <1>6, <2>2
<1>8. ASSUME NEW b \in BlockIdx, NEW u \in UnitIdx,
             Complete(b)' \/ (b = hblk' /\ u < hunit')
      PROVE  content'[b][u] = (content'[b][0] + u) % Numbers
  <2>1. CASE b = h
    <3>1. u <= hunit
      BY <1>1, <1>2, <1>3, <1>5, <1>8, <2>1, Sizes DEF UnitIdx
    <3>2. CASE u = hunit
      BY <1>4, <1>6, <2>1, <3>2
    <3>3. CASE u # hunit
      <4>1. u < hunit /\ hunit # 0
        BY <1>1, <3>1, <3>3, Sizes DEF UnitIdx
      <4>2. content[h][u] = (First(h) + u) % Numbers
        BY <1>1, <4>1 DEF DataInv
      <4> QED
        BY <1>4, <2>1, <3>3, <4>1, <4>2 DEF F
    <3> QED
      BY <3>2, <3>3
  <2>2. CASE b # h
    <3>1. Complete(b)
      BY <1>1, <1>2, <1>3, <1>8, <2>2, Sizes DEF UnitIdx
    <3> QED
      BY <1>4, <2>2, <3>1 DEF DataInv, First
  <2> QED
    BY <2>1, <2>2
<1>9. ASSUME NEW b \in BlockIdx, Complete(b)'
      PROVE  (content'[b][0] + Units) % Numbers =
                 IF NextBlock(b) = hblk' /\ hunit' = 0 THEN written'
                 ELSE content'[NextBlock(b)][0]
  <2>1. CASE b = h
    <3>1. hunit + 1 = Units
      BY <1>3, <1>5, <1>9, <2>1
    <3> QED
      BY <1>2, <1>4, <1>7, <2>1, <3>1
  <2>2. CASE b # h
    <3>1. Complete(b)
      BY <1>3, <1>9, <2>2
    <3>2. ~ (NextBlock(b) = hblk' /\ hunit' = 0)
      BY <1>1, <1>2, <2>2, NextBlockIsUnique, Sizes DEF UnitIdx
    <3>3. NextBlock(b) \in BlockIdx /\ content'[b][0] = First(b)
      BY <1>4, <2>2, NextBlockType DEF First
    <3>4. (First(b) + Units) % Numbers =
            IF NextBlock(b) = h /\ hunit = 0 THEN written ELSE First(NextBlock(b))
      BY <3>1 DEF DataInv
    <3>5. CASE NextBlock(b) = h
      BY <1>4, <3>2, <3>3, <3>4, <3>5 DEF F
    <3>6. CASE NextBlock(b) # h
      BY <1>4, <3>2, <3>3, <3>4, <3>6 DEF First
    <3> QED
      BY <3>5, <3>6
  <2> QED
    BY <2>1, <2>2
<1>10. hunit' > 0 => written' = (content'[hblk'][0] + hunit') % Numbers
  BY <1>2, <1>4, <1>7
<1>11. want' = IF Begun(ts_pos)' THEN (content'[ts_pos][0] + dpos'[ts_pos]) % Numbers
               ELSE written'
  <2>1. CASE Begun(ts_pos)
    <3>1. want = (First(ts_pos) + dpos[ts_pos]) % Numbers
      BY <2>1 DEF DataInv
    <3>2. content'[ts_pos][0] = First(ts_pos)
      <4>1. CASE ts_pos # h
        BY <1>1, <1>4, <4>1 DEF First
      <4>2. CASE ts_pos = h
        <5>1. hunit # 0
          BY <1>1, <1>5, <2>1, <4>2, Sizes DEF Begun, UnitIdx
        <5> QED
          BY <1>4, <4>2, <5>1 DEF F
      <4> QED
        BY <4>1, <4>2
    <3> QED
      BY <1>1, <1>2, <1>3, <2>1, <3>1, <3>2
  <2>2. CASE ~ Begun(ts_pos)
    <3>1. ts_pos = h /\ hunit = 0
      <4>1. ~ (Dist(ts_pos) < Dist(h))
        BY <2>2 DEF Begun, Complete
      <4>2. ts_pos = h
        BY <1>1, <4>1, Distances, Sizes
      <4> QED
        BY <1>1, <2>2, <4>2, Sizes DEF Begun, UnitIdx
    <3>2. dpos[ts_pos] = 0 /\ want = written
      BY <2>2 DEF HeadInv, DataInv, Begun
    <3>3. Begun(ts_pos)'
      BY <1>1, <1>2, <1>3, <3>1
    <3>4. content'[ts_pos][0] = written
      BY <1>4, <3>1 DEF F
    <3> QED
      BY <1>1, <1>2, <3>2, <3>3, <3>4, OwnRemainder
  <2> QED
    BY <2>1, <2>2
<1> QED
  BY <1>2, <1>8, <1>9, <1>10, <1>11 DEF DataInv, First

(* The reader has copied csize units: of the block, and perhaps to its end.  *)
LEMMA CopiedData ==
    ASSUME OneReader, TypeInv, HeadInv, DataInv, NEW r \in Readers, Copied(r)
    PROVE  HeadInv' /\ DataInv'
<1>1. /\ ts_pos \in BlockIdx /\ hblk \in BlockIdx /\ hunit \in UnitIdx
      /\ head \in [BlockIdx -> {"sync", "mark", "other"}]
      /\ dpos \in [BlockIdx -> UnitIdx]
      /\ csize[r] \in Nat /\ rpc \in [Readers -> ReaderPCs]
  BY DEF TypeInv, BufferTypes, BoardTypes, ReaderTypes
<1>2. PICK n \in BlockIdx : n = NextBlock(ts_pos)
  BY <1>1, NextBlockType
<1>3. /\ UNCHANGED <<content, hblk, hunit, written>>
      /\ want' = (want + csize[r]) % Numbers
  BY DEF Copied, boardVars
<1>4. Complete(ts_pos) /\ Begun(ts_pos) /\ csize[r] <= Units - dpos[ts_pos]
  BY DEF Copied, HeadInv, Begun
<1>5. want' = (First(ts_pos) + (dpos[ts_pos] + csize[r])) % Numbers
  <2>1. First(ts_pos) \in Int /\ dpos[ts_pos] \in Int /\ csize[r] \in Int
    BY <1>1, FirstType, Sizes DEF UnitIdx
  <2>2. want = (First(ts_pos) + dpos[ts_pos]) % Numbers
    BY <1>4 DEF DataInv
  <2> QED
    BY <1>3, <2>1, <2>2, NextNumber
<1>6. rpc'[r] \notin {"check", "copy"} /\ \A s \in Readers : s = r
  BY <1>1 DEF Copied, Leave, Goto, OneReader
<1>7. CASE dpos[ts_pos] + csize[r] >= Units
  <2>1. /\ dpos' = [dpos EXCEPT ![ts_pos] = 0]
        /\ head' = [head EXCEPT ![ts_pos] = "mark"]
        /\ ts_pos' = n /\ rpc'[r] = "look"
    BY <1>2, <1>1, <1>7 DEF Copied, Goto
  <2>2. /\ \A b \in BlockIdx :
             /\ Complete(b)' <=> Complete(b) /\ b # ts_pos
             /\ Begun(b)' <=> Begun(b) /\ b # ts_pos
        /\ Begun(n)' <=> ~ (n = hblk /\ hunit = 0)
    <3>1. Begun(n) <=> ~ (n = hblk /\ hunit = 0)
      BY <1>2, <1>3, <1>4, <2>1, MoveEnds
    <3>2. \A b \in BlockIdx :
             /\ Complete(b)' <=> Complete(b) /\ b # ts_pos
             /\ Begun(b)' <=> Begun(b) /\ b # ts_pos
      BY <1>2, <1>3, <1>4, <2>1, MoveEnds
    <3>3. n # ts_pos
      BY <1>2, <1>1, Distances
    <3> QED
      BY <3>1, <3>2, <3>3
  <2>3. HeadInv'
    <3>1. \A b \in BlockIdx : head'[b] = IF Begun(b)' THEN "sync" ELSE "mark"
      BY <1>1, <2>1, <2>2 DEF HeadInv
    <3>2. \A b \in BlockIdx : dpos'[b] = 0
      BY <1>1, <2>1 DEF HeadInv
    <3> QED
      BY <1>1, <1>6, <2>1, <3>1, <3>2 DEF HeadInv
  <2>4. dpos[ts_pos] + csize[r] = Units
    BY <1>1, <1>4, <1>7, Sizes DEF UnitIdx
  <2>5. want' = IF n = hblk /\ hunit = 0 THEN written ELSE First(n)
    BY <1>2, <1>1, <1>4, <1>5, <2>4 DEF DataInv
  <2>6. want' = IF Begun(n)' THEN (First(n) + dpos'[n]) % Numbers ELSE written
    <3>1. dpos'[n] = 0
      BY <1>1, <2>1 DEF HeadInv
    <3>2. CASE n = hblk /\ hunit = 0
      BY <2>2, <2>5, <3>2
    <3>3. CASE ~ (n = hblk /\ hunit = 0)
      <4>1. want' \in Stream
        <5>1. First(ts_pos) + (dpos[ts_pos] + csize[r]) \in Int
          BY <1>1, FirstType, Sizes DEF UnitIdx
        <5> QED
          BY <1>5, <5>1, StreamRemainder
      <4>2. First(n) \in Stream /\ want' = First(n)
        BY <2>5, <3>3, <4>1
      <4>3. (First(n) + 0) % Numbers = First(n)
        BY <4>2, OwnRemainder
      <4> QED
        BY <2>2, <3>1, <3>3, <4>2, <4>3
    <3> QED
      BY <3>2, <3>3
  <2>7. DataInv'
    <3>1. \A b \in BlockIdx : First(b)' = First(b)
      BY <1>3 DEF First
    <3>2. \A b \in BlockIdx : \A u \in UnitIdx :
            Complete(b)' \/ (b = hblk' /\ u < hunit') =>
                content'[b][u] = (First(b)' + u) % Numbers
      BY <1>3, <2>2, <3>1 DEF DataInv
    <3>3. \A b \in BlockIdx :
            Complete(b)' =>
                (First(b)' + Units) % Numbers =
                    IF NextBlock(b) = hblk' /\ hunit' = 0 THEN written'
                    ELSE First(NextBlock(b))'
      <4>1. \A b \in BlockIdx : First(NextBlock(b))' = First(NextBlock(b))
        BY <1>3 DEF First
      <4> QED
        BY <1>3, <2>2, <3>1, <4>1 DEF DataInv
    <3>4. hunit' > 0 => written' = (First(hblk)' + hunit') % Numbers
      BY <1>3 DEF DataInv, First
    <3>5. want' = IF Begun(ts_pos)' THEN (First(ts_pos)' + dpos'[ts_pos']) % Numbers
                  ELSE written'
      <4>1. Begun(ts_pos)' <=> Begun(n)'
        BY <2>1 DEF Begun, Complete, Dist, Overtakes
      <4>2. First(ts_pos)' = First(n)
        BY <1>3, <2>1 DEF First
      <4> QED
        BY <1>3, <2>1, <2>6, <4>1, <4>2
    <3> QED
      BY <3>2, <3>3, <3>4, <3>5 DEF DataInv
  <2> QED
    BY <2>3, <2>7
<1>8. CASE ~ (dpos[ts_pos] + csize[r] >= Units)
  <2>1. /\ dpos' = [dpos EXCEPT ![ts_pos] = dpos[ts_pos] + csize[r]]
        /\ UNCHANGED <<head, ts_pos>>
    BY <1>8 DEF Copied
  <2>2. \A b \in BlockIdx : Complete(b)' = Complete(b) /\ Begun(b)' = Begun(b)
    BY <1>3, <2>1 DEF Complete, Begun, Overtakes, Dist
  <2>3. HeadInv'
    BY <1>1, <1>4, <1>6, <2>1, <2>2 DEF HeadInv
  <2>4. DataInv'
    <3>1. \A b \in BlockIdx : First(b)' = First(b)
      BY <1>3 DEF First
    <3>2. dpos'[ts_pos] = dpos[ts_pos] + csize[r]
      BY <1>1, <2>1
    <3> QED
      BY <1>1, <1>3, <1>4, <1>5, <2>1, <2>2, <3>1, <3>2 DEF DataInv, First
  <2> QED
    BY <2>3, <2>4
<1> QED
  BY <1>7, <1>8

-----------------------------------------------------------------------------
(* The invariant.                                                            *)

(* Enable begins a session with every block empty. *)
LEMMA EnableBegins ==
    ASSUME OneReader, TypeInv, ResetInv, NEW r \in Readers, Enable(r)
    PROVE  HeadInv' /\ DataInv'
<1>1. /\ ts_pos = 0 /\ ts_pos' = 0 /\ hblk' = 0 /\ hunit' = 0 /\ want' = written'
      /\ UNCHANGED <<head, dpos, content>>
      /\ \A b \in BlockIdx : head[b] = "mark" /\ dpos[b] = 0
      /\ 0 \in BlockIdx
  BY Sizes DEF Enable, ResetInv, bufferVars, BlockIdx
<1>2. \A b \in BlockIdx : ~ Complete(b)' /\ ~ Begun(b)'
  <2>1. ~ Overtakes'
    BY <1>1 DEF Overtakes
  <2>2. Dist(hblk)' = 0
    BY <1>1 DEF Dist
  <2>3. \A b \in BlockIdx : Dist(b)' >= 0
    BY <1>1, Sizes DEF Dist, BlockIdx
  <2>4. \A b \in BlockIdx : Dist(b)' \in Int
    BY <1>1, Sizes DEF Dist, BlockIdx
  <2>5. \A b \in BlockIdx : ~ (Dist(b)' < 0)
    BY <2>3, <2>4
  <2> QED
    BY <1>1, <2>1, <2>2, <2>5 DEF Complete, Begun
<1>3. \A s \in Readers : rpc'[s] \notin {"check", "size", "copy"}
  BY DEF Enable, Goto, OneReader, TypeInv, ReaderTypes
<1>4. HeadInv'
  BY <1>1, <1>2, <1>3 DEF HeadInv
<1>5. DataInv'
  <2>1. \A u \in UnitIdx : ~ (u < hunit')
    BY <1>1, Sizes DEF UnitIdx
  <2>2. ~ Begun(ts_pos)'
    BY <1>1, <1>2 DEF Begun, Complete, Dist, Overtakes
  <2> QED
    BY <1>1, <1>2, <2>1, <2>2 DEF DataInv
<1> QED
  BY <1>4, <1>5

(* A block taken for complete is. *)
LEMMA LookFinds ==
    ASSUME TypeInv, HeadInv, NEW r \in Readers, Look(r), rpc'[r] = "check"
    PROVE  Complete(ts_pos)
<1>1. /\ ts_pos \in BlockIdx /\ hblk \in BlockIdx /\ NextBlock(ts_pos) \in BlockIdx
      /\ NextBlock(ts_pos) # ts_pos /\ rpc \in [Readers -> ReaderPCs]
      /\ hunit \in UnitIdx
  BY NextBlockType, Distances DEF TypeInv, BufferTypes, BoardTypes, ReaderTypes
<1>2. TRUE \in ReadyOutcomes
  BY <1>1 DEF Look, Leave, Goto
<1>3. dpos[NextBlock(ts_pos)] = 0
  BY <1>1 DEF HeadInv
<1>4. head[NextBlock(ts_pos)] = "sync"
  BY <1>2, <1>3 DEF ReadyOutcomes
<1>5. Begun(NextBlock(ts_pos))
  BY <1>1, <1>4 DEF HeadInv
<1>6. Dist(ts_pos) = 0 /\ Dist(NextBlock(ts_pos)) = 1 /\ Dist(hblk) \in 0 .. Blocks - 1
  BY <1>1, Distances, Sizes
<1> QED
  BY <1>1, <1>5, <1>6, Sizes DEF Begun, Complete

(* The steps of the reader that leave the buffer as it is. *)
LEMMA SameBuffer ==
    ASSUME OneReader, TypeInv, HeadInv, DataInv, NEW r \in Readers,
           ReadCall(r) \/ Enter(r) \/ Look(r) \/ Check(r) \/ Size(r)
           \/ CopyUnit(r) \/ CopyFault(r)
    PROVE  HeadInv' /\ DataInv'
<1>1. UNCHANGED <<bufferVars, hblk, hunit, written, want>>
  BY DEF ReadCall, Enter, Look, Check, Size, CopyUnit, CopyFault, boardVars, history
<1>2. \A b \in BlockIdx : Complete(b)' = Complete(b) /\ Begun(b)' = Begun(b)
  BY <1>1 DEF bufferVars, Complete, Begun, Overtakes, Dist
<1>3. Complete(ts_pos)' = Complete(ts_pos) /\ Begun(ts_pos)' = Begun(ts_pos)
  BY <1>1 DEF bufferVars, Complete, Begun, Overtakes, Dist
<1>4. DataInv'
  BY <1>1, <1>2, <1>3 DEF DataInv, First, bufferVars
<1>5. /\ rpc \in [Readers -> ReaderPCs] /\ csize \in [Readers -> Nat]
      /\ got \in [Readers -> Nat] /\ remain \in [Readers -> Nat]
      /\ dpos[ts_pos] \in UnitIdx
      /\ \A s \in Readers : s = r
  BY DEF TypeInv, BufferTypes, ReaderTypes, OneReader
<1>6. /\ rpc'[r] \in {"check", "size", "copy"} => Complete(ts_pos)
      /\ rpc'[r] = "copy" => csize'[r] <= Units - dpos[ts_pos] /\ got'[r] <= csize'[r]
  <2>1. CASE ReadCall(r) \/ Enter(r)
    BY <1>5, <2>1 DEF ReadCall, Enter, Goto
  <2>2. CASE Look(r)
    <3>1. rpc'[r] # "copy" /\ rpc'[r] # "size"
      BY <1>5, <2>2 DEF Look, Leave, Goto
    <3> QED
      BY <2>2, <3>1, LookFinds
  <2>3. CASE Check(r) \/ CopyFault(r)
    BY <1>5, <2>3 DEF Check, CopyFault, Leave, Goto, HeadInv
  <2>4. CASE Size(r)
    BY <1>5, <2>4, Sizes DEF Size, Goto, HeadInv, UnitIdx
  <2>5. CASE CopyUnit(r)
    BY <1>5, <2>5, Sizes DEF CopyUnit, HeadInv, UnitIdx
  <2> QED
    BY <2>1, <2>2, <2>3, <2>4, <2>5
<1>7. HeadInv'
  BY <1>1, <1>2, <1>3, <1>5, <1>6 DEF HeadInv, bufferVars
<1> QED
  BY <1>4, <1>7

LEMMA FillLaps ==
    ASSUME TypeInv, LapInv, lapped = "no" => HeadInv, Fill
    PROVE  LapInv'
<1>1. SUFFICES ASSUME lapped' = "waiting", ~ logged'
               PROVE  /\ \A b \in BlockIdx : head'[b] = "sync"
                      /\ \A s \in Readers : ~ Copying(s)'
  BY DEF LapInv
<1>2. UNCHANGED rpc /\ ~ logged
  BY <1>1 DEF Fill, readerVars
<1>3. /\ \A b \in BlockIdx : head[b] = "sync"
      /\ \A s \in Readers : ~ Copying(s)
  <2>1. CASE lapped = "waiting"
    BY <1>2, <2>1 DEF LapInv
  <2>2. CASE lapped # "waiting"
    <3>1. lapped = "no" /\ Overtakes /\ \A s \in Readers : ~ Copying(s)
      BY <1>1, <2>2 DEF Fill, TypeInv, BoardTypes
    <3> QED
      BY <3>1 DEF HeadInv, Begun, Complete
  <2> QED
    BY <2>1, <2>2
<1>4. head' \in {head, [head EXCEPT ![hblk] = "sync"]}
  BY DEF Fill
<1> QED
  BY <1>2, <1>3, <1>4 DEF Copying, TypeInv, BufferTypes

LEMMA FillHeads ==
    ASSUME TypeInv, HeadInv, Fill, ~ Overtakes
    PROVE  HeadInv'
<1>1. UNCHANGED <<dpos, ts_pos, rpc, csize, got>> /\ ts_pos \in BlockIdx
  BY DEF Fill, readerVars, TypeInv, BufferTypes
<1>2. \A b \in BlockIdx :
        /\ Complete(b) => Complete(b)'
        /\ head'[b] = IF Begun(b)' THEN "sync" ELSE "mark"
  BY FillBegins
<1>3. Complete(ts_pos) => Complete(ts_pos)'
  BY <1>1, <1>2 DEF Complete, Dist, Overtakes
<1> QED
  BY <1>1, <1>2, <1>3 DEF HeadInv

(* Every step keeps what is said of an overrun.                              *)
LEMMA LapInvNext ==
    ASSUME OneReader, TypeInv, LapInv, NEW r \in Readers,
           ReadCall(r) \/ Enter(r) \/ Look(r) \/ Check(r) \/ Size(r)
           \/ CopyUnit(r) \/ CopyFault(r) \/ Copied(r)
    PROVE  LapInv'
<1>1. SUFFICES ASSUME lapped' = "waiting", ~ logged'
               PROVE  /\ \A b \in BlockIdx : head'[b] = "sync"
                      /\ \A s \in Readers : ~ Copying(s)'
  BY DEF LapInv
<1>2. /\ ts_pos \in BlockIdx /\ rpc \in [Readers -> ReaderPCs] /\ \A s \in Readers : s = r
  BY DEF TypeInv, BufferTypes, ReaderTypes, OneReader
<1>3. lapped = "waiting" /\ ~ logged
  <2>1. CASE Check(r)
    BY <1>1, <2>1, Zenon DEF Check
  <2>2. CASE ~ Check(r)
    BY <1>1, <2>2
    DEF ReadCall, Enter, Look, Size, CopyUnit, CopyFault, Copied, history
  <2> QED
    BY <2>1, <2>2
<1>4. (\A b \in BlockIdx : head[b] = "sync") /\ ~ Copying(r)
  BY <1>3 DEF LapInv
<1>5. ReadCall(r) \/ Enter(r) \/ Look(r) \/ Check(r)
  BY <1>4 DEF Size, CopyUnit, CopyFault, Copied, Copying
<1>6. ~ Check(r)
  <2>1. PrevBlock \in BlockIdx
    BY <1>2, Sizes DEF PrevBlock, BlockIdx
  <2> QED
    BY <1>1, <1>4, <2>1 DEF Check
<1>7. rpc'[r] \notin {"size", "copy"} /\ head' = head
  BY <1>2, <1>5, <1>6 DEF ReadCall, Enter, Look, Leave, Goto, bufferVars
<1> QED
  BY <1>2, <1>4, <1>7 DEF Copying

LEMMA DmaInvInit == Init => DmaInv
<1> SUFFICES ASSUME Init PROVE DmaInv
  OBVIOUS
<1>1. TypeInv
  BY TypeInvInit
<1>2. LockInv /\ ResetInv
  BY Names DEF Init, LockInv, ResetInv, ReaderLocks, Starting, Inside
<1>3. ~ InSession
  BY DEF Init, InSession
<1> QED
  BY <1>1, <1>2, <1>3 DEF DmaInv

(* Every step keeps the invariant.                                           *)
LEMMA DmaInvNext ==
    ASSUME OneReader, DmaInv, [Next]_vars
    PROVE  DmaInv'
<1>1. TypeInv' /\ LockInv' /\ ResetInv' /\ TypeInv /\ LockInv /\ ResetInv
  BY TypeInvNext, LockInvNext, ResetInvNext DEF DmaInv
<1>2. SUFFICES ASSUME InSession'
               PROVE  LapInv' /\ (lapped' = "no" => HeadInv' /\ DataInv')
  BY <1>1 DEF DmaInv
<1>3. ASSUME NEW r \in Readers, Enable(r)
      PROVE  LapInv' /\ (lapped' = "no" => HeadInv' /\ DataInv')
  <2>1. lapped' = "no"
    BY <1>3 DEF Enable
  <2> QED
    BY <1>1, <1>3, <2>1, EnableBegins DEF LapInv
<1>4. ASSUME \A r \in Readers : ~ Enable(r)
      PROVE  InSession
  <2>1. \A r \in Readers : ~ Start(r)
    <3>1. ASSUME NEW r \in Readers, Start(r) PROVE FALSE
      <4>1. rpc'[r] = "reset"
        BY <1>1, <3>1 DEF Start, Goto, TypeInv, ReaderTypes
      <4> QED
        BY <1>2, <4>1 DEF InSession, Starting
    <3> QED
      BY <3>1
  <2>2. rstart
    BY <1>2, <1>4, <2>1
    DEF InSession, Next, vars, Fill, BoardStops, Open, Close, Closed, ReadCall, Reading,
        ResetBlock, Enter, Look, Check, Size, CopyUnit, CopyFault, Copied
  <2>3. ASSUME NEW r \in Readers, Starting(r) PROVE FALSE
    <3>1. \A s \in Readers : s = r
      BY DEF OneReader
    <3>2. ~ Starting(r)'
      BY <1>2 DEF InSession
    <3>3. rpc'[r] = rpc[r] \/ ResetBlock(r)
      BY <1>4, <2>3, <3>1
      DEF Starting, Next, vars, readerVars, Fill, BoardStops, Open, Close, Closed, ReadCall,
          Reading, Start, Enter, Look, Check, Size, CopyUnit, CopyFault, Copied
    <3>4. rpc \in [Readers -> ReaderPCs]
      BY <1>1 DEF TypeInv, ReaderTypes
    <3>5. rpc'[r] \in {"reset", "enable"}
      BY <2>3, <3>3, <3>4 DEF ResetBlock, Goto, Starting
    <3> QED
      BY <3>2, <3>5 DEF Starting
  <2> QED
    BY <2>2, <2>3 DEF InSession
<1>5. CASE \A r \in Readers : ~ Enable(r)
  <2>1. InSession /\ LapInv /\ (lapped = "no" => HeadInv /\ DataInv)
    BY <1>4, <1>5 DEF DmaInv
  <2>2. CASE UNCHANGED <<bufferVars, hblk, hunit, written, rpc, csize, got, history>>
    <3>1. UNCHANGED <<head, content, dpos, ts_pos, want, lapped, logged>>
      BY <2>2 DEF bufferVars, history
    <3>2. LapInv'
      BY <2>1, <2>2, <3>1 DEF LapInv, Copying
    <3>3. lapped = "no" => HeadInv'
      BY <2>1, <2>2, <3>1 DEF HeadInv, Begun, Complete, Overtakes, Dist
    <3>4. lapped = "no" => DataInv'
      BY <2>1, <2>2, <3>1 DEF DataInv, First, Begun, Complete, Overtakes, Dist
    <3> QED
      BY <3>1, <3>2, <3>3, <3>4
  <2>3. CASE Fill
    <3>1. LapInv'
      BY <1>1, <2>1, <2>3, FillLaps
    <3>2. ASSUME lapped' = "no" PROVE HeadInv' /\ DataInv'
      <4>1. lapped = "no" /\ ~ Overtakes
        BY <2>3, <3>2 DEF Fill
      <4>2. DataInv'
        BY <1>1, <2>1, <2>3, <4>1, FillData
      <4>3. HeadInv'
        BY <1>1, <2>1, <2>3, <4>1, FillHeads
      <4> QED
        BY <4>2, <4>3
    <3> QED
      BY <3>1, <3>2
  <2>4. ASSUME NEW r \in Readers,
               ReadCall(r) \/ Enter(r) \/ Look(r) \/ Check(r) \/ Size(r)
               \/ CopyUnit(r) \/ CopyFault(r)
        PROVE  LapInv' /\ (lapped' = "no" => HeadInv' /\ DataInv')
    <3>1. lapped' = lapped
      BY <2>4 DEF ReadCall, Enter, Look, Check, Size, CopyUnit, CopyFault, history
    <3>2. LapInv'
      BY <1>1, <2>1, <2>4, LapInvNext
    <3>3. lapped = "no" => HeadInv' /\ DataInv'
      BY <1>1, <2>1, <2>4, SameBuffer
    <3> QED
      BY <3>1, <3>2, <3>3
  <2>5. ASSUME NEW r \in Readers, Copied(r)
        PROVE  LapInv' /\ (lapped' = "no" => HeadInv' /\ DataInv')
    <3>1. lapped' = lapped
      BY <2>5 DEF Copied
    <3>2. LapInv'
      BY <1>1, <2>1, <2>5, LapInvNext
    <3>3. lapped = "no" => HeadInv' /\ DataInv'
      BY <1>1, <2>1, <2>5, CopiedData
    <3> QED
      BY <3>1, <3>2, <3>3
  <2>6. CASE UNCHANGED vars \/ BoardStops \/ Open \/ Closed
    BY <2>2, <2>6 DEF vars, BoardStops, Open, Closed, boardVars, readerVars
  <2>7. CASE Close
    BY <1>2, <2>7 DEF Close, InSession
  <2>8. ASSUME NEW r \in Readers, Start(r) \/ ResetBlock(r)
        PROVE  FALSE
    <3>1. rpc \in [Readers -> ReaderPCs]
      BY <1>1 DEF TypeInv, ReaderTypes
    <3>2. CASE Start(r)
      BY <1>2, <3>1, <3>2 DEF Start, Goto, InSession, Starting
    <3>3. CASE ResetBlock(r)
      BY <2>1, <3>3 DEF ResetBlock, InSession, Starting
    <3> QED
      BY <2>8, <3>2, <3>3
  <2> QED
    BY <1>5, <2>3, <2>4, <2>5, <2>6, <2>7, <2>8 DEF Next, Reading
<1> QED
  BY <1>3, <1>5

(* So it holds in every state.                                               *)
LEMMA DmaInvAlways ==
    ASSUME OneReader
    PROVE  Spec => []DmaInv
<1>1. DmaInv /\ [Next]_vars => DmaInv'
  BY DmaInvNext
<1> QED
  BY <1>1, DmaInvInit, PTL DEF Spec

(* Until the board overtakes it the reader gets every unit of its session,   *)
(* whole and once, in order: for a buffer of any size, units of any size,    *)
(* any number of sessions and any sizes of the reads (pt3_dma_ready,         *)
(* pt3_dma_copy, pt3_dma_reset).                                             *)
THEOREM DataIsAlwaysInOrder ==
    ASSUME OneReader
    PROVE  Spec => []DataInOrder
<1>1. DmaInv => DataInOrder
  <2> SUFFICES ASSUME DmaInv, NEW r \in Readers,
                      lapped = "no", rpc[r] = "copy", got[r] < csize[r]
               PROVE  /\ content[ts_pos][Position(r)] = (want + got[r]) % Numbers
                      /\ Position(r) = 0 => head[ts_pos] = "sync"
    BY DEF DataInOrder
  <2>1. HeadInv /\ DataInv /\ TypeInv
    <3>1. InSession
      BY DEF DmaInv, LockInv, ReaderLocks, InSession, Inside, Starting, OneReader
    <3> QED
      BY <3>1 DEF DmaInv
  <2>2. /\ ts_pos \in BlockIdx /\ dpos[ts_pos] \in UnitIdx
        /\ got[r] \in Nat /\ csize[r] \in Nat /\ First(ts_pos) \in Int
        /\ csize[r] <= Units - dpos[ts_pos] /\ Complete(ts_pos) /\ Begun(ts_pos)
    BY <2>1, FirstType DEF TypeInv, BufferTypes, ReaderTypes, HeadInv, Begun
  <2>3. Position(r) \in UnitIdx /\ Position(r) = dpos[ts_pos] + got[r]
    BY <2>2, Sizes DEF Position, UnitIdx
  <2>4. content[ts_pos][Position(r)] = (First(ts_pos) + (dpos[ts_pos] + got[r])) % Numbers
    BY <2>1, <2>2, <2>3 DEF DataInv
  <2>5. want = (First(ts_pos) + dpos[ts_pos]) % Numbers
    BY <2>1, <2>2 DEF DataInv
  <2>6. (want + got[r]) % Numbers = (First(ts_pos) + (dpos[ts_pos] + got[r])) % Numbers
    <3>1. dpos[ts_pos] \in Int /\ got[r] \in Int
      BY <2>2, Sizes DEF UnitIdx
    <3> QED
      BY <2>2, <2>5, <3>1, NextNumber
  <2>7. head[ts_pos] = "sync"
    BY <2>1, <2>2 DEF HeadInv
  <2> QED
    BY <2>4, <2>6, <2>7
<1> QED
  BY <1>1, DmaInvAlways, PTL

(* When the board overtook the reader between two blocks or two calls, "dma  *)
(* buffer overflow" is printed before any of the wrong data is delivered:    *)
(* every block starts with a sync byte by then, also the one before          *)
(* (pt3_dma.c:369-374).                                                      *)
THEOREM OverflowIsAlwaysLogged ==
    ASSUME OneReader
    PROVE  Spec => []OverflowIsLogged
<1>1. DmaInv => OverflowIsLogged
  <2> SUFFICES ASSUME DmaInv, NEW r \in Readers, lapped = "waiting", rpc[r] = "copy"
               PROVE  logged
    BY DEF OverflowIsLogged
  <2>1. InSession
    BY DEF DmaInv, LockInv, ReaderLocks, InSession, Inside, Starting, OneReader
  <2> QED
    BY <2>1 DEF DmaInv, LapInv, Copying
<1> QED
  BY <1>1, DmaInvAlways, PTL

-----------------------------------------------------------------------------
(* Descriptors that fit to a page. *)
PerPage == page_size \div DMA_DESC_SIZE

(* k descriptors are in the page at hand, and the pages before it are full.  *)
HasInPage(k) ==
    /\ pos = DMA_DESC_SIZE * k /\ desc_remain = page_size - DMA_DESC_SIZE * k
    /\ page * PerPage + k = count

(* The next descriptor goes where that many leave off, a new page is begun   *)
(* only for a descriptor, and no overflow was met.                           *)
Placed ==
    /\ amount \in Amounts /\ page_size \in PageSizes
    /\ count \in 0 .. amount /\ page \in Nat
    /\ \E k \in 0 .. PerPage : HasInPage(k) /\ (count > 0 => k > 0)
    /\ overflown = FALSE
    /\ closed \in BOOLEAN /\ (closed => count = amount)

(* The descriptors in the order they were written: a[j] is for page j of the *)
(* data and leads to the next, and all lie before the next place.            *)
LeadsThrough(a) ==
    /\ DOMAIN link = {a[j] : j \in 1 .. count}
    /\ DOMAIN data = {a[j] : j \in 1 .. count}
    /\ \A j \in 1 .. count :
          /\ data[a[j]] = j
          /\ j < count => link[a[j]] = a[j + 1]
          /\ a[j][1] < page \/ (a[j][1] = page /\ a[j][2] < pos)
    /\ prev = (IF count = 0 THEN <<>> ELSE a[count])
    /\ count > 0 => a[1] = <<0, 0>>
    /\ closed /\ count > 0 => link[a[count]] = <<0, 0>>

Chained == \E a \in [1 .. count -> Nat \X Nat] : LeadsThrough(a)

DescInv == Placed /\ Chained

-----------------------------------------------------------------------------

(* A page of descriptors has room for one at least, and some bytes over.     *)
LEMMA PageHolds ==
    ASSUME NEW s \in PageSizes
    PROVE  /\ s \in Nat /\ s \div 20 \in Nat /\ s \div 20 > 0
           /\ 20 * (s \div 20) < s /\ s < 20 * (s \div 20) + 20
<1>1. s \in Nat /\ s >= 20 /\ s % 20 # 0
  BY Pt3DescriptorsAssumption DEF DMA_DESC_SIZE
<1> QED
  BY <1>1

(* Rounded up, the pages hold as many descriptors as are written            *)
(* (create_pt3_dma).                                                         *)
LEMMA PagesAreEnough ==
    ASSUME NEW n \in Nat, NEW m \in Nat, m > 0
    PROVE  /\ (n + m - 1) \div m \in Nat
           /\ n <= ((n + m - 1) \div m) * m
  OBVIOUS

(* While there is a page of data left, there is a page after p + 1 full ones.*)
LEMMA FullPages ==
    ASSUME NEW p \in Nat, NEW m \in Nat, NEW d \in Nat, NEW n \in Nat,
           p * m + m < n, n <= d * m
    PROVE  p + 1 < d
<1>1. (p + 1) * m = p * m + m
  OBVIOUS
<1>2. SUFFICES ASSUME d <= p + 1 PROVE FALSE
  OBVIOUS
<1>3. d * m <= (p + 1) * m
  BY <1>2
<1> QED
  BY <1>1, <1>3

-----------------------------------------------------------------------------
(* What a turn writes when the descriptor lies at <<p, q>>.                  *)
WritesAt(p, q) ==
    /\ link' = With(Linked(<<p, q>>), <<p, q>>, <<>>)
    /\ data' = With(data, <<p, q>>, count + 1)
    /\ prev' = <<p, q>>
    /\ page' = p /\ pos' = q + DMA_DESC_SIZE

(* It lies after all others, the first at the beginning.                     *)
IsNext(p, q) ==
    /\ p \in Nat /\ q \in Nat
    /\ p > page \/ (p = page /\ q = pos)
    /\ count = 0 => p = 0 /\ q = 0

(* One turn of the loop finds room: the next descriptor follows the last one *)
(* in its page or begins the next page, of which there is one.               *)
LEMMA ThereIsRoom ==
    ASSUME Placed, Write
    PROVE  /\ overflown' = FALSE /\ count < amount /\ count' = count + 1
           /\ amount' = amount /\ page_size' = page_size
           /\ closed' = closed /\ closed = FALSE
           /\ \E p, q \in Nat : WritesAt(p, q) /\ IsNext(p, q)
           /\ \E k \in 1 .. PerPage : HasInPage(k)'
<1> DEFINE M == PerPage
           S == DMA_DESC_SIZE
<1>1. /\ page_size \in PageSizes /\ amount \in Nat /\ count \in Nat /\ page \in Nat
      /\ closed \in BOOLEAN /\ (closed => count = amount) /\ overflown = FALSE
  BY Pt3DescriptorsAssumption DEF Placed
<1>2. /\ M \in Nat /\ M > 0 /\ page_size \in Nat
      /\ S * M < page_size /\ page_size < S * M + S
  BY <1>1, PageHolds DEF PerPage, DMA_DESC_SIZE
<1>3. PICK k \in 0 .. M : /\ pos = S * k /\ desc_remain = page_size - S * k
                          /\ page * M + k = count /\ (count > 0 => k > 0)
  BY DEF Placed, HasInPage
<1>4. /\ count < amount /\ amount' = amount /\ page_size' = page_size
      /\ closed' = closed /\ closed = FALSE
  BY <1>1 DEF Write
<1> HIDE DEF M
<1>p. PerPage' = M /\ M = PerPage
  BY <1>4 DEF M, PerPage
<1>5. ASSUME NEW p \in Nat, NEW q \in Nat, NEW rest \in Nat, NEW c \in 1 .. M,
             Room = [page |-> p, pos |-> q, remain |-> rest],
             ~ (desc_remain < S /\ Overflow), IsNext(p, q),
             q + S = S * c, rest - S = page_size - S * c, p * M + c = count + 1
      PROVE  /\ overflown' = FALSE /\ count' = count + 1
             /\ WritesAt(p, q) /\ HasInPage(c)'
  <2>1. (page_size <= q + S) = FALSE
    BY <1>2, <1>5 DEF DMA_DESC_SIZE
  <2> HIDE DEF S
  <2>2. /\ WritesAt(p, q) /\ count' = count + 1 /\ overflown' = (page_size <= q + S)
        /\ desc_remain' = rest - S /\ pos' = q + S /\ page' = p
    BY <1>5 DEF Write, WritesAt, S
  <2>3. page' * PerPage' + c = count'
    BY <1>5, <1>p, <2>2
  <2>4. pos' = S * c /\ desc_remain' = page_size' - S * c
    BY <1>4, <1>5, <2>2
  <2>5. HasInPage(c)'
    BY <2>3, <2>4 DEF HasInPage, S
  <2>6. overflown' = FALSE
    BY <2>1, <2>2, Zenon
  <2> QED
    BY <2>2, <2>5, <2>6
<1>6. CASE k < M
  <2>1. desc_remain >= S /\ ~ (desc_remain < S)
    BY <1>2, <1>3, <1>6 DEF DMA_DESC_SIZE
  <2>2. Room = [page |-> page, pos |-> pos, remain |-> desc_remain]
    BY <2>1 DEF Room
  <2>3. k + 1 \in 1 .. M /\ pos + S = S * (k + 1) /\ pos \in Nat /\ desc_remain \in Nat
    BY <1>2, <1>3, <1>6 DEF DMA_DESC_SIZE
  <2>4. desc_remain - S = page_size - S * (k + 1)
    BY <1>2, <1>3, <1>6 DEF DMA_DESC_SIZE
  <2>5. page * M + (k + 1) = count + 1
    BY <1>1, <1>2, <1>3
  <2>6. IsNext(page, pos)
    BY <1>1, <1>2, <1>3, <2>3 DEF DMA_DESC_SIZE, IsNext
  <2> HIDE DEF S
  <2>7. /\ overflown' = FALSE /\ count' = count + 1
        /\ WritesAt(page, pos) /\ HasInPage(k + 1)'
    BY <1>1, <1>5, <2>1, <2>2, <2>3, <2>4, <2>5, <2>6
  <2> QED
    BY <1>1, <1>4, <1>p, <2>3, <2>6, <2>7
<1>7. CASE k = M
  <2>1. count = page * M + M /\ count # 0
    BY <1>1, <1>2, <1>3, <1>7
  <2>2. Room = [page |-> page + 1, pos |-> 0, remain |-> page_size]
    BY <1>2, <1>3, <1>7 DEF Room, DMA_DESC_SIZE
  <2>3. desc_count \in Nat /\ amount <= desc_count * M
    BY <1>1, <1>2, PagesAreEnough DEF desc_count, M, PerPage
  <2>4. page + 1 < desc_count
    BY <1>1, <1>2, <1>4, <2>1, <2>3, FullPages
  <2>5. ~ Overflow
    BY <1>1, <2>2, <2>3, <2>4 DEF Overflow
  <2>6. 1 \in 1 .. M /\ 0 + S = S * 1 /\ page_size - S = page_size - S * 1
    BY <1>2 DEF DMA_DESC_SIZE
  <2>7. (page + 1) * M + 1 = count + 1 /\ page + 1 \in Nat /\ 0 \in Nat
    BY <1>1, <1>2, <2>1
  <2>8. IsNext(page + 1, 0)
    BY <1>1, <2>1 DEF IsNext
  <2> HIDE DEF S
  <2>9. /\ overflown' = FALSE /\ count' = count + 1
        /\ WritesAt(page + 1, 0) /\ HasInPage(1)'
    BY <1>2, <1>5, <2>2, <2>5, <2>6, <2>7, <2>8
  <2> QED
    BY <1>4, <1>p, <2>6, <2>7, <2>8, <2>9
<1>8. k < M \/ k = M
  BY <1>2, <1>3
<1> HIDE DEF S
<1> QED
  BY <1>6, <1>7, <1>8, Zenon

(* The place is right when the first page is begun, and after every step.    *)
LEMMA PlacedInit == DescInit => Placed
<1> SUFFICES ASSUME DescInit PROVE Placed
  OBVIOUS
<1>1. PerPage \in Nat /\ amount \in Nat /\ page_size \in Nat
  BY PageHolds, Pt3DescriptorsAssumption DEF DescInit, PerPage, DMA_DESC_SIZE
<1>2. 0 \in 0 .. PerPage /\ HasInPage(0) /\ ~ (count > 0)
  BY <1>1 DEF DescInit, DMA_DESC_SIZE, HasInPage
<1>3. 0 \in 0 .. amount /\ 0 \in Nat
  BY <1>1
<1>4. \E k \in 0 .. PerPage : HasInPage(k) /\ (count > 0 => k > 0)
  BY <1>2
<1> QED
  BY <1>3, <1>4 DEF DescInit, Placed

(* A turn is ThereIsRoom; closing the ring moves nothing.                    *)
LEMMA PlacedNext == Placed /\ [DescNext]_descVars => Placed'
<1> SUFFICES ASSUME Placed, [DescNext]_descVars PROVE Placed'
  OBVIOUS
<1>1. CASE Write
  <2>1. amount \in Nat /\ count \in Nat
    BY Pt3DescriptorsAssumption DEF Placed
  <2>2. /\ overflown' = FALSE /\ count < amount /\ count' = count + 1
        /\ amount' = amount /\ page_size' = page_size
        /\ closed' = closed /\ closed = FALSE
    BY <1>1, ThereIsRoom, Zenon
  <2>3. \E k \in 1 .. PerPage : HasInPage(k)'
    BY <1>1, ThereIsRoom, Zenon
  <2>4. PerPage' = PerPage /\ PerPage \in Nat
    BY <2>2, PageHolds DEF Placed, PerPage, DMA_DESC_SIZE
  <2>5. (\E k \in 0 .. PerPage : HasInPage(k) /\ (count > 0 => k > 0))'
    BY <2>3, <2>4
  <2>6. page' \in Nat
    BY <1>1, ThereIsRoom DEF WritesAt
  <2>7. amount' \in Amounts /\ page_size' \in PageSizes
    BY <2>2 DEF Placed
  <2> QED
    BY <2>1, <2>2, <2>5, <2>6, <2>7 DEF Placed
<1>2. CASE CloseRing
  BY <1>2 DEF CloseRing, Placed, PerPage, HasInPage
<1>3. CASE UNCHANGED descVars
  BY <1>3 DEF descVars, Placed, PerPage, HasInPage
<1> QED
  BY <1>1, <1>2, <1>3 DEF DescNext

-----------------------------------------------------------------------------
(* Each descriptor has its own page of data, and none is where the next will *)
(* be written.                                                               *)
LEMMA DescriptorsDiffer ==
    ASSUME NEW a \in [1 .. count -> Nat \X Nat], LeadsThrough(a), Placed,
           NEW p, NEW q, IsNext(p, q)
    PROVE  /\ \A i, j \in 1 .. count : a[i] = a[j] => i = j
           /\ \A j \in 1 .. count : a[j] # <<p, q>>
<1>1. \A j \in 1 .. count : data[a[j]] = j
  BY DEF LeadsThrough
<1>2. ASSUME NEW j \in 1 .. count
      PROVE  a[j] # <<p, q>>
  <2>1. a[j][1] \in Nat /\ a[j][2] \in Nat
    OBVIOUS
  <2>2. a[j][1] < page \/ (a[j][1] = page /\ a[j][2] < pos)
    BY DEF LeadsThrough
  <2>3. p \in Nat /\ q \in Nat /\ page \in Nat /\ (p > page \/ (p = page /\ q = pos))
    BY DEF IsNext, Placed
  <2>4. a[j][1] # p \/ a[j][2] # q
    BY <2>1, <2>2, <2>3
  <2> QED
    BY <2>4
<1> QED
  BY <1>1, <1>2

(* The chain is empty at first.                                              *)
LEMMA ChainedInit == DescInit => Chained
<1> SUFFICES ASSUME DescInit PROVE Chained
  OBVIOUS
<1> DEFINE a == [j \in 1 .. 0 |-> <<0, 0>>]
<1>1. a \in [1 .. count -> Nat \X Nat]
  BY DEF DescInit
<1>2. LeadsThrough(a)
  <2>1. DOMAIN link = {} /\ DOMAIN data = {}
    BY DEF DescInit
  <2> QED
    BY <2>1 DEF DescInit, LeadsThrough
<1> HIDE DEF a
<1> QED
  BY <1>1, <1>2 DEF Chained

(* The turn that writes the descriptor at <<p, q>> makes the chain longer.   *)
LEMMA ChainGrows ==
    ASSUME Placed, Write, NEW a \in [1 .. count -> Nat \X Nat], LeadsThrough(a),
           NEW p, NEW q, IsNext(p, q), WritesAt(p, q),
           count' = count + 1, closed' = FALSE
    PROVE  Chained'
<1> DEFINE here == <<p, q>>
           mid  == Linked(here)
<1>1. count \in Nat
  BY Pt3DescriptorsAssumption DEF Placed
<1>2. /\ p \in Nat /\ q \in Nat /\ page \in Nat
      /\ p > page \/ (p = page /\ q = pos)
  BY DEF IsNext, Placed
<1>3. PICK b \in [1 .. count + 1 -> Nat \X Nat] :
         b = [j \in 1 .. count + 1 |-> IF j = count + 1 THEN here ELSE a[j]]
  <2>1. \A j \in 1 .. count + 1 : j = count + 1 \/ j \in 1 .. count
    BY <1>1
  <2>2. [j \in 1 .. count + 1 |-> IF j = count + 1 THEN here ELSE a[j]]
          \in [1 .. count + 1 -> Nat \X Nat]
    BY <1>2, <2>1
  <2> QED
    BY <2>2
<1>4. /\ b[count + 1] = here /\ count + 1 \in 1 .. count'
      /\ \A j \in 1 .. count : b[j] = a[j] /\ j \in 1 .. count'
  BY <1>1, <1>3
<1>5. \A j \in 1 .. count' : j = count + 1 \/ j \in 1 .. count
  BY <1>1
<1>6. /\ \A i, j \in 1 .. count : a[i] = a[j] => i = j
      /\ \A j \in 1 .. count : a[j] # here
  BY DescriptorsDiffer
<1>7. link' = With(mid, here, <<>>) /\ data' = With(data, here, count + 1) /\ prev' = here
  BY DEF WritesAt
<1>8. page' = p /\ pos' = q + 20
  BY DEF WritesAt, DMA_DESC_SIZE
<1>9. /\ DOMAIN mid = {a[j] : j \in 1 .. count}
      /\ \A j \in 1 .. count : mid[a[j]] = b[j + 1]
  <2>1. CASE count = 0
    BY <2>1 DEF LeadsThrough, Linked
  <2>2. CASE count # 0
    <3>1. prev = a[count] /\ count \in 1 .. count
      BY <1>1, <2>2 DEF LeadsThrough
    <3>2. prev # <<>>
      <4>1. a[count] \in Nat \X Nat
        BY <3>1
      <4>2. a[count] = <<a[count][1], a[count][2]>>
        BY <4>1
      <4>3. Len(<<a[count][1], a[count][2]>>) # Len(<<>>)
        OBVIOUS
      <4> QED
        BY <3>1, <4>2, <4>3
    <3> HIDE DEF here
    <3>3. mid = With(link, a[count], here)
      BY <3>1, <3>2 DEF Linked
    <3> HIDE DEF mid
    <3>4. DOMAIN mid = DOMAIN link \cup {a[count]}
      BY <3>3 DEF With
    <3>5. mid[a[count]] = here
      BY <3>3 DEF With
    <3>6. \A z \in DOMAIN link : z # a[count] => mid[z] = link[z]
      BY <3>3 DEF With
    <3>7. DOMAIN link = {a[j] : j \in 1 .. count}
      BY DEF LeadsThrough
    <3>8. DOMAIN mid = {a[j] : j \in 1 .. count}
      BY <3>1, <3>4, <3>7
    <3>9. ASSUME NEW j \in 1 .. count
          PROVE  mid[a[j]] = b[j + 1]
      <4>1. CASE j = count
        BY <1>4, <3>5, <4>1
      <4>2. CASE j # count
        <5>1. j < count /\ j + 1 \in 1 .. count
          BY <1>1, <4>2
        <5>2. a[j] # a[count] /\ a[j] \in DOMAIN link
          BY <1>6, <3>1, <3>7, <4>2
        <5>3. link[a[j]] = a[j + 1]
          BY <5>1 DEF LeadsThrough
        <5> QED
          BY <1>4, <3>6, <5>1, <5>2, <5>3
      <4> QED
        BY <4>1, <4>2
    <3> QED
      BY <3>8, <3>9
  <2> QED
    BY <2>1, <2>2
<1> HIDE DEF mid
<1>10. {b[j] : j \in 1 .. count'} = {a[j] : j \in 1 .. count} \cup {here}
  <2> HIDE DEF here
  <2> QED
    BY <1>4, <1>5
<1>11. DOMAIN link' = {b[j] : j \in 1 .. count'}
  <2> HIDE DEF here
  <2>1. DOMAIN link' = DOMAIN mid \cup {here}
    BY <1>7 DEF With
  <2> QED
    BY <1>9, <1>10, <2>1
<1>12. DOMAIN data' = {b[j] : j \in 1 .. count'}
  <2> HIDE DEF here
  <2>1. DOMAIN data' = DOMAIN data \cup {here}
    BY <1>7 DEF With
  <2>2. DOMAIN data = {a[j] : j \in 1 .. count}
    BY DEF LeadsThrough
  <2> QED
    BY <1>10, <2>1, <2>2
<1>13. ASSUME NEW j \in 1 .. count'
       PROVE  /\ data'[b[j]] = j
              /\ j < count' => link'[b[j]] = b[j + 1]
              /\ b[j][1] < page' \/ (b[j][1] = page' /\ b[j][2] < pos')
  <2>1. CASE j = count + 1
    <3>1. data'[here] = count + 1
      <4> HIDE DEF here
      <4> QED
        BY <1>7 DEF With
    <3>2. b[j] = here /\ ~ (j < count')
      BY <1>1, <1>4, <2>1
    <3>3. b[j][1] = page' /\ b[j][2] < pos'
      BY <1>2, <1>8, <3>2
    <3> QED
      BY <2>1, <3>1, <3>2, <3>3
  <2>2. CASE j \in 1 .. count
    <3>1. /\ b[j] = a[j] /\ a[j] # here /\ a[j] \in DOMAIN data /\ a[j] \in DOMAIN mid
          /\ data[a[j]] = j
      BY <1>4, <1>6, <1>9, <2>2 DEF LeadsThrough
    <3>2. data'[a[j]] = data[a[j]] /\ link'[a[j]] = mid[a[j]]
      <4> HIDE DEF here
      <4> QED
        BY <1>7, <3>1 DEF With
    <3>3. a[j][1] < page' \/ (a[j][1] = page' /\ a[j][2] < pos')
      <4>1. a[j][1] \in Nat /\ a[j][2] \in Nat
        BY <2>2
      <4>2. a[j][1] < page \/ (a[j][1] = page /\ a[j][2] < pos)
        BY <2>2 DEF LeadsThrough
      <4> QED
        BY <1>2, <1>8, <4>1, <4>2
    <3> QED
      BY <1>9, <2>2, <3>1, <3>2, <3>3
  <2> QED
    BY <1>5, <2>1, <2>2
<1>14. prev' = b[count'] /\ count' # 0 /\ count' > 0
  BY <1>1, <1>4, <1>7
<1>15. b[1] = <<0, 0>>
  <2>1. CASE count = 0
    BY <1>4, <2>1 DEF IsNext
  <2>2. CASE count # 0
    BY <1>1, <1>4, <2>2 DEF LeadsThrough
  <2> QED
    BY <2>1, <2>2
<1>16. LeadsThrough(b)'
  <2> HIDE DEF here
  <2> QED
    BY <1>11, <1>12, <1>13, <1>14, <1>15 DEF LeadsThrough
<1> QED
  BY <1>3, <1>16 DEF Chained

(* The last descriptor is led to the first, and nothing else changes.        *)
LEMMA ChainCloses ==
    ASSUME Placed, CloseRing, NEW a \in [1 .. count -> Nat \X Nat], LeadsThrough(a)
    PROVE  LeadsThrough(a)'
<1>1. /\ count' = count /\ page' = page /\ pos' = pos /\ data' = data /\ prev' = prev
      /\ link' = (IF prev = <<>> THEN link ELSE With(link, prev, <<0, 0>>))
      /\ closed = FALSE
  BY DEF CloseRing, Placed
<1>2. count \in Nat
  BY Pt3DescriptorsAssumption DEF Placed
<1>3. CASE count = 0
  BY <1>1, <1>3 DEF LeadsThrough
<1>4. CASE count # 0
  <2>1. prev = a[count] /\ count \in 1 .. count
    BY <1>2, <1>4 DEF LeadsThrough
  <2>2. prev # <<>>
    <3>1. a[count] \in Nat \X Nat
      BY <2>1
    <3>2. a[count] = <<a[count][1], a[count][2]>>
      BY <3>1
    <3>3. Len(<<a[count][1], a[count][2]>>) # Len(<<>>)
      OBVIOUS
    <3> QED
      BY <2>1, <3>2, <3>3
  <2>3. DOMAIN link = {a[j] : j \in 1 .. count}
    BY DEF LeadsThrough
  <2>4. link' = With(link, a[count], <<0, 0>>)
    BY <1>1, <2>1, <2>2
  <2>5. DOMAIN link' = DOMAIN link /\ link'[a[count]] = <<0, 0>>
    BY <2>1, <2>3, <2>4 DEF With
  <2>6. ASSUME NEW j \in 1 .. count, j < count
        PROVE  link'[a[j]] = a[j + 1]
    <3>1. a[j] \in DOMAIN link /\ link[a[j]] = a[j + 1]
      BY <2>3, <2>6 DEF LeadsThrough
    <3>2. data[a[j]] = j /\ data[a[count]] = count
      BY <2>1 DEF LeadsThrough
    <3>3. a[j] # a[count]
      BY <1>2, <2>6, <3>2
    <3> QED
      BY <2>4, <3>1, <3>3 DEF With
  <2> QED
    BY <1>1, <2>5, <2>6 DEF LeadsThrough
<1> QED
  BY <1>3, <1>4

(* The chain is kept by every step.                                          *)
LEMMA ChainedNext == Placed /\ Chained /\ [DescNext]_descVars => Chained'
<1> SUFFICES ASSUME Placed, Chained, [DescNext]_descVars PROVE Chained'
  OBVIOUS
<1>1. PICK a \in [1 .. count -> Nat \X Nat] : LeadsThrough(a)
  BY DEF Chained
<1>2. CASE Write
  <2>1. count' = count + 1 /\ closed' = FALSE
    BY <1>2, ThereIsRoom
  <2>2. PICK p, q \in Nat : WritesAt(p, q) /\ IsNext(p, q)
    BY <1>2, ThereIsRoom
  <2> QED
    BY <1>1, <1>2, <2>1, <2>2, ChainGrows
<1>3. CASE CloseRing
  <2>1. LeadsThrough(a)'
    BY <1>1, <1>3, ChainCloses
  <2>2. a \in [1 .. count' -> Nat \X Nat]
    BY <1>3 DEF CloseRing
  <2> QED
    BY <2>1, <2>2 DEF Chained
<1>4. CASE UNCHANGED descVars
  BY <1>4 DEF descVars, Chained, LeadsThrough
<1> QED
  BY <1>2, <1>3, <1>4 DEF DescNext

-----------------------------------------------------------------------------
(* The walk from the first descriptor comes by a[1], a[2] and so on, for     *)
(* what a walk is leaves no choice.                                          *)
LEMMA TheWalk ==
    ASSUME Placed, closed, NEW a \in [1 .. count -> Nat \X Nat], LeadsThrough(a)
    PROVE  RingIsClosed
<1> DEFINE Follow(d) == IF d \in DOMAIN link THEN link[d] ELSE <<>>
           Step(g, i) == IF i = 1 THEN <<0, 0>> ELSE Follow(g[i - 1])
           at == CHOOSE g : g = [i \in 1 .. amount + 1 |-> Step(g, i)]
           b  == [i \in 1 .. amount + 1 |-> IF i = amount + 1 THEN <<0, 0>> ELSE a[i]]
<1>1. amount \in Nat /\ count = amount /\ overflown = FALSE
  BY Pt3DescriptorsAssumption DEF Placed
<1>2. ASSUME NEW i \in 1 .. amount + 1, i # 1
      PROVE  i - 1 \in 1 .. amount + 1 /\ b[i - 1] = a[i - 1] /\ Follow(a[i - 1]) = b[i]
  <2>1. i - 1 \in 1 .. amount /\ i - 1 \in 1 .. count /\ i - 1 # amount + 1
    BY <1>1, <1>2
  <2>2. a[i - 1] \in DOMAIN link
    BY <2>1 DEF LeadsThrough
  <2>3. CASE i = amount + 1
    <3>1. link[a[i - 1]] = <<0, 0>>
      BY <1>1, <2>1, <2>3 DEF LeadsThrough
    <3> QED
      BY <1>1, <2>1, <2>2, <2>3, <3>1
  <2>4. CASE i # amount + 1
    <3>1. link[a[i - 1]] = a[i]
      BY <1>1, <2>1, <2>4 DEF LeadsThrough
    <3> QED
      BY <1>1, <2>1, <2>2, <2>4, <3>1
  <2> QED
    BY <2>3, <2>4
<1>3. b[1] = <<0, 0>> /\ 1 \in 1 .. amount + 1
  <2>1. CASE amount = 0
    BY <2>1
  <2>2. CASE amount # 0
    BY <1>1, <2>2 DEF LeadsThrough
  <2> QED
    BY <2>1, <2>2
<1>4. b = [i \in 1 .. amount + 1 |-> Step(b, i)]
  <2>1. ASSUME NEW i \in 1 .. amount + 1
        PROVE  b[i] = Step(b, i)
    <3>1. CASE i = 1
      BY <1>3, <3>1
    <3>2. CASE i # 1
      <4>1. b[i - 1] = a[i - 1] /\ Follow(a[i - 1]) = b[i]
        BY <1>2, <3>2
      <4> HIDE DEF b, Follow
      <4> QED
        BY <3>2, <4>1
    <3> QED
      BY <3>1, <3>2
  <2> DEFINE c == [i \in 1 .. amount + 1 |-> Step(b, i)]
  <2>2. \A i \in 1 .. amount + 1 : b[i] = c[i]
    <3> HIDE DEF b, Step
    <3> QED
      BY <2>1
  <2>3. b = [i \in 1 .. amount + 1 |-> b[i]]
    OBVIOUS
  <2> HIDE DEF b, Step
  <2> QED
    BY <2>1, <2>3
<1>5. at = [i \in 1 .. amount + 1 |-> Step(at, i)]
  <2> HIDE DEF b, Step
  <2> QED
    BY <1>4, Zenon
<1> HIDE DEF at
<1>6. at[1] = <<0, 0>>
  BY <1>3, <1>5
<1>7. ASSUME NEW i \in 1 .. amount + 1, i # 1
      PROVE  at[i] = Follow(at[i - 1])
  <2>1. at[i] = Step(at, i)
    <3> HIDE DEF Step
    <3> QED
      BY <1>5, Zenon
  <2> HIDE DEF Follow
  <2> QED
    BY <1>7, <2>1
<1> HIDE DEF Follow
<1> DEFINE T == {m \in 0 .. amount : at[m + 1] = b[m + 1]}
<1>8. \A m \in 0 .. amount : m \in T
  <2>1. 0 \in T
    <3> HIDE DEF b
    <3> QED
      BY <1>1, <1>3, <1>6
  <2>2. ASSUME NEW m \in 0 .. amount - 1, m \in T
        PROVE  m + 1 \in T
    <3>1. /\ m + 2 \in 1 .. amount + 1 /\ m + 2 # 1 /\ (m + 2) - 1 = m + 1
          /\ m + 1 \in 0 .. amount /\ (m + 1) + 1 = m + 2
      BY <1>1
    <3> HIDE DEF b
    <3>2. at[m + 1] = b[m + 1]
      BY <2>2
    <3>3. at[m + 2] = Follow(at[m + 1])
      BY <1>7, <3>1
    <3>4. b[m + 1] = a[m + 1] /\ Follow(a[m + 1]) = b[m + 2]
      BY <1>2, <3>1
    <3> QED
      BY <3>1, <3>2, <3>3, <3>4
  <2> HIDE DEF T
  <2> QED
    BY <1>1, <2>1, <2>2, Induction, Zenon
<1>9. \A i \in 1 .. amount : at[i] \in DOMAIN data /\ data[at[i]] = i
  <2> SUFFICES ASSUME NEW i \in 1 .. amount PROVE at[i] \in DOMAIN data /\ data[at[i]] = i
    OBVIOUS
  <2>1. i - 1 \in 0 .. amount /\ (i - 1) + 1 = i
    BY <1>1
  <2>2. at[i] = b[i]
    <3> HIDE DEF b
    <3> QED
      BY <1>8, <2>1
  <2>3. b[i] = a[i]
    BY <1>1
  <2> QED
    BY <1>1, <2>2, <2>3 DEF LeadsThrough
<1>10. at[amount + 1] = <<0, 0>>
  <2>1. at[amount + 1] = b[amount + 1]
    <3> HIDE DEF b
    <3> QED
      BY <1>1, <1>8
  <2>2. b[amount + 1] = <<0, 0>>
    BY <1>1
  <2> QED
    BY <2>1, <2>2
<1> QED
  BY <1>1, <1>9, <1>10, Zenon DEF RingIsClosed, at, Follow

(* The place and the chain are always right.                                 *)
LEMMA DescInvAlways == DescSpec => []DescInv
<1>1. DescInit => DescInv
  BY PlacedInit, ChainedInit DEF DescInv
<1>2. DescInv /\ [DescNext]_descVars => DescInv'
  BY PlacedNext, ChainedNext DEF DescInv
<1> QED
  BY <1>1, <1>2, PTL DEF DescSpec

(* However many pages of data and whatever the size of a page of descriptors *)
(* (pt3_dma_build_page_descriptor): no overflow is met, and the engine that  *)
(* follows the links comes by all pages of data in order and begins again.   *)
THEOREM RingIsAlwaysClosed == DescSpec => []RingIsClosed
<1>1. DescInv => RingIsClosed
  <2> SUFFICES ASSUME Placed, Chained PROVE RingIsClosed
    BY DEF DescInv
  <2>1. CASE closed = FALSE
    BY <2>1 DEF Placed, RingIsClosed
  <2>2. CASE closed = TRUE
    BY <2>2, TheWalk DEF Chained
  <2> QED
    BY <2>1, <2>2 DEF Placed
<1> QED
  BY <1>1, DescInvAlways, PTL

-----------------------------------------------------------------------------

(* What a program makes the listener hear: the engine goes from one          *)
(* condition of the lines, with what has been heard so far, to the next.     *)

(* Instructions, but for the end.                                            *)
Code == {2, 3, 4, 5, 7, 8, 12, 13, 14}

Sounds == {"start", "stop", "high", "low", "read"}

On(d, c, h) == [sda |-> d, scl |-> c, heard |-> h]

Lines == [sda : {0, 1}, scl : {0, 1}, heard : Seq(Sounds)]

(* The conditions t[0], t[1], ... the instructions of p make.                *)
Trace(t, p) ==
    /\ t \in [0 .. Len(p) -> Lines]
    /\ \A k \in 1 .. Len(p) : t[k] = Plays(t[k - 1], p[k])

(* The engine playing p gets from s to u.                                    *)
Leads(p, s, u) ==
    /\ p \in Seq(Code)
    /\ \E t : Trace(t, p) /\ t[0] = s /\ t[Len(p)] = u

(* A sound is added as a sequence of one.                                    *)
LEMMA SoundsAdd ==
    ASSUME NEW h \in Seq(Sounds), NEW e \in Sounds
    PROVE  Append(h, e) \in Seq(Sounds) /\ Append(h, e) = h \o <<e>>
OBVIOUS

(* What the two lines do when one takes a level.                             *)
LEMMA SetDataIs ==
    ASSUME NEW a \in {0, 1}, NEW b \in {0, 1}, NEW h \in Seq(Sounds), NEW d \in {0, 1}
    PROVE  SetData(On(a, b, h), d) =
              On(d, b, IF b = 1 /\ a # d THEN Append(h, IF d = 0 THEN "start" ELSE "stop")
                       ELSE h)
BY DEF SetData, On

LEMMA SetClockIs ==
    ASSUME NEW a \in {0, 1}, NEW b \in {0, 1}, NEW h \in Seq(Sounds), NEW c \in {0, 1}
    PROVE  SetClock(On(a, b, h), c) =
              On(a, c, IF b = 0 /\ c = 1 THEN Append(h, LevelOf(a)) ELSE h)
BY DEF SetClock, On

(* Conditions of the lines, made and taken apart.                            *)
LEMMA OnIsLines ==
    ASSUME NEW a \in {0, 1}, NEW b \in {0, 1}, NEW h \in Seq(Sounds)
    PROVE  On(a, b, h) \in Lines
BY DEF On, Lines

LEMMA LinesAreOn ==
    ASSUME NEW s \in Lines
    PROVE  /\ s = On(s.sda, s.scl, s.heard)
           /\ s.sda \in {0, 1} /\ s.scl \in {0, 1} /\ s.heard \in Seq(Sounds)
BY DEF On, Lines

(* A line that takes a level leaves a condition of the lines.                *)
LEMMA SetsAreLines ==
    ASSUME NEW s \in Lines, NEW d \in {0, 1}
    PROVE  SetData(s, d) \in Lines /\ SetClock(s, d) \in Lines
<1> DEFINE a == s.sda
           b == s.scl
           h == s.heard
<1>1. s = On(a, b, h) /\ a \in {0, 1} /\ b \in {0, 1} /\ h \in Seq(Sounds)
  BY LinesAreOn
<1> HIDE DEF a, b, h
<1>2. (IF b = 1 /\ a # d THEN Append(h, IF d = 0 THEN "start" ELSE "stop") ELSE h)
         \in Seq(Sounds)
  BY <1>1, SoundsAdd DEF Sounds
<1>3. (IF b = 0 /\ d = 1 THEN Append(h, LevelOf(a)) ELSE h) \in Seq(Sounds)
  BY <1>1, SoundsAdd DEF Sounds, LevelOf
<1> DEFINE x == IF b = 1 /\ a # d THEN Append(h, IF d = 0 THEN "start" ELSE "stop") ELSE h
           y == IF b = 0 /\ d = 1 THEN Append(h, LevelOf(a)) ELSE h
<1>4. SetData(On(a, b, h), d) \in Lines
  <2>1. SetData(On(a, b, h), d) = On(d, b, x)
    BY <1>1, SetDataIs
  <2>2. x \in Seq(Sounds)
    BY <1>2
  <2> HIDE DEF x
  <2> QED
    BY <1>1, <2>1, <2>2, OnIsLines
<1>5. SetClock(On(a, b, h), d) \in Lines
  <2>1. SetClock(On(a, b, h), d) = On(a, d, y)
    BY <1>1, SetClockIs
  <2>2. y \in Seq(Sounds)
    BY <1>3
  <2> HIDE DEF y
  <2> QED
    BY <1>1, <2>1, <2>2, OnIsLines
<1> QED
  BY <1>1, <1>4, <1>5

(* With numbers for the levels: what a move of one line makes heard.         *)
LEMMA MovesAre ==
    ASSUME NEW a \in {0, 1}, NEW d \in {0, 1}, NEW h \in Seq(Sounds)
    PROVE  /\ SetData(On(a, 0, h), d) = On(d, 0, h)
           /\ SetData(On(1, 1, h), 1) = On(1, 1, h)
           /\ SetData(On(0, 1, h), 1) = On(1, 1, Append(h, "stop"))
           /\ SetData(On(1, 1, h), 0) = On(0, 1, Append(h, "start"))
           /\ SetClock(On(a, d, h), 0) = On(a, 0, h)
           /\ SetClock(On(a, 1, h), 1) = On(a, 1, h)
           /\ SetClock(On(a, 0, h), 1) = On(a, 1, Append(h, LevelOf(a)))
BY DEF SetData, SetClock, On

(* What each instruction plays.                                              *)
LEMMA PlaysIs ==
    ASSUME NEW s
    PROVE  /\ Plays(s, 2) = SetClock(s, 0) /\ Plays(s, 3) = SetClock(s, 1)
           /\ Plays(s, 4) = SetData(s, 0) /\ Plays(s, 5) = SetData(s, 1)
           /\ Plays(s, 7) = s
           /\ Plays(s, 8) = SetClock(SetClock(SetData(s, 0), 1), 0)
           /\ Plays(s, 12) = SetClock(SetClock(SetData(s, 1), 1), 0)
           /\ Plays(s, 13) =
                SetClock([SetClock(SetData(s, 1), 1) EXCEPT !.heard = Append(@, "read")], 0)
           /\ Plays(s, 14) = SetClock(SetClock(SetData(s, 1), 1), 0)
BY DEF Plays, I_CLOCK_L, I_CLOCK_H, I_DATA_L, I_DATA_H, I_DATA_L_NOP, I_DATA_H_NOP,
       I_DATA_H_READ, I_DATA_H_ACK0

(* So does an instruction.                                                   *)
LEMMA PlaysIsLines ==
    ASSUME NEW s \in Lines, NEW i \in Code
    PROVE  Plays(s, i) \in Lines
<1>1. \A z \in Lines : \A d \in {0, 1} : SetData(z, d) \in Lines /\ SetClock(z, d) \in Lines
  BY SetsAreLines
<1>2. \A z \in Lines : [z EXCEPT !.heard = Append(@, "read")] \in Lines
  <2> TAKE z \in Lines
  <2>1. Append(z.heard, "read") \in Seq(Sounds)
    BY SoundsAdd DEF Lines, Sounds
  <2> QED
    BY <2>1 DEF Lines
<1>3. SetData(s, 0) \in Lines /\ SetData(s, 1) \in Lines
  BY <1>1
<1>4. SetClock(SetData(s, 0), 1) \in Lines /\ SetClock(SetData(s, 1), 1) \in Lines
  BY <1>1, <1>3
<1>5. [SetClock(SetData(s, 1), 1) EXCEPT !.heard = Append(@, "read")] \in Lines
  BY <1>2, <1>4
<1> QED
  <2> DEFINE A == SetClock(SetClock(SetData(s, 0), 1), 0)
             B == SetClock([SetClock(SetData(s, 1), 1) EXCEPT !.heard = Append(@, "read")], 0)
             C == SetClock(SetClock(SetData(s, 1), 1), 0)
             D == SetClock(s, 0)
             E == SetClock(s, 1)
             F == SetData(s, 0)
             G == SetData(s, 1)
  <2>1. A \in Lines /\ B \in Lines /\ C \in Lines
    BY <1>1, <1>4, <1>5
  <2>2. D \in Lines /\ E \in Lines /\ F \in Lines /\ G \in Lines
    BY <1>1
  <2>3. Plays(s, i) \in {A, B, C, D, E, F, G, s}
    BY PlaysIs DEF Code
  <2> HIDE DEF A, B, C, D, E, F, G
  <2> QED
    BY <2>1, <2>2, <2>3

(* No instructions lead nowhere, and one leads to what it plays.             *)
LEMMA LeadsNowhere ==
    ASSUME NEW s \in Lines
    PROVE  Leads(<<>>, s, s)
<1> DEFINE t == [k \in 0 .. 0 |-> s]
<1>1. <<>> \in Seq(Code) /\ Len(<<>>) = 0
  OBVIOUS
<1>2. Trace(t, <<>>)
  BY <1>1 DEF Trace
<1> QED
  BY <1>1, <1>2 DEF Leads

LEMMA LeadsOne ==
    ASSUME NEW s \in Lines, NEW i \in Code
    PROVE  Leads(<<i>>, s, Plays(s, i))
<1> DEFINE u == Plays(s, i)
           t == [k \in 0 .. 1 |-> IF k = 0 THEN s ELSE u]
<1>1. u \in Lines
  BY PlaysIsLines
<1> HIDE DEF u
<1>2. <<i>> \in Seq(Code) /\ Len(<<i>>) = 1 /\ <<i>>[1] = i
  OBVIOUS
<1>3. t \in [0 .. 1 -> Lines] /\ t[0] = s /\ t[1] = u
  BY <1>1
<1> HIDE DEF t
<1>4. Trace(t, <<i>>)
  <2>1. ASSUME NEW k \in 1 .. Len(<<i>>)
        PROVE  t[k] = Plays(t[k - 1], <<i>>[k])
    <3>1. k = 1 /\ k - 1 = 0
      BY <1>2
    <3> QED
      BY <1>2, <1>3, <3>1 DEF u
  <2> QED
    BY <1>2, <1>3, <2>1 DEF Trace
<1> QED
  BY <1>2, <1>3, <1>4 DEF Leads, u

(* Instructions that do nothing, however many.                               *)
LEMMA LeadsAsleep ==
    ASSUME NEW s \in Lines, NEW n \in Nat
    PROVE  Leads(bus_sleep(n), s, s)
<1> DEFINE t == [k \in 0 .. n |-> s]
           p == bus_sleep(n)
<1>1. p \in Seq(Code) /\ Len(p) = n /\ \A k \in 1 .. n : p[k] = 7
  BY DEF bus_sleep, I_SLEEP, Code
<1>2. Plays(s, 7) = s
  BY PlaysIs
<1>3. t \in [0 .. n -> Lines] /\ t[0] = s /\ t[n] = s
  OBVIOUS
<1> HIDE DEF p
<1>4. Trace(t, p)
  BY <1>1, <1>2, <1>3 DEF Trace
<1> HIDE DEF t
<1>5. Leads(p, s, s)
  BY <1>1, <1>3, <1>4 DEF Leads
<1> QED
  BY <1>5 DEF p

(* One after the other.                                                      *)
LEMMA LeadsOn ==
    ASSUME NEW p, NEW q, NEW s, NEW u, NEW w,
           Leads(p, s, u), Leads(q, u, w)
    PROVE  Leads(p \o q, s, w)
<1>1. PICK f : Trace(f, p) /\ f[0] = s /\ f[Len(p)] = u
  BY DEF Leads
<1>2. PICK g : Trace(g, q) /\ g[0] = u /\ g[Len(q)] = w
  BY DEF Leads
<1>3. p \in Seq(Code) /\ q \in Seq(Code)
  BY DEF Leads
<1> DEFINE m == Len(p)
           n == Len(q)
           r == p \o q
           t == [k \in 0 .. m + n |-> IF k <= m THEN f[k] ELSE g[k - m]]
<1>4. /\ m \in Nat /\ n \in Nat /\ r \in Seq(Code) /\ Len(r) = m + n
      /\ \A k \in 1 .. m + n : r[k] = IF k <= m THEN p[k] ELSE q[k - m]
  BY <1>3, ConcatProperties, LenProperties
<1> HIDE DEF r, m, n
<1>5. /\ f \in [0 .. m -> Lines] /\ g \in [0 .. n -> Lines]
      /\ \A k \in 1 .. m : f[k] = Plays(f[k - 1], p[k])
      /\ \A k \in 1 .. n : g[k] = Plays(g[k - 1], q[k])
  BY <1>1, <1>2 DEF Trace, m, n
<1>6. f[0] = s /\ f[m] = u /\ g[0] = u /\ g[n] = w
  BY <1>1, <1>2 DEF m, n
<1>7. t \in [0 .. m + n -> Lines]
  BY <1>4, <1>5
<1>8. \A k \in 0 .. m : t[k] = f[k]
  BY <1>4
<1>9. \A k \in 0 .. n : t[m + k] = g[k]
  <2> TAKE k \in 0 .. n
  <2>1. m + k \in 0 .. m + n /\ (m + k <= m <=> k = 0) /\ (m + k) - m = k
    BY <1>4
  <2> QED
    BY <1>4, <1>6, <2>1
<1> HIDE DEF t
<1>10. ASSUME NEW k \in 1 .. m + n
       PROVE  t[k] = Plays(t[k - 1], r[k])
  <2>1. CASE k <= m
    <3>1. k \in 1 .. m /\ k \in 0 .. m /\ k - 1 \in 0 .. m
      BY <1>4, <2>1
    <3>2. t[k] = f[k] /\ t[k - 1] = f[k - 1] /\ r[k] = p[k]
      BY <1>4, <1>8, <2>1, <3>1
    <3> QED
      BY <1>5, <3>1, <3>2
  <2>2. CASE k > m
    <3> DEFINE j == k - m
    <3>1. /\ j \in 1 .. n /\ j \in 0 .. n /\ j - 1 \in 0 .. n
          /\ k = m + j /\ k - 1 = m + (j - 1) /\ ~ (k <= m)
      BY <1>4, <2>2
    <3>2. r[k] = q[j]
      BY <1>4, <3>1
    <3> HIDE DEF j
    <3>3. t[k] = g[j] /\ t[k - 1] = g[j - 1]
      BY <1>9, <3>1
    <3> QED
      BY <1>5, <3>1, <3>2, <3>3
  <2> QED
    BY <1>4, <2>1, <2>2
<1>11. t[0] = s /\ t[m + n] = w
  <2>1. 0 \in 0 .. m /\ n \in 0 .. n
    BY <1>4
  <2> QED
    BY <1>6, <1>8, <1>9, <2>1
<1>12. Trace(t, r)
  BY <1>4, <1>7, <1>10 DEF Trace
<1>13. Leads(r, s, w)
  BY <1>4, <1>11, <1>12 DEF Leads
<1> QED
  BY <1>13 DEF r

-----------------------------------------------------------------------------
(* Levels of data and clock.                                                 *)
Pairs == {0, 1} \X {0, 1}

Free == {<<1, 1>>}
Held == {<<0, 1>>}
Low  == {<<0, 0>>, <<1, 0>>}

(* From any levels in L the instructions of p lead to levels in M, and x is  *)
(* heard.                                                                    *)
Says(p, L, M, x) ==
    /\ p \in Seq(Code) /\ x \in Seq(Sounds) /\ L \subseteq Pairs /\ M \subseteq Pairs
    /\ \A l \in L : \A h \in Seq(Sounds) : \E m \in M :
          Leads(p, On(l[1], l[2], h), On(m[1], m[2], h \o x))

(* One instruction.                                                          *)
LEMMA OneSays ==
    ASSUME NEW i \in Code, NEW L, NEW M, NEW x \in Seq(Sounds),
           L \subseteq Pairs, M \subseteq Pairs,
           \A l \in L : \A h \in Seq(Sounds) : \E m \in M :
              Plays(On(l[1], l[2], h), i) = On(m[1], m[2], h \o x)
    PROVE  Says(<<i>>, L, M, x)
<1>1. <<i>> \in Seq(Code)
  OBVIOUS
<1>2. ASSUME NEW l \in L, NEW h \in Seq(Sounds)
      PROVE  \E m \in M : Leads(<<i>>, On(l[1], l[2], h), On(m[1], m[2], h \o x))
  <2>1. l[1] \in {0, 1} /\ l[2] \in {0, 1}
    BY DEF Pairs
  <2>2. On(l[1], l[2], h) \in Lines
    BY <2>1, OnIsLines
  <2>3. PICK m \in M : Plays(On(l[1], l[2], h), i) = On(m[1], m[2], h \o x)
    OBVIOUS
  <2>4. Leads(<<i>>, On(l[1], l[2], h), On(m[1], m[2], h \o x))
    BY <2>2, <2>3, LeadsOne
  <2> QED
    BY <2>4
<1> QED
  BY <1>1, <1>2 DEF Says

(* Two pieces, when the second goes on from where the first may end.         *)
LEMMA SaysOn ==
    ASSUME NEW p, NEW q, NEW x, NEW y, NEW L, NEW M, NEW K, NEW N,
           Says(p, L, M, x), Says(q, K, N, y), M \subseteq K
    PROVE  Says(p \o q, L, N, x \o y)
<1>1. /\ p \in Seq(Code) /\ q \in Seq(Code) /\ x \in Seq(Sounds) /\ y \in Seq(Sounds)
      /\ L \subseteq Pairs /\ N \subseteq Pairs
  BY DEF Says
<1>2. p \o q \in Seq(Code) /\ x \o y \in Seq(Sounds)
  BY <1>1
<1>3. ASSUME NEW l \in L, NEW h \in Seq(Sounds)
      PROVE  \E n \in N : Leads(p \o q, On(l[1], l[2], h), On(n[1], n[2], h \o (x \o y)))
  <2>1. PICK m \in M : Leads(p, On(l[1], l[2], h), On(m[1], m[2], h \o x))
    BY DEF Says
  <2>2. h \o x \in Seq(Sounds) /\ (h \o x) \o y = h \o (x \o y)
    BY <1>1
  <2>3. PICK n \in N : Leads(q, On(m[1], m[2], h \o x), On(n[1], n[2], (h \o x) \o y))
    BY <2>2 DEF Says
  <2>4. Leads(p \o q, On(l[1], l[2], h), On(n[1], n[2], (h \o x) \o y))
    BY <2>1, <2>3, LeadsOn
  <2> QED
    BY <2>2, <2>4
<1> QED
  BY <1>1, <1>2, <1>3 DEF Says

(* Fewer levels to begin with, more to end with.                             *)
LEMMA SaysLess ==
    ASSUME NEW p, NEW x, NEW L, NEW M, NEW K, NEW N,
           Says(p, L, M, x), K \subseteq L, M \subseteq N, N \subseteq Pairs
    PROVE  Says(p, K, N, x)
BY DEF Says

(* Many, one after the other.                                                *)
LEMMA SaysAll ==
    ASSUME NEW n \in Nat, NEW L, NEW M, M \subseteq L, L \subseteq Pairs,
           NEW p \in [1 .. n -> Seq(Code)], NEW x \in [1 .. n -> Seq(Sounds)],
           \A k \in 1 .. n : Says(p[k], L, M, x[k]),
           n > 0 \/ L = M
    PROVE  Says(FlattenSeq(p), L, M, FlattenSeq(x))
<1> DEFINE X(m) == FlattenSeq([i \in 1 .. m |-> x[i]])
           To(m) == IF m = 0 THEN L ELSE M
           Fit == [m \in 0 .. n |-> {s \in Seq(Code) : Says(s, L, To(m), X(m))}]
<1>1. X(0) = <<>>
  BY DEF FlattenSeq
<1>2. \A m \in 0 .. n - 1 : X(m + 1) = X(m) \o x[m + 1]
  <2> TAKE m \in 0 .. n - 1
  <2> DEFINE y == [i \in 1 .. m + 1 |-> x[i]]
  <2>1. /\ m \in Nat /\ y \in [1 .. m + 1 -> Seq(Sounds)]
        /\ [i \in 1 .. m |-> y[i]] = [i \in 1 .. m |-> x[i]] /\ y[m + 1] = x[m + 1]
    OBVIOUS
  <2>2. FlattenSeq(y) = FlattenSeq([i \in 1 .. m |-> y[i]]) \o y[m + 1]
    <3> HIDE DEF y
    <3> QED
      BY <2>1, FlattenMore
  <2> QED
    BY <2>1, <2>2
<1> HIDE DEF X
<1>3. <<>> \in Fit[0]
  <2>1. <<>> \in Seq(Code) /\ <<>> \in Seq(Sounds)
    OBVIOUS
  <2>2. ASSUME NEW l \in L, NEW h \in Seq(Sounds)
        PROVE  Leads(<<>>, On(l[1], l[2], h), On(l[1], l[2], h \o <<>>))
    <3>1. l[1] \in {0, 1} /\ l[2] \in {0, 1} /\ h \o <<>> = h
      BY DEF Pairs
    <3> QED
      BY <3>1, OnIsLines, LeadsNowhere
  <2>3. Says(<<>>, L, L, <<>>)
    BY <2>1, <2>2 DEF Says
  <2> QED
    BY <1>1, <2>1, <2>3
<1>4. ASSUME NEW m \in 0 .. n - 1, NEW s \in Fit[m] \cap Seq(Code)
      PROVE  s \o p[m + 1] \in Fit[m + 1]
  <2>1. m \in 0 .. n /\ m + 1 \in 0 .. n /\ m + 1 \in 1 .. n /\ m + 1 # 0
    OBVIOUS
  <2>2. Says(s, L, To(m), X(m)) /\ s \in Seq(Code) /\ p[m + 1] \in Seq(Code)
    BY <2>1
  <2>3. To(m) \subseteq L /\ To(m + 1) = M
    BY <2>1
  <2>4. Says(p[m + 1], L, M, x[m + 1])
    BY <2>1
  <2>5. X(m + 1) = X(m) \o x[m + 1]
    BY <1>2
  <2>6. Fit[m + 1] = {z \in Seq(Code) : Says(z, L, To(m + 1), X(m + 1))}
    BY <2>1
  <2> HIDE DEF To, Fit
  <2>7. Says(s \o p[m + 1], L, M, X(m) \o x[m + 1])
    BY <2>2, <2>3, <2>4, SaysOn
  <2>8. s \o p[m + 1] \in Seq(Code)
    BY <2>2, ConcatProperties
  <2> QED
    BY <2>3, <2>5, <2>6, <2>7, <2>8
<1>5. FlattenSeq(p) \in Fit[n]
  <2> HIDE DEF Fit
  <2> QED
    BY <1>3, <1>4, FlattenBuilds
<1>6. X(n) = FlattenSeq(x) /\ To(n) = M
  <2>1. [i \in 1 .. n |-> x[i]] = x
    OBVIOUS
  <2>2. To(n) = M
    OBVIOUS
  <2> QED
    BY <2>1, <2>2 DEF X
<1>7. Says(FlattenSeq(p), L, To(n), X(n))
  BY <1>5
<1> HIDE DEF To
<1> QED
  BY <1>6, <1>7

-----------------------------------------------------------------------------
(* Data takes a level, and the clock rises and falls.                        *)
LEMMA RoundIs ==
    ASSUME NEW a \in {0, 1}, NEW d \in {0, 1}, NEW h \in Seq(Sounds)
    PROVE  /\ SetClock(SetData(On(a, 0, h), d), 1) = On(d, 1, h \o <<LevelOf(d)>>)
           /\ SetClock(SetClock(SetData(On(a, 0, h), d), 1), 0) = On(d, 0, h \o <<LevelOf(d)>>)
<1>1. LevelOf(d) \in Sounds
  BY DEF LevelOf, Sounds
<1> DEFINE e == LevelOf(d)
           g == Append(h, e)
<1>2. g \in Seq(Sounds) /\ g = h \o <<e>>
  BY <1>1
<1> HIDE DEF e
<1>3. SetData(On(a, 0, h), d) = On(d, 0, h)
  BY MovesAre
<1>4. SetClock(On(d, 0, h), 1) = On(d, 1, g)
  BY MovesAre DEF e
<1> HIDE DEF g
<1>5. SetClock(On(d, 1, g), 0) = On(d, 0, g)
  BY <1>2, MovesAre
<1> QED
  BY <1>2, <1>3, <1>4, <1>5 DEF e

(* The levels are those of Low, and one of the two.                          *)
LEMMA LowIs == \A l \in Low : l[1] \in {0, 1} /\ l[2] = 0
  BY DEF Low

(* A bit is heard at its level, and the clock is low again.                  *)
LEMMA NopsSay ==
    /\ Says(<<8>>, Low, Low, <<"low">>)
    /\ Says(<<12>>, Low, Low, <<"high">>)
    /\ Says(<<14>>, Low, Low, <<"high">>)
<1>1. Low \subseteq Pairs /\ <<0, 0>> \in Low /\ <<1, 0>> \in Low
  BY DEF Low, Pairs
<1>2. <<"low">> \in Seq(Sounds) /\ <<"high">> \in Seq(Sounds)
  BY DEF Sounds
<1>3. LevelOf(0) = "low" /\ LevelOf(1) = "high"
  BY DEF LevelOf
<1>4. 8 \in Code /\ 12 \in Code /\ 14 \in Code
  BY DEF Code
<1>5. ASSUME NEW l \in Low, NEW h \in Seq(Sounds)
      PROVE  /\ Plays(On(l[1], l[2], h), 8) = On(0, 0, h \o <<"low">>)
             /\ Plays(On(l[1], l[2], h), 12) = On(1, 0, h \o <<"high">>)
             /\ Plays(On(l[1], l[2], h), 14) = On(1, 0, h \o <<"high">>)
  <2> DEFINE a == l[1]
             s == On(a, 0, h)
  <2>1. a \in {0, 1} /\ l[2] = 0
    BY LowIs
  <2> HIDE DEF a
  <2>2. /\ SetClock(SetClock(SetData(s, 0), 1), 0) = On(0, 0, h \o <<"low">>)
        /\ SetClock(SetClock(SetData(s, 1), 1), 0) = On(1, 0, h \o <<"high">>)
    BY <1>3, <2>1, RoundIs
  <2> HIDE DEF s
  <2>3. /\ Plays(s, 8) = SetClock(SetClock(SetData(s, 0), 1), 0)
        /\ Plays(s, 12) = SetClock(SetClock(SetData(s, 1), 1), 0)
        /\ Plays(s, 14) = SetClock(SetClock(SetData(s, 1), 1), 0)
    BY PlaysIs
  <2> QED
    BY <2>1, <2>2, <2>3 DEF s, a
<1>6. \A l \in Low : \A h \in Seq(Sounds) : \E m \in Low :
         Plays(On(l[1], l[2], h), 8) = On(m[1], m[2], h \o <<"low">>)
  <2>1. <<0, 0>>[1] = 0 /\ <<0, 0>>[2] = 0
    OBVIOUS
  <2> QED
    BY <1>1, <1>5, <2>1
<1>7. \A l \in Low : \A h \in Seq(Sounds) : \E m \in Low :
         Plays(On(l[1], l[2], h), 12) = On(m[1], m[2], h \o <<"high">>)
  <2>1. <<1, 0>>[1] = 1 /\ <<1, 0>>[2] = 0
    OBVIOUS
  <2> QED
    BY <1>1, <1>5, <2>1
<1>8. \A l \in Low : \A h \in Seq(Sounds) : \E m \in Low :
         Plays(On(l[1], l[2], h), 14) = On(m[1], m[2], h \o <<"high">>)
  <2>1. <<1, 0>>[1] = 1 /\ <<1, 0>>[2] = 0
    OBVIOUS
  <2> QED
    BY <1>1, <1>5, <2>1
<1> QED
  BY <1>1, <1>2, <1>4, <1>6, <1>7, <1>8, OneSays

(* So is a bit that is read, at the high level the listener may pull down.   *)
LEMMA ReadSays == Says(<<13>>, Low, Low, <<"high", "read">>)
<1>1. Low \subseteq Pairs /\ <<1, 0>> \in Low /\ <<1, 0>>[1] = 1 /\ <<1, 0>>[2] = 0
  BY DEF Low, Pairs
<1>2. <<"high", "read">> \in Seq(Sounds) /\ "high" \in Sounds /\ "read" \in Sounds
  BY DEF Sounds
<1>3. LevelOf(1) = "high" /\ 13 \in Code
  BY DEF LevelOf, Code
<1>4. ASSUME NEW l \in Low, NEW h \in Seq(Sounds)
      PROVE  Plays(On(l[1], l[2], h), 13) = On(1, 0, h \o <<"high", "read">>)
  <2> DEFINE a == l[1]
             s == On(a, 0, h)
             g == h \o <<"high">>
             f == h \o <<"high", "read">>
  <2>1. a \in {0, 1} /\ l[2] = 0
    BY LowIs
  <2> HIDE DEF a
  <2>2. SetClock(SetData(s, 1), 1) = On(1, 1, g)
    BY <1>3, <2>1, RoundIs
  <2>3. g \in Seq(Sounds) /\ Append(g, "read") = f /\ f \in Seq(Sounds)
    BY <1>2
  <2> HIDE DEF s, g, f
  <2>4. [On(1, 1, g) EXCEPT !.heard = Append(@, "read")] = On(1, 1, f)
    <3>1. On(1, 1, g).heard = g
      BY DEF On
    <3>2. [On(1, 1, g) EXCEPT !.heard = Append(@, "read")] = [On(1, 1, g) EXCEPT !.heard = f]
      BY <2>3, <3>1
    <3>3. [On(1, 1, g) EXCEPT !.heard = f] = On(1, 1, f)
      BY DEF On
    <3> QED
      BY <3>2, <3>3
  <2>5. SetClock(On(1, 1, f), 0) = On(1, 0, f)
    BY <2>3, MovesAre
  <2>6. Plays(s, 13) =
           SetClock([SetClock(SetData(s, 1), 1) EXCEPT !.heard = Append(@, "read")], 0)
    BY PlaysIs
  <2> QED
    BY <2>1, <2>2, <2>4, <2>5, <2>6 DEF s, a, f
<1>5. \A l \in Low : \A h \in Seq(Sounds) : \E m \in Low :
         Plays(On(l[1], l[2], h), 13) = On(m[1], m[2], h \o <<"high", "read">>)
  BY <1>1, <1>4
<1> QED
  BY <1>1, <1>2, <1>3, <1>5, OneSays

(* The four that move one line.  What is heard depends on the other.         *)
LEMMA MoveSays ==
    ASSUME NEW i \in {2, 3, 4, 5}, NEW a \in {0, 1}, NEW b \in {0, 1},
           NEW c \in {0, 1}, NEW d \in {0, 1}, NEW x \in Seq(Sounds),
           \A h \in Seq(Sounds) : Plays(On(a, b, h), i) = On(c, d, h \o x)
    PROVE  Says(<<i>>, {<<a, b>>}, {<<c, d>>}, x)
<1> DEFINE l == <<a, b>>
           m == <<c, d>>
<1>1. i \in Code /\ {l} \subseteq Pairs /\ {m} \subseteq Pairs
  BY DEF Code, Pairs
<1>2. l[1] = a /\ l[2] = b /\ m[1] = c /\ m[2] = d
  OBVIOUS
<1> HIDE DEF l, m
<1>3. \A z \in {l} : \A h \in Seq(Sounds) : \E w \in {m} :
         Plays(On(z[1], z[2], h), i) = On(w[1], w[2], h \o x)
  BY <1>2
<1>4. Says(<<i>>, {l}, {m}, x)
  BY <1>1, <1>3, OneSays
<1> QED
  BY <1>4 DEF l, m

(* What the four that move one line make heard.                              *)
LEMMA MovesSay ==
    /\ Says(<<5>>, Free, Free, <<>>)
    /\ Says(<<3>>, Free, Free, <<>>)
    /\ Says(<<4>>, Free, Held, <<"start">>)
    /\ Says(<<2>>, Held, {<<0, 0>>}, <<>>)
    /\ Says(<<5>>, {<<0, 0>>}, {<<1, 0>>}, <<>>)
    /\ Says(<<5>>, {<<1, 0>>}, {<<1, 0>>}, <<>>)
    /\ Says(<<3>>, {<<1, 0>>}, Free, <<"high">>)
    /\ Says(<<4>>, {<<0, 0>>}, {<<0, 0>>}, <<>>)
    /\ Says(<<4>>, {<<1, 0>>}, {<<0, 0>>}, <<>>)
    /\ Says(<<3>>, {<<0, 0>>}, Held, <<"low">>)
    /\ Says(<<5>>, Held, Free, <<"stop">>)
<1> DEFINE Silence == <<>>
           AStart == <<"start">>
           Stop == <<"stop">>
           High == <<"high">>
           Lo == <<"low">>
<1>1. /\ Silence \in Seq(Sounds) /\ AStart \in Seq(Sounds) /\ Stop \in Seq(Sounds)
      /\ High \in Seq(Sounds) /\ Lo \in Seq(Sounds)
  BY DEF Sounds
<1>2. \A s : /\ Plays(s, 2) = SetClock(s, 0) /\ Plays(s, 3) = SetClock(s, 1)
             /\ Plays(s, 4) = SetData(s, 0) /\ Plays(s, 5) = SetData(s, 1)
  BY PlaysIs
<1>3. ASSUME NEW h \in Seq(Sounds)
      PROVE  /\ h \o Silence = h
             /\ Append(h, "start") = h \o AStart /\ Append(h, "stop") = h \o Stop
             /\ Append(h, LevelOf(1)) = h \o High /\ Append(h, LevelOf(0)) = h \o Lo
  <2>1. h \o Silence = h
    OBVIOUS
  <2>2. \A e \in Sounds : Append(h, e) = h \o <<e>>
    BY SoundsAdd
  <2>3. LevelOf(1) = "high" /\ LevelOf(0) = "low"
    BY DEF LevelOf
  <2> QED
    BY <2>1, <2>2, <2>3, Zenon DEF Sounds
<1> HIDE DEF Silence, AStart, Stop, High, Lo
<1>4. 0 \in {0, 1} /\ 1 \in {0, 1} /\ 2 \in {2, 3, 4, 5} /\ 3 \in {2, 3, 4, 5}
      /\ 4 \in {2, 3, 4, 5} /\ 5 \in {2, 3, 4, 5}
  OBVIOUS
<1>5. Says(<<5>>, {<<1, 1>>}, {<<1, 1>>}, Silence)
  <2>1. ASSUME NEW h \in Seq(Sounds)
        PROVE  Plays(On(1, 1, h), 5) = On(1, 1, h \o Silence)
    <3>1. Plays(On(1, 1, h), 5) = SetData(On(1, 1, h), 1)
      BY <1>2
    <3>2. SetData(On(1, 1, h), 1) = On(1, 1, h \o Silence)
      BY <1>3, <1>4, MovesAre
    <3> QED
      BY <3>1, <3>2
  <2> QED
    BY <1>1, <1>4, <2>1, MoveSays
<1>6. Says(<<3>>, {<<1, 1>>}, {<<1, 1>>}, Silence)
  <2>1. ASSUME NEW h \in Seq(Sounds)
        PROVE  Plays(On(1, 1, h), 3) = On(1, 1, h \o Silence)
    <3>1. Plays(On(1, 1, h), 3) = SetClock(On(1, 1, h), 1)
      BY <1>2
    <3>2. SetClock(On(1, 1, h), 1) = On(1, 1, h \o Silence)
      BY <1>3, <1>4, MovesAre
    <3> QED
      BY <3>1, <3>2
  <2> QED
    BY <1>1, <1>4, <2>1, MoveSays
<1>7. Says(<<4>>, {<<1, 1>>}, {<<0, 1>>}, AStart)
  <2>1. ASSUME NEW h \in Seq(Sounds)
        PROVE  Plays(On(1, 1, h), 4) = On(0, 1, h \o AStart)
    <3>1. Plays(On(1, 1, h), 4) = SetData(On(1, 1, h), 0)
      BY <1>2
    <3>2. SetData(On(1, 1, h), 0) = On(0, 1, Append(h, "start"))
      BY <1>4, MovesAre
    <3>3. Append(h, "start") = h \o AStart
      BY <1>3
    <3> QED
      BY <3>1, <3>2, <3>3
  <2> QED
    BY <1>1, <1>4, <2>1, MoveSays
<1>8. Says(<<2>>, {<<0, 1>>}, {<<0, 0>>}, Silence)
  <2>1. ASSUME NEW h \in Seq(Sounds)
        PROVE  Plays(On(0, 1, h), 2) = On(0, 0, h \o Silence)
    <3>1. Plays(On(0, 1, h), 2) = SetClock(On(0, 1, h), 0)
      BY <1>2
    <3>2. SetClock(On(0, 1, h), 0) = On(0, 0, h \o Silence)
      BY <1>3, <1>4, MovesAre
    <3> QED
      BY <3>1, <3>2
  <2> QED
    BY <1>1, <1>4, <2>1, MoveSays
<1>9. Says(<<5>>, {<<0, 0>>}, {<<1, 0>>}, Silence)
  <2>1. ASSUME NEW h \in Seq(Sounds)
        PROVE  Plays(On(0, 0, h), 5) = On(1, 0, h \o Silence)
    <3>1. Plays(On(0, 0, h), 5) = SetData(On(0, 0, h), 1)
      BY <1>2
    <3>2. SetData(On(0, 0, h), 1) = On(1, 0, h \o Silence)
      <4>1. SetData(On(0, 0, h), 1) = On(1, 0, h)
        BY <1>4, MovesAre
      <4> QED
        BY <1>3, <4>1
    <3> QED
      BY <3>1, <3>2
  <2> QED
    BY <1>1, <1>4, <2>1, MoveSays
<1>10. Says(<<5>>, {<<1, 0>>}, {<<1, 0>>}, Silence)
  <2>1. ASSUME NEW h \in Seq(Sounds)
        PROVE  Plays(On(1, 0, h), 5) = On(1, 0, h \o Silence)
    <3>1. Plays(On(1, 0, h), 5) = SetData(On(1, 0, h), 1)
      BY <1>2
    <3>2. SetData(On(1, 0, h), 1) = On(1, 0, h \o Silence)
      <4>1. SetData(On(1, 0, h), 1) = On(1, 0, h)
        BY <1>4, MovesAre
      <4> QED
        BY <1>3, <4>1
    <3> QED
      BY <3>1, <3>2
  <2> QED
    BY <1>1, <1>4, <2>1, MoveSays
<1>11. Says(<<3>>, {<<1, 0>>}, {<<1, 1>>}, High)
  <2>1. ASSUME NEW h \in Seq(Sounds)
        PROVE  Plays(On(1, 0, h), 3) = On(1, 1, h \o High)
    <3>1. Plays(On(1, 0, h), 3) = SetClock(On(1, 0, h), 1)
      BY <1>2
    <3>2. SetClock(On(1, 0, h), 1) = On(1, 1, Append(h, LevelOf(1)))
      BY <1>4, MovesAre
    <3>3. Append(h, LevelOf(1)) = h \o High
      BY <1>3
    <3> QED
      BY <3>1, <3>2, <3>3
  <2> QED
    BY <1>1, <1>4, <2>1, MoveSays
<1>12. Says(<<4>>, {<<0, 0>>}, {<<0, 0>>}, Silence)
  <2>1. ASSUME NEW h \in Seq(Sounds)
        PROVE  Plays(On(0, 0, h), 4) = On(0, 0, h \o Silence)
    <3>1. Plays(On(0, 0, h), 4) = SetData(On(0, 0, h), 0)
      BY <1>2
    <3>2. SetData(On(0, 0, h), 0) = On(0, 0, h \o Silence)
      <4>1. SetData(On(0, 0, h), 0) = On(0, 0, h)
        BY <1>4, MovesAre
      <4> QED
        BY <1>3, <4>1
    <3> QED
      BY <3>1, <3>2
  <2> QED
    BY <1>1, <1>4, <2>1, MoveSays
<1>13. Says(<<4>>, {<<1, 0>>}, {<<0, 0>>}, Silence)
  <2>1. ASSUME NEW h \in Seq(Sounds)
        PROVE  Plays(On(1, 0, h), 4) = On(0, 0, h \o Silence)
    <3>1. Plays(On(1, 0, h), 4) = SetData(On(1, 0, h), 0)
      BY <1>2
    <3>2. SetData(On(1, 0, h), 0) = On(0, 0, h \o Silence)
      <4>1. SetData(On(1, 0, h), 0) = On(0, 0, h)
        BY <1>4, MovesAre
      <4> QED
        BY <1>3, <4>1
    <3> QED
      BY <3>1, <3>2
  <2> QED
    BY <1>1, <1>4, <2>1, MoveSays
<1>14. Says(<<3>>, {<<0, 0>>}, {<<0, 1>>}, Lo)
  <2>1. ASSUME NEW h \in Seq(Sounds)
        PROVE  Plays(On(0, 0, h), 3) = On(0, 1, h \o Lo)
    <3>1. Plays(On(0, 0, h), 3) = SetClock(On(0, 0, h), 1)
      BY <1>2
    <3>2. SetClock(On(0, 0, h), 1) = On(0, 1, Append(h, LevelOf(0)))
      BY <1>4, MovesAre
    <3>3. Append(h, LevelOf(0)) = h \o Lo
      BY <1>3
    <3> QED
      BY <3>1, <3>2, <3>3
  <2> QED
    BY <1>1, <1>4, <2>1, MoveSays
<1>15. Says(<<5>>, {<<0, 1>>}, {<<1, 1>>}, Stop)
  <2>1. ASSUME NEW h \in Seq(Sounds)
        PROVE  Plays(On(0, 1, h), 5) = On(1, 1, h \o Stop)
    <3>1. Plays(On(0, 1, h), 5) = SetData(On(0, 1, h), 1)
      BY <1>2
    <3>2. SetData(On(0, 1, h), 1) = On(1, 1, Append(h, "stop"))
      BY <1>4, MovesAre
    <3>3. Append(h, "stop") = h \o Stop
      BY <1>3
    <3> QED
      BY <3>1, <3>2, <3>3
  <2> QED
    BY <1>1, <1>4, <2>1, MoveSays
<1> QED
  BY <1>5, <1>6, <1>7, <1>8, <1>9, <1>10,
     <1>11, <1>12, <1>13, <1>14, <1>15
     DEF Free, Held, Silence, AStart, Stop, High, Lo

(* A start on a free bus, and one while the clock is low: it rises once      *)
(* more.  A stop: the same.                                                  *)
LEMMA StartsSay ==
    /\ Says(bus_start, Free, {<<0, 0>>}, <<"start">>)
    /\ Says(bus_start, Low, {<<0, 0>>}, <<"high", "start">>)
    /\ Says(bus_stop, Low, Free, <<"low", "stop">>)
<1> DEFINE Silence == <<>>
           AStart == <<"start">>
           Stop == <<"stop">>
           High == <<"high">>
           Lo == <<"low">>
<1>1. /\ Silence \in Seq(Sounds) /\ AStart \in Seq(Sounds) /\ Stop \in Seq(Sounds)
      /\ High \in Seq(Sounds) /\ Lo \in Seq(Sounds)
  BY DEF Sounds
<1>2. /\ Silence \o (Silence \o (AStart \o Silence)) = AStart
      /\ Silence \o (High \o (AStart \o Silence)) = <<"high", "start">>
      /\ Silence \o (Lo \o Stop) = <<"low", "stop">>
  <2>1. High \o AStart = <<"high", "start">> /\ Lo \o Stop = <<"low", "stop">>
    BY Join11
  <2>2. /\ Silence \o (Silence \o (AStart \o Silence)) = AStart
        /\ Silence \o (High \o (AStart \o Silence)) = High \o AStart
        /\ Silence \o (Lo \o Stop) = Lo \o Stop
    <3>1. \A h \in Seq(Sounds) : Silence \o h = h /\ h \o Silence = h
      OBVIOUS
    <3>2. High \o AStart \in Seq(Sounds) /\ Lo \o Stop \in Seq(Sounds)
      BY <1>1, ConcatProperties
    <3> HIDE DEF Silence, AStart, High, Lo, Stop
    <3> QED
      BY <1>1, <3>1, <3>2
  <2> QED
    BY <2>1, <2>2
<1>3. /\ bus_start = <<5>> \o (<<3>> \o (<<4>> \o <<2>>))
      /\ bus_stop = <<4>> \o (<<3>> \o <<5>>)
  BY Join11, Join12, Join13
     DEF bus_start, bus_stop, I_DATA_H, I_CLOCK_H, I_DATA_L, I_CLOCK_L
<1>4. /\ Says(<<5>>, Free, Free, Silence) /\ Says(<<3>>, Free, Free, Silence)
      /\ Says(<<4>>, Free, Held, AStart) /\ Says(<<2>>, Held, {<<0, 0>>}, Silence)
      /\ Says(<<5>>, {<<0, 0>>}, {<<1, 0>>}, Silence)
      /\ Says(<<5>>, {<<1, 0>>}, {<<1, 0>>}, Silence)
      /\ Says(<<3>>, {<<1, 0>>}, Free, High)
      /\ Says(<<4>>, {<<0, 0>>}, {<<0, 0>>}, Silence)
      /\ Says(<<4>>, {<<1, 0>>}, {<<0, 0>>}, Silence)
      /\ Says(<<3>>, {<<0, 0>>}, Held, Lo) /\ Says(<<5>>, Held, Free, Stop)
  BY MovesSay
<1> HIDE DEF Silence, AStart, Stop, High, Lo
<1>5. Says(<<5>>, Low, {<<1, 0>>}, Silence) /\ Says(<<4>>, Low, {<<0, 0>>}, Silence)
  BY <1>4 DEF Says, Low
<1>6. Says(<<4>> \o <<2>>, Free, {<<0, 0>>}, AStart \o Silence)
  BY <1>4, SaysOn
<1>7. /\ Says(<<3>> \o (<<4>> \o <<2>>), Free, {<<0, 0>>}, Silence \o (AStart \o Silence))
      /\ Says(<<3>> \o (<<4>> \o <<2>>), {<<1, 0>>}, {<<0, 0>>}, High \o (AStart \o Silence))
  BY <1>4, <1>6, SaysOn
<1>8. /\ Says(<<5>> \o (<<3>> \o (<<4>> \o <<2>>)), Free, {<<0, 0>>},
              Silence \o (Silence \o (AStart \o Silence)))
      /\ Says(<<5>> \o (<<3>> \o (<<4>> \o <<2>>)), Low, {<<0, 0>>},
              Silence \o (High \o (AStart \o Silence)))
  BY <1>4, <1>5, <1>7, SaysOn
<1>9. Says(<<3>> \o <<5>>, {<<0, 0>>}, Free, Lo \o Stop)
  BY <1>4, SaysOn
<1>10. Says(<<4>> \o (<<3>> \o <<5>>), Low, Free, Silence \o (Lo \o Stop))
  BY <1>5, <1>9, SaysOn
<1> QED
  BY <1>2, <1>3, <1>8, <1>10 DEF AStart

-----------------------------------------------------------------------------
(* The bits of a byte, and then the listener's answer.                       *)
LEMMA ByteSays ==
    ASSUME NEW b
    PROVE  Says([i \in 1 .. 8 |-> IF BitOf(b, i) = 1 THEN I_DATA_H_NOP ELSE I_DATA_L_NOP]
                    \o <<I_DATA_H_ACK0>>,
                Low, Low,
                [i \in 1 .. 8 |-> LevelOf(BitOf(b, i))] \o <<"high">>)
<1> DEFINE p == [i \in 1 .. 8 |-> IF BitOf(b, i) = 1 THEN I_DATA_H_NOP ELSE I_DATA_L_NOP]
           x == [i \in 1 .. 8 |-> LevelOf(BitOf(b, i))]
           pp == [i \in 1 .. 8 |-> <<p[i]>>]
           xx == [i \in 1 .. 8 |-> <<x[i]>>]
<1>1. p \in [1 .. 8 -> Code] /\ x \in [1 .. 8 -> Sounds]
  BY DEF Code, Sounds, LevelOf, I_DATA_H_NOP, I_DATA_L_NOP
<1>2. \A i \in 1 .. 8 : (p[i] = 12 /\ x[i] = "high") \/ (p[i] = 8 /\ x[i] = "low")
  BY DEF LevelOf, I_DATA_H_NOP, I_DATA_L_NOP
<1> HIDE DEF p, x
<1>3. \A i \in 1 .. 8 : Says(<<p[i]>>, Low, Low, <<x[i]>>)
  BY <1>2, NopsSay
<1>4. FlattenSeq(pp) = p /\ FlattenSeq(xx) = x
  BY <1>1, FlattenSingles
<1>5. /\ pp \in [1 .. 8 -> Seq(Code)] /\ xx \in [1 .. 8 -> Seq(Sounds)]
      /\ \A i \in 1 .. 8 : Says(pp[i], Low, Low, xx[i])
  BY <1>1, <1>3
<1>6. Low \subseteq Pairs
  BY DEF Low, Pairs
<1> HIDE DEF pp, xx
<1>7. Says(p, Low, Low, x)
  BY <1>4, <1>5, <1>6, SaysAll
<1>8. Says(p \o <<14>>, Low, Low, x \o <<"high">>)
  BY <1>7, NopsSay, SaysOn
<1> QED
  BY <1>8 DEF p, x, I_DATA_H_ACK0

(* Bytes, one after the other.                                               *)
LEMMA BytesSay ==
    ASSUME NEW bytes \in Seq(Byte)
    PROVE  Says(bus_write(bytes), Low, Low, Sent(bytes))
<1> DEFINE n == Len(bytes)
           P(b) == [i \in 1 .. 8 |-> IF BitOf(b, i) = 1 THEN I_DATA_H_NOP ELSE I_DATA_L_NOP]
                       \o <<I_DATA_H_ACK0>>
           X(b) == [i \in 1 .. 8 |-> LevelOf(BitOf(b, i))] \o <<"high">>
           p == [k \in 1 .. n |-> P(bytes[k])]
           x == [k \in 1 .. n |-> X(bytes[k])]
<1>1. n \in Nat /\ DOMAIN bytes = 1 .. n
  BY LenProperties
<1>2. bus_write(bytes) = FlattenSeq(p) /\ Sent(bytes) = FlattenSeq(x)
  BY <1>1 DEF bus_write, Sent
<1>3. \A b : Says(P(b), Low, Low, X(b))
  BY ByteSays
<1> HIDE DEF P, X, n
<1>4. \A b : P(b) \in Seq(Code) /\ X(b) \in Seq(Sounds)
  BY <1>3 DEF Says
<1>5. /\ p \in [1 .. n -> Seq(Code)] /\ x \in [1 .. n -> Seq(Sounds)]
      /\ \A k \in 1 .. n : Says(p[k], Low, Low, x[k])
  BY <1>3, <1>4
<1>6. Low \subseteq Pairs
  BY DEF Low, Pairs
<1> HIDE DEF p, x
<1> QED
  BY <1>1, <1>2, <1>5, <1>6, SaysAll

(* Eight bits read, and the answer to whom they come from.                   *)
LEMMA ReadAllSays ==
    ASSUME NEW size \in Nat
    PROVE  Says(bus_read(size), Low, Low, ReadAll(size))
<1> DEFINE bits == [i \in 1 .. 8 |-> I_DATA_H_READ]
           heard == FlattenSeq([i \in 1 .. 8 |-> <<"high", "read">>])
           last(k) == IF k = size THEN I_DATA_H_NOP ELSE I_DATA_L_NOP
           told(k) == IF k = size THEN "high" ELSE "low"
           p == [k \in 1 .. size |-> bits \o <<last(k)>>]
           x == [k \in 1 .. size |-> heard \o <<told(k)>>]
<1>1. bus_read(size) = FlattenSeq(p) /\ ReadAll(size) = FlattenSeq(x)
  BY DEF bus_read, ReadAll
<1>2. Low \subseteq Pairs
  BY DEF Low, Pairs
<1>3. Says(bits, Low, Low, heard)
  <2> DEFINE pp == [i \in 1 .. 8 |-> <<13>>]
             xx == [i \in 1 .. 8 |-> <<"high", "read">>]
             e == [i \in 1 .. 8 |-> 13]
             One == <<"high", "read">>
  <2>1. e \in [1 .. 8 -> Code] /\ pp = [i \in 1 .. 8 |-> <<e[i]>>] /\ bits = e
    BY DEF Code, I_DATA_H_READ
  <2>2. FlattenSeq(pp) = e
    <3> HIDE DEF e, pp
    <3> QED
      BY <2>1, FlattenSingles
  <2>3. One \in Seq(Sounds) /\ <<13>> \in Seq(Code)
    BY DEF Sounds, Code
  <2>4. Says(<<13>>, Low, Low, One)
    BY ReadSays
  <2> HIDE DEF One
  <2>5. /\ pp \in [1 .. 8 -> Seq(Code)] /\ [i \in 1 .. 8 |-> One] \in [1 .. 8 -> Seq(Sounds)]
        /\ \A i \in 1 .. 8 : pp[i] = <<13>> /\ [j \in 1 .. 8 |-> One][i] = One
    BY <2>3
  <2>6. xx = [i \in 1 .. 8 |-> One]
    BY DEF One
  <2> HIDE DEF pp, xx, e
  <2>7. Says(FlattenSeq(pp), Low, Low, FlattenSeq(xx))
    BY <1>2, <2>4, <2>5, <2>6, SaysAll
  <2> QED
    BY <2>1, <2>2, <2>7 DEF xx
<1>4. \A k \in 1 .. size : Says(<<last(k)>>, Low, Low, <<told(k)>>)
  BY NopsSay DEF I_DATA_H_NOP, I_DATA_L_NOP
<1> HIDE DEF bits, heard, last, told
<1>5. \A k \in 1 .. size : Says(bits \o <<last(k)>>, Low, Low, heard \o <<told(k)>>)
  BY <1>3, <1>4, SaysOn
<1>6. \A k \in 1 .. size :
         bits \o <<last(k)>> \in Seq(Code) /\ heard \o <<told(k)>> \in Seq(Sounds)
  BY <1>5 DEF Says
<1>7. /\ p \in [1 .. size -> Seq(Code)] /\ x \in [1 .. size -> Seq(Sounds)]
      /\ \A k \in 1 .. size : Says(p[k], Low, Low, x[k])
  BY <1>5, <1>6
<1> HIDE DEF p, x
<1> QED
  BY <1>1, <1>2, <1>7, SaysAll

-----------------------------------------------------------------------------
(* A message, the first of a transaction or another one.                     *)
LEMMA MessagesSay ==
    ASSUME NEW bytes \in Seq(Byte)
    PROVE  /\ Says(Message(bytes), Free, Low, <<"start">> \o Sent(bytes))
           /\ Says(Message(bytes), Low, Low, <<"high", "start">> \o Sent(bytes))
<1>1. {<<0, 0>>} \subseteq Low
  BY DEF Low
<1> QED
  BY <1>1, StartsSay, BytesSay, SaysOn DEF Message

(* Lists of one, two or three put together.                                  *)
LEMMA FlattenFew ==
    ASSUME NEW S, NEW n \in 1 .. 3, NEW f \in [1 .. n -> Seq(S)]
    PROVE  /\ n = 1 => FlattenSeq(f) = f[1]
           /\ n = 2 => FlattenSeq(f) = f[1] \o f[2]
           /\ n = 3 => FlattenSeq(f) = (f[1] \o f[2]) \o f[3]
<1> DEFINE X(m) == FlattenSeq([i \in 1 .. m |-> f[i]])
<1>1. X(0) = <<>>
  BY DEF FlattenSeq
<1>2. \A m \in 0 .. n - 1 : X(m + 1) = X(m) \o f[m + 1]
  <2> TAKE m \in 0 .. n - 1
  <2> DEFINE y == [i \in 1 .. m + 1 |-> f[i]]
  <2>1. /\ m \in Nat /\ y \in [1 .. m + 1 -> Seq(S)]
        /\ [i \in 1 .. m |-> y[i]] = [i \in 1 .. m |-> f[i]] /\ y[m + 1] = f[m + 1]
    OBVIOUS
  <2>2. FlattenSeq(y) = FlattenSeq([i \in 1 .. m |-> y[i]]) \o y[m + 1]
    <3> HIDE DEF y
    <3> QED
      BY <2>1, FlattenMore
  <2> QED
    BY <2>1, <2>2
<1>3. X(n) = FlattenSeq(f)
  <2>1. [i \in 1 .. n |-> f[i]] = f
    OBVIOUS
  <2> QED
    BY <2>1
<1> HIDE DEF X
<1>4. f[1] \in Seq(S) /\ X(1) = f[1]
  <2>1. f[1] \in Seq(S) /\ X(1) = X(0) \o f[1]
    BY <1>2
  <2>2. <<>> \o f[1] = f[1]
    BY <2>1
  <2> QED
    BY <1>1, <2>1, <2>2
<1>5. ASSUME n = 2 \/ n = 3
      PROVE  X(2) = f[1] \o f[2]
  <2>1. 1 \in 0 .. n - 1
    BY <1>5
  <2>2. X(1 + 1) = X(1) \o f[1 + 1]
    BY <1>2, <2>1
  <2>3. 1 + 1 = 2
    OBVIOUS
  <2> QED
    BY <1>4, <2>2, <2>3
<1>6. ASSUME n = 3
      PROVE  X(3) = (f[1] \o f[2]) \o f[3]
  <2>1. 2 \in 0 .. n - 1
    BY <1>6
  <2>2. X(2 + 1) = X(2) \o f[2 + 1]
    BY <1>2, <2>1
  <2>3. 2 + 1 = 3
    OBVIOUS
  <2> QED
    BY <1>5, <1>6, <2>2, <2>3
<1>7. ASSUME n = 1
      PROVE  FlattenSeq(f) = f[1]
  BY <1>3, <1>4, <1>7
<1>8. ASSUME n = 2
      PROVE  FlattenSeq(f) = f[1] \o f[2]
  BY <1>3, <1>5, <1>8
<1>9. ASSUME n = 3
      PROVE  FlattenSeq(f) = (f[1] \o f[2]) \o f[3]
  BY <1>3, <1>6, <1>9
<1> QED
  BY <1>7, <1>8, <1>9, Zenon

(* What a transaction of up to three messages is.                            *)
LEMMA TransactionIs ==
    ASSUME NEW a \in Seq(Byte), NEW b \in Seq(Byte), NEW c \in Seq(Byte), NEW size
    PROVE  LET A == <<"start">> \o Sent(a)
               B == <<"high", "start">> \o Sent(b)
               C == <<"high", "start">> \o Sent(c)
           IN  /\ Transaction(<<a>>, size) = A \o ReadAll(size) \o <<"low", "stop">>
               /\ Transaction(<<a, b>>, size) =
                     (A \o B) \o ReadAll(size) \o <<"low", "stop">>
               /\ Transaction(<<a, b, c>>, size) =
                     ((A \o B) \o C) \o ReadAll(size) \o <<"low", "stop">>
<1> DEFINE AStart == <<"start">>
           High == <<"high">>
           Again == <<"high", "start">>
           sa == Sent(a)
           sb == Sent(b)
           sc == Sent(c)
           A == AStart \o sa
           B == Again \o sb
           C == Again \o sc
           Part(m, l) == (IF m = 1 THEN <<>> ELSE High) \o AStart \o Sent(l[m])
           End == <<"low", "stop">>
           F(l) == FlattenSeq([m \in DOMAIN l |-> Part(m, l)])
<1>1. sa \in Seq(Sounds) /\ sb \in Seq(Sounds) /\ sc \in Seq(Sounds)
  BY BytesSay DEF Says
<1>2. AStart \in Seq(Sounds) /\ High \in Seq(Sounds) /\ Again \in Seq(Sounds)
  BY DEF Sounds
<1>3. High \o AStart = Again /\ <<>> \o AStart = AStart
  BY <1>2, Join11
<1>4. \A l : Transaction(l, size) = F(l) \o ReadAll(size) \o End
  BY DEF Transaction
<1>5. /\ \A l : Part(1, l) = AStart \o Sent(l[1])
      /\ \A l : Part(2, l) = Again \o Sent(l[2]) /\ Part(3, l) = Again \o Sent(l[3])
  BY <1>3
<1> HIDE DEF AStart, High, Again, sa, sb, sc, Part
<1>6. A \in Seq(Sounds) /\ B \in Seq(Sounds) /\ C \in Seq(Sounds)
  BY <1>1, <1>2
<1>7. F(<<a>>) = A
  <2> DEFINE f == [m \in DOMAIN <<a>> |-> Part(m, <<a>>)]
  <2>1. DOMAIN <<a>> = 1 .. 1 /\ <<a>>[1] = a
    OBVIOUS
  <2>2. Part(1, <<a>>) = A
    BY <1>5, <2>1 DEF sa
  <2> HIDE DEF A
  <2>3. f \in [1 .. 1 -> Seq(Sounds)] /\ f[1] = A
    <3>1. ASSUME NEW m \in 1 .. 1
          PROVE  f[m] = A
      BY <2>1, <2>2
    <3> QED
      BY <1>6, <2>1, <3>1
  <2> HIDE DEF f
  <2>4. FlattenSeq(f) = f[1]
    <3>1. 1 \in 1 .. 3
      OBVIOUS
    <3> QED
      BY <2>3, <3>1, FlattenFew, Zenon
  <2> QED
    BY <2>3, <2>4 DEF f
<1>8. F(<<a, b>>) = A \o B
  <2> DEFINE l == <<a, b>>
             f == [m \in DOMAIN l |-> Part(m, l)]
  <2>1. DOMAIN l = 1 .. 2 /\ l[1] = a /\ l[2] = b
    OBVIOUS
  <2>2. Part(1, l) = A /\ Part(2, l) = B
    BY <1>5, <2>1 DEF sa, sb
  <2> HIDE DEF A, B, l
  <2>3. f \in [1 .. 2 -> Seq(Sounds)] /\ f[1] = A /\ f[2] = B
    <3>1. f[1] = A /\ f[2] = B
      BY <2>1, <2>2
    <3>2. \A m \in 1 .. 2 : f[m] \in Seq(Sounds)
      <4>1. \A m \in 1 .. 2 : m = 1 \/ m = 2
        OBVIOUS
      <4> HIDE DEF f
      <4> QED
        BY <1>6, <3>1, <4>1
    <3>3. f = [m \in 1 .. 2 |-> f[m]]
      BY <2>1
    <3> QED
      BY <3>1, <3>2, <3>3
  <2> HIDE DEF f
  <2>4. FlattenSeq(f) = f[1] \o f[2]
    <3>1. 2 \in 1 .. 3
      OBVIOUS
    <3> QED
      BY <2>3, <3>1, FlattenFew, Zenon
  <2> QED
    BY <2>3, <2>4 DEF f, l
<1>9. F(<<a, b, c>>) = (A \o B) \o C
  <2> DEFINE l == <<a, b, c>>
             f == [m \in DOMAIN l |-> Part(m, l)]
  <2>1. DOMAIN l = 1 .. 3 /\ l[1] = a /\ l[2] = b /\ l[3] = c
    OBVIOUS
  <2>2. Part(1, l) = A /\ Part(2, l) = B /\ Part(3, l) = C
    BY <1>5, <2>1 DEF sa, sb, sc
  <2> HIDE DEF A, B, C, l
  <2>3. f \in [1 .. 3 -> Seq(Sounds)] /\ f[1] = A /\ f[2] = B /\ f[3] = C
    <3>1. f[1] = A /\ f[2] = B /\ f[3] = C
      BY <2>1, <2>2
    <3>2. \A m \in 1 .. 3 : f[m] \in Seq(Sounds)
      <4>1. \A m \in 1 .. 3 : m = 1 \/ m = 2 \/ m = 3
        OBVIOUS
      <4> HIDE DEF f
      <4> QED
        BY <1>6, <3>1, <4>1
    <3>3. f = [m \in 1 .. 3 |-> f[m]]
      BY <2>1
    <3> QED
      BY <3>1, <3>2, <3>3
  <2> HIDE DEF f
  <2>4. FlattenSeq(f) = (f[1] \o f[2]) \o f[3]
    <3>1. 3 \in 1 .. 3
      OBVIOUS
    <3> QED
      BY <2>3, <3>1, FlattenFew, Zenon
  <2> QED
    BY <2>3, <2>4 DEF f, l
<1> HIDE DEF F
<1>10. /\ Transaction(<<a>>, size) = A \o ReadAll(size) \o End
       /\ Transaction(<<a, b>>, size) = (A \o B) \o ReadAll(size) \o End
       /\ Transaction(<<a, b, c>>, size) = ((A \o B) \o C) \o ReadAll(size) \o End
  BY <1>4, <1>7, <1>8, <1>9
<1> QED
  BY <1>10 DEF AStart, Again, sa, sb, sc

(* The transactions the transfers make.                                      *)
LEMMA TransfersSay ==
    ASSUME NEW a \in Seq(Byte), NEW b \in Seq(Byte), NEW c \in Seq(Byte),
           NEW size \in Nat
    PROVE  /\ Says(Message(a) \o bus_stop, Free, Free, Transaction(<<a>>, 0))
           /\ Says(Message(a) \o Message(b) \o bus_read(size) \o bus_stop, Free, Free,
                   Transaction(<<a, b>>, size))
           /\ Says(Message(a) \o Message(b) \o Message(c) \o bus_read(size) \o bus_stop,
                   Free, Free, Transaction(<<a, b, c>>, size))
<1> DEFINE A == <<"start">> \o Sent(a)
           B == <<"high", "start">> \o Sent(b)
           C == <<"high", "start">> \o Sent(c)
           R == ReadAll(size)
           End == <<"low", "stop">>
<1>1. /\ Says(Message(a), Free, Low, A) /\ Says(Message(b), Low, Low, B)
      /\ Says(Message(c), Low, Low, C)
  BY MessagesSay
<1>2. Says(bus_read(size), Low, Low, R)
  BY ReadAllSays
<1>3. Says(bus_stop, Low, Free, End)
  BY StartsSay
<1>4. A \o ReadAll(0) = A
  <2>1. ReadAll(0) = <<>>
    BY DEF ReadAll, FlattenSeq
  <2>2. A \in Seq(Sounds)
    BY <1>1 DEF Says
  <2> HIDE DEF A
  <2> QED
    BY <2>1, <2>2
<1>5. /\ Transaction(<<a>>, 0) = A \o ReadAll(0) \o End
      /\ Transaction(<<a, b>>, size) = (A \o B) \o R \o End
      /\ Transaction(<<a, b, c>>, size) = ((A \o B) \o C) \o R \o End
  <2>1. \A z : /\ Transaction(<<a>>, z) = A \o ReadAll(z) \o End
               /\ Transaction(<<a, b>>, z) = (A \o B) \o ReadAll(z) \o End
               /\ Transaction(<<a, b, c>>, z) = ((A \o B) \o C) \o ReadAll(z) \o End
    BY TransactionIs, Zenon
  <2> QED
    BY <2>1, Zenon
<1> HIDE DEF A, B, C, R, End
<1>6. Says(Message(a) \o Message(b), Free, Low, A \o B)
  BY <1>1, SaysOn
<1>7. Says(Message(a) \o Message(b) \o Message(c), Free, Low, (A \o B) \o C)
  BY <1>1, <1>6, SaysOn
<1>8. /\ Says(Message(a) \o Message(b) \o bus_read(size), Free, Low, (A \o B) \o R)
      /\ Says(Message(a) \o Message(b) \o Message(c) \o bus_read(size), Free, Low,
              ((A \o B) \o C) \o R)
  BY <1>2, <1>6, <1>7, SaysOn
<1>9. Says(Message(a) \o bus_stop, Free, Free, A \o End)
  BY <1>1, <1>3, SaysOn
<1>10. /\ Says(Message(a) \o Message(b) \o bus_read(size) \o bus_stop, Free, Free,
               (A \o B) \o R \o End)
       /\ Says(Message(a) \o Message(b) \o Message(c) \o bus_read(size) \o bus_stop,
               Free, Free, ((A \o B) \o C) \o R \o End)
  BY <1>3, <1>8, SaysOn
<1> QED
  BY <1>4, <1>5, <1>9, <1>10

-----------------------------------------------------------------------------
(* Bytes of addresses.                                                       *)
LEMMA AddressBytes ==
    ASSUME NEW a \in Slave
    PROVE  2 * a \in Byte /\ 2 * a + 1 \in Byte /\ TC_THROUGH \in Byte
BY DEF Slave, Byte, TC_THROUGH

(* Each step of a program is heard as what is wanted of it.                  *)
LEMMA StepSays ==
    ASSUME NEW r \in Steps
    PROVE  Says(Insts(r), Free, Free, Wanted(r))
<1> DEFINE w == 2 * r.tc
           v == w + 1
           u == 2 * r.tuner
           T == TC_THROUGH
<1>1. CASE /\ r.op = "tc_write" /\ r.tc \in Slave /\ r.addr \in Byte
           /\ r.data \in Seq(Byte)
  <2> DEFINE m == <<w, r.addr>> \o r.data
  <2>1. m \in Seq(Byte)
    BY <1>1, AddressBytes
  <2>2. Insts(r) = Message(m) \o bus_stop
    BY <1>1 DEF Insts, tc_write
  <2>3. Wanted(r) = Transaction(<<m>>, 0)
    BY <1>1 DEF Wanted
  <2> HIDE DEF m
  <2> QED
    BY <2>1, <2>2, <2>3, TransfersSay
<1>2. CASE /\ r.op = "tc_read" /\ r.tc \in Slave /\ r.addr \in Byte /\ r.size \in Nat
  <2> DEFINE m == <<w, r.addr>>
             n == <<v>>
  <2>1. m \in Seq(Byte) /\ n \in Seq(Byte)
    BY <1>2, AddressBytes
  <2>2. Insts(r) = Message(m) \o Message(n) \o bus_read(r.size) \o bus_stop
    BY <1>2 DEF Insts, tc_read
  <2>3. Wanted(r) = Transaction(<<m, n>>, r.size)
    BY <1>2 DEF Wanted
  <2> HIDE DEF m, n
  <2> QED
    BY <1>2, <2>1, <2>2, <2>3, TransfersSay
<1>3. CASE /\ r.op = "read_tuner_without_addr" /\ r.tc \in Slave /\ r.tuner \in Slave
           /\ r.size \in Nat
  <2> DEFINE m == <<w, T, u + 1>>
             n == <<v>>
  <2>1. m \in Seq(Byte) /\ n \in Seq(Byte)
    BY <1>3, AddressBytes
  <2>2. Insts(r) = Message(m) \o Message(n) \o bus_read(r.size) \o bus_stop
    BY <1>3 DEF Insts, read_tuner_without_addr
  <2>3. Wanted(r) = Transaction(<<<<w, T>> \o <<u + 1>>, n>>, r.size)
    BY <1>3 DEF Wanted
  <2>4. <<w, T>> \o <<u + 1>> = m
    BY Join21
  <2> HIDE DEF m, n
  <2> QED
    BY <1>3, <2>1, <2>2, <2>3, <2>4, TransfersSay
<1>4. CASE /\ r.op = "write_tuner_without_addr" /\ r.tc \in Slave /\ r.tuner \in Slave
           /\ r.data \in Seq(Byte)
  <2> DEFINE m == <<w, T, u>> \o r.data
  <2>1. m \in Seq(Byte)
    BY <1>4, AddressBytes
  <2>2. Insts(r) = Message(m) \o bus_stop
    BY <1>4 DEF Insts, write_tuner_without_addr
  <2>3. Wanted(r) = Transaction(<<<<w, T>> \o <<u>> \o r.data>>, 0)
    BY <1>4 DEF Wanted
  <2>4. <<w, T>> \o <<u>> = <<w, T, u>>
    BY Join21
  <2>5. <<w, T>> \o <<u>> \o r.data = m
    BY <2>4
  <2> HIDE DEF m
  <2> QED
    BY <2>1, <2>2, <2>3, <2>5, TransfersSay
<1>5. CASE /\ r.op = "read_tuner" /\ r.tc \in Slave /\ r.tuner \in Slave
           /\ r.addr \in Byte /\ r.size \in Nat
  <2> DEFINE l == <<w, T, u, r.addr>>
             m == <<w, T, u + 1>>
             n == <<v>>
  <2>1. l \in Seq(Byte) /\ m \in Seq(Byte) /\ n \in Seq(Byte)
    BY <1>5, AddressBytes
  <2>2. Insts(r) = Message(l) \o Message(m) \o Message(n) \o bus_read(r.size) \o bus_stop
    BY <1>5 DEF Insts, read_tuner
  <2>3. Wanted(r) =
           Transaction(<<<<w, T>> \o <<u, r.addr>>, <<w, T>> \o <<u + 1>>, n>>, r.size)
    BY <1>5 DEF Wanted
  <2>4. <<w, T>> \o <<u, r.addr>> = l /\ <<w, T>> \o <<u + 1>> = m
    BY Join21, Join22
  <2> HIDE DEF l, m, n
  <2>5. Wanted(r) = Transaction(<<l, m, n>>, r.size)
    BY <2>3, <2>4
  <2>6. Says(Message(l) \o Message(m) \o Message(n) \o bus_read(r.size) \o bus_stop,
             Free, Free, Transaction(<<l, m, n>>, r.size))
    BY <1>5, <2>1, TransfersSay
  <2> QED
    BY <2>2, <2>5, <2>6
<1>6. CASE /\ r.op = "write_tuner" /\ r.tc \in Slave /\ r.tuner \in Slave
           /\ r.addr \in Byte /\ r.data \in Seq(Byte)
  <2> DEFINE m == <<w, T, u, r.addr>> \o r.data
  <2>1. m \in Seq(Byte)
    BY <1>6, AddressBytes
  <2>2. Insts(r) = Message(m) \o bus_stop
    BY <1>6 DEF Insts, write_tuner
  <2>3. Wanted(r) = Transaction(<<<<w, T>> \o <<u, r.addr>> \o r.data>>, 0)
    BY <1>6 DEF Wanted
  <2>4. <<w, T>> \o <<u, r.addr>> = <<w, T, u, r.addr>>
    BY Join22
  <2>5. <<w, T>> \o <<u, r.addr>> \o r.data = m
    BY <2>4
  <2> HIDE DEF m
  <2> QED
    BY <2>1, <2>2, <2>3, <2>5, TransfersSay
<1>7. CASE r.op = "sleep" /\ r.size \in Nat
  <2> DEFINE p == bus_sleep(r.size)
             x == <<>>
  <2>1. Insts(r) = p /\ Wanted(r) = x
    BY <1>7 DEF Insts, Wanted
  <2>2. p \in Seq(Code) /\ x \in Seq(Sounds)
    BY <1>7 DEF bus_sleep, I_SLEEP, Code
  <2>3. \A h \in Seq(Sounds) : h \o x = h
    OBVIOUS
  <2>4. \A s \in Lines : Leads(p, s, s)
    BY <1>7, LeadsAsleep
  <2> HIDE DEF p, x
  <2>5. ASSUME NEW l \in Free, NEW h \in Seq(Sounds)
        PROVE  Leads(p, On(l[1], l[2], h), On(l[1], l[2], h \o x))
    <3>1. l[1] \in {0, 1} /\ l[2] \in {0, 1}
      BY DEF Free
    <3> QED
      BY <2>3, <2>4, <3>1, OnIsLines
  <2>6. Free \subseteq Pairs
    BY DEF Free, Pairs
  <2>7. Says(p, Free, Free, x)
    BY <2>2, <2>5, <2>6 DEF Says
  <2> QED
    BY <2>1, <2>7
<1>8. \/ r \in [op : {"tc_write"}, tc : Slave, addr : Byte, data : Seq(Byte)]
      \/ r \in [op : {"tc_read"}, tc : Slave, addr : Byte, size : Nat \ {0}]
      \/ r \in [op : {"read_tuner_without_addr"}, tc : Slave, tuner : Slave,
                size : Nat \ {0}]
      \/ r \in [op : {"write_tuner_without_addr"}, tc : Slave, tuner : Slave,
                data : Seq(Byte)]
      \/ r \in [op : {"read_tuner"}, tc : Slave, tuner : Slave, addr : Byte,
                size : Nat \ {0}]
      \/ r \in [op : {"write_tuner"}, tc : Slave, tuner : Slave, addr : Byte,
                data : Seq(Byte)]
      \/ r \in [op : {"sleep"}, size : Nat]
  BY DEF Steps
<1>9. \/ /\ r.op = "tc_write" /\ r.tc \in Slave /\ r.addr \in Byte
         /\ r.data \in Seq(Byte)
      \/ /\ r.op = "tc_read" /\ r.tc \in Slave /\ r.addr \in Byte /\ r.size \in Nat
      \/ /\ r.op = "read_tuner_without_addr" /\ r.tc \in Slave /\ r.tuner \in Slave
         /\ r.size \in Nat
      \/ /\ r.op = "write_tuner_without_addr" /\ r.tc \in Slave /\ r.tuner \in Slave
         /\ r.data \in Seq(Byte)
      \/ /\ r.op = "read_tuner" /\ r.tc \in Slave /\ r.tuner \in Slave
         /\ r.addr \in Byte /\ r.size \in Nat
      \/ /\ r.op = "write_tuner" /\ r.tc \in Slave /\ r.tuner \in Slave
         /\ r.addr \in Byte /\ r.data \in Seq(Byte)
      \/ r.op = "sleep" /\ r.size \in Nat
  BY <1>8
<1> QED
  BY <1>1, <1>2, <1>3, <1>4, <1>5, <1>6, <1>7, <1>9

(* And all of them.                                                          *)
LEMMA StepsSay ==
    ASSUME NEW steps \in Seq(Steps)
    PROVE  Says(FlattenSeq([n \in DOMAIN steps |-> Insts(steps[n])]), Free, Free,
                FlattenSeq([n \in DOMAIN steps |-> Wanted(steps[n])]))
<1> DEFINE n == Len(steps)
           p == [k \in DOMAIN steps |-> Insts(steps[k])]
           x == [k \in DOMAIN steps |-> Wanted(steps[k])]
<1>1. n \in Nat /\ DOMAIN steps = 1 .. n /\ \A k \in 1 .. n : steps[k] \in Steps
  BY LenProperties
<1>2. \A k \in 1 .. n : Says(Insts(steps[k]), Free, Free, Wanted(steps[k]))
  BY <1>1, StepSays
<1>3. \A k \in 1 .. n : Insts(steps[k]) \in Seq(Code) /\ Wanted(steps[k]) \in Seq(Sounds)
  BY <1>2 DEF Says
<1> HIDE DEF n
<1>4. /\ p \in [1 .. n -> Seq(Code)] /\ x \in [1 .. n -> Seq(Sounds)]
      /\ \A k \in 1 .. n : Says(p[k], Free, Free, x[k])
  BY <1>1, <1>2, <1>3
<1>5. Free \subseteq Pairs
  BY DEF Free, Pairs
<1> HIDE DEF p, x
<1>6. Says(FlattenSeq(p), Free, Free, FlattenSeq(x))
  BY <1>1, <1>4, <1>5, SaysAll
<1> QED
  BY <1>6 DEF p, x

-----------------------------------------------------------------------------
(* In the memory of the board.                                               *)

(* The instructions of a program, but for its end, and what ought to be      *)
(* heard of it.                                                              *)
Asked(steps) == FlattenSeq([n \in DOMAIN steps |-> Insts(steps[n])])
Due(steps) == FlattenSeq([n \in DOMAIN steps |-> Wanted(steps[n])])

(* Half byte k of a memory.                                                  *)
Half(mem, k) == (mem[k \div 2] \div (IF k % 2 = 0 THEN 1 ELSE 16)) % 16

(* The memory holds the instructions of p, from its beginning.               *)
Holds(mem, p) == \A k \in 0 .. Len(p) - 1 : Half(mem, k) = p[k + 1]

(* The program has the instructions asked for, and then an end; it fills     *)
(* its last byte.                                                            *)
LEMMA ProgramEnds ==
    ASSUME NEW steps \in Seq(Steps)
    PROVE  /\ Asked(steps) \in Seq(Code)
           /\ Program(steps) \in Seq(0 .. 15)
           /\ Len(Program(steps)) % 2 = 0
           /\ Len(Program(steps)) > Len(Asked(steps))
           /\ \A k \in 1 .. Len(Asked(steps)) : Program(steps)[k] = Asked(steps)[k]
           /\ Program(steps)[Len(Asked(steps)) + 1] = I_END
<1> DEFINE s == Asked(steps)
           n == Len(s)
           e == Append(s, I_END)
           f == Append(e, I_END)
<1>1. Program(steps) = IF Len(e) % 2 = 1 THEN f ELSE e
  BY DEF Program, bus_end, Asked
<1>2. s \in Seq(Code)
  BY StepsSay DEF Asked, Says
<1>3. n \in Nat /\ s \in Seq(0 .. 15) /\ I_END \in 0 .. 15
  BY <1>2 DEF Code, I_END
<1> HIDE DEF s
<1>4. /\ e \in Seq(0 .. 15) /\ Len(e) = n + 1 /\ e[n + 1] = I_END
      /\ \A k \in 1 .. n : e[k] = s[k]
  BY <1>3
<1> HIDE DEF e
<1>5. /\ f \in Seq(0 .. 15) /\ Len(f) = n + 2
      /\ \A k \in 1 .. n + 1 : f[k] = e[k]
  BY <1>3, <1>4
<1> HIDE DEF f, n
<1>6. CASE Len(e) % 2 = 1
  <2>1. Program(steps) = f
    BY <1>1, <1>6
  <2>2. Len(f) % 2 = 0 /\ Len(f) > n
    <3>1. n \in Nat /\ Len(e) = n + 1 /\ Len(f) = n + 2
      BY <1>3, <1>4, <1>5
    <3>2. \A m \in Nat : (m + 1) % 2 = 1 => (m + 2) % 2 = 0 /\ m + 2 > m
      OBVIOUS
    <3> QED
      BY <1>6, <3>1, <3>2
  <2>3. \A k \in 1 .. n : f[k] = s[k]
    BY <1>3, <1>4, <1>5
  <2>4. f[n + 1] = I_END
    BY <1>3, <1>4, <1>5
  <2> QED
    BY <1>2, <1>5, <2>1, <2>2, <2>3, <2>4 DEF s, n
<1>7. CASE Len(e) % 2 # 1
  <2>1. Program(steps) = e /\ Len(e) % 2 = 0 /\ Len(e) > n
    BY <1>1, <1>3, <1>4, <1>7
  <2> QED
    BY <1>2, <1>4, <2>1 DEF s, n
<1> QED
  BY <1>6, <1>7

(* Two instructions to a byte, and they come out again.                      *)
LEMMA HalvesOf ==
    ASSUME NEW a \in 0 .. 15, NEW b \in 0 .. 15
    PROVE  ((a + 16 * b) \div 1) % 16 = a /\ ((a + 16 * b) \div 16) % 16 = b
OBVIOUS

(* A program that fits is whole in the memory when it has been copied.       *)
LEMMA CopyHolds ==
    ASSUME NEW p \in Seq(0 .. 15), Len(p) % 2 = 0, Fits(p), MemoryBytes \in Nat,
           NEW mem, DOMAIN mem = 0 .. MemoryBytes - 1
    PROVE  /\ DOMAIN i2c_copy(mem, 0, Packed(p)) = 0 .. MemoryBytes - 1
           /\ Holds(i2c_copy(mem, 0, Packed(p)), p)
<1> DEFINE n == Len(p) \div 2
           image == Packed(p)
           new == i2c_copy(mem, 0, image)
<1>1. Len(p) \in Nat /\ n \in Nat /\ Len(p) = 2 * n /\ n < 4096 /\ n <= MemoryBytes
  BY DEF Fits, PT3_BUS_MAX_INST
<1>2. (n \div 4096) * 4096 = 0
  BY <1>1
<1>3. /\ image = [a \in 1 .. n |-> p[2 * a - 1] + 16 * p[2 * a]]
  <2>1. image = [a \in 1 .. n - (n \div 4096) * 4096 |->
                   p[2 * ((n \div 4096) * 4096 + a) - 1]
                     + 16 * p[2 * ((n \div 4096) * 4096 + a)]]
    BY DEF Packed, PT3_BUS_MAX_INST
  <2> DEFINE z == (n \div 4096) * 4096
  <2>2. image = [a \in 1 .. n - z |-> p[2 * (z + a) - 1] + 16 * p[2 * (z + a)]]
    BY <2>1
  <2>3. z = 0
    BY <1>2
  <2> HIDE DEF z, image, n
  <2>4. image = [a \in 1 .. n - 0 |-> p[2 * (0 + a) - 1] + 16 * p[2 * (0 + a)]]
    BY <2>2, <2>3
  <2> QED
    BY <1>1, <2>4
<1>4. CopyTo(0) = 0
  BY DEF CopyTo, DATA_OFFSET
<1>5. Len(image) = n
  BY <1>1, <1>3
<1>6. /\ DOMAIN new = 0 .. MemoryBytes - 1
      /\ \A a \in 0 .. n - 1 : new[a] = p[2 * a + 1] + 16 * p[2 * a + 2]
  <2>1. new = [a \in DOMAIN mem |->
                 IF a \in CopyTo(0) .. CopyTo(0) + Len(image) - 1
                 THEN image[a - CopyTo(0) + 1] ELSE mem[a]]
    BY DEF i2c_copy
  <2> HIDE DEF new, image, n
  <2>2. new = [a \in 0 .. MemoryBytes - 1 |->
                 IF a \in 0 .. n - 1 THEN image[a + 1] ELSE mem[a]]
    BY <1>1, <1>4, <1>5, <2>1
  <2>3. ASSUME NEW a \in 0 .. n - 1
        PROVE  new[a] = p[2 * a + 1] + 16 * p[2 * a + 2]
    <3>1. a \in 0 .. MemoryBytes - 1 /\ a + 1 \in 1 .. n
      BY <1>1
    <3>2. new[a] = image[a + 1]
      BY <2>2, <3>1
    <3>3. image[a + 1] = p[2 * (a + 1) - 1] + 16 * p[2 * (a + 1)]
      BY <1>3, <3>1
    <3>4. 2 * (a + 1) - 1 = 2 * a + 1 /\ 2 * (a + 1) = 2 * a + 2
      OBVIOUS
    <3> QED
      BY <3>2, <3>3, <3>4
  <2> QED
    BY <2>2, <2>3
<1> HIDE DEF new, image, n
<1>7. ASSUME NEW k \in 0 .. Len(p) - 1
      PROVE  Half(new, k) = p[k + 1]
  <2> DEFINE a == k \div 2
             lo == p[2 * a + 1]
             hi == p[2 * a + 2]
  <2>1. a \in 0 .. n - 1 /\ k \in Nat
    BY <1>1
  <2>2. lo \in 0 .. 15 /\ hi \in 0 .. 15
    <3>1. 2 * a + 1 \in 1 .. Len(p) /\ 2 * a + 2 \in 1 .. Len(p)
      <4>1. \A m \in Nat : \A j \in 0 .. m - 1 :
               2 * j + 1 \in 1 .. 2 * m /\ 2 * j + 2 \in 1 .. 2 * m
        OBVIOUS
      <4> HIDE DEF a
      <4> QED
        BY <1>1, <2>1, <4>1
    <3>2. \A i \in 1 .. Len(p) : p[i] \in 0 .. 15
      BY ElementOfSeq
    <3> HIDE DEF a
    <3> QED
      BY <3>1, <3>2
  <2>3. new[a] = lo + 16 * hi
    BY <1>6, <2>1
  <2>4. CASE k % 2 = 0
    <3>1. k = 2 * a
      BY <2>1, <2>4
    <3>2. Half(new, k) = (new[a] \div 1) % 16
      BY <2>4 DEF Half
    <3> HIDE DEF a
    <3>3. lo = p[k + 1]
      BY <3>1
    <3> HIDE DEF lo, hi
    <3>4. ((lo + 16 * hi) \div 1) % 16 = lo
      BY <2>2, HalvesOf
    <3> QED
      BY <2>3, <3>2, <3>3, <3>4
  <2>5. CASE k % 2 # 0
    <3>1. k = 2 * a + 1
      BY <2>1, <2>5
    <3>2. Half(new, k) = (new[a] \div 16) % 16
      BY <2>5 DEF Half
    <3>3. k + 1 = 2 * a + 2
      BY <3>1
    <3> HIDE DEF a
    <3>4. hi = p[k + 1]
      BY <3>3
    <3> HIDE DEF lo, hi
    <3>5. ((lo + 16 * hi) \div 16) % 16 = hi
      BY <2>2, HalvesOf
    <3> QED
      BY <2>3, <3>2, <3>4, <3>5
  <2> QED
    BY <2>4, <2>5
<1> QED
  BY <1>6, <1>7 DEF Holds, new, image

-----------------------------------------------------------------------------
(* The invariant.                                                            *)

(* A thread that has the flag.                                               *)
InsideRun == {"copy", "start", "run", "release"}

CallTypes ==
    /\ call \in [Clients -> [at : {"idle", "wait"} \cup InsideRun,
                             program : Programs \cup {<<>>}]]
    /\ \A c \in Clients : call[c].at # "idle" => call[c].program \in Programs

OneInside ==
    \A c \in Clients : call[c].at \in InsideRun =>
        /\ i2c_progress = TRUE
        /\ \A d \in Clients : call[d].at \in InsideRun => d = c

(* The engine runs for a thread that waits for it, and is on the trace its   *)
(* program makes; else the bus is at rest.                                   *)
EngineRuns ==
    IF next = -1 THEN bus.sda = 1 /\ bus.scl = 1
    ELSE next \in Nat /\ \E c \in Clients : call[c].at = "run"

MemoryHolds ==
    /\ DOMAIN memory = 0 .. MemoryBytes - 1
    /\ \A c \in Clients :
          call[c].at \in {"start", "run"} => Holds(memory, Program(call[c].program))

(* The conditions t are what the steps make of a bus at rest.                *)
IsTrace(t, steps) ==
    /\ Trace(t, Asked(steps))
    /\ t[0] = On(1, 1, <<>>)
    /\ t[Len(Asked(steps))] = On(1, 1, Due(steps))

OnTrace ==
    \A c \in Clients : call[c].at = "run" /\ next # -1 =>
        /\ next <= Len(Asked(call[c].program))
        /\ \E t : IsTrace(t, call[c].program) /\ bus = t[next]

AllHeard ==
    \A c \in Clients :
        (call[c].at = "release" \/ (call[c].at = "run" /\ next = -1))
            => bus.heard = Due(call[c].program)

ProgramInv ==
    /\ CallTypes
    /\ OneInside
    /\ bus \in Lines
    /\ EngineRuns
    /\ MemoryHolds
    /\ OnTrace
    /\ AllHeard

(* Every program makes a trace.                                              *)
LEMMA HasTrace ==
    ASSUME NEW steps \in Programs
    PROVE  /\ steps \in Seq(Steps)
           /\ Asked(steps) \in Seq(Code)
           /\ \E t : IsTrace(t, steps)
<1>1. steps \in Seq(Steps)
  BY Pt3ProgramAssumption
<1>2. Says(Asked(steps), Free, Free, Due(steps))
  BY <1>1, StepsSay DEF Asked, Due
<1> DEFINE p == Asked(steps)
           x == Due(steps)
           l == <<1, 1>>
           none == <<>>
<1>3. none \in Seq(Sounds) /\ x \in Seq(Sounds) /\ p \in Seq(Code)
  BY <1>2 DEF Says
<1>4. none \o x = x
  <2> HIDE DEF x
  <2> QED
    BY <1>3
<1>5. l \in Free /\ l[1] = 1 /\ l[2] = 1 /\ \A m \in Free : m = l
  BY DEF Free
<1> HIDE DEF p, x, l, none
<1>6. \E m \in Free : Leads(p, On(l[1], l[2], none), On(m[1], m[2], none \o x))
  BY <1>2, <1>3, <1>5 DEF Says, p, x
<1>7. Leads(p, On(1, 1, none), On(1, 1, x))
  BY <1>4, <1>5, <1>6
<1>8. \E t : Trace(t, p) /\ t[0] = On(1, 1, none) /\ t[Len(p)] = On(1, 1, x)
  BY <1>7 DEF Leads
<1> QED
  BY <1>1, <1>3, <1>8 DEF p, x, none, IsTrace

(* At first nobody has the flag.                                             *)
LEMMA ProgramInitInv ==
    ASSUME ProgramInit
    PROVE  ProgramInv
<1>1. call = [c \in Clients |-> [at |-> "idle", program |-> <<>>]]
  BY DEF ProgramInit
<1>2. CallTypes
  BY <1>1 DEF CallTypes
<1>3. \A c \in Clients : call[c].at = "idle"
  BY <1>1
<1>4. OneInside /\ OnTrace /\ AllHeard
  BY <1>3 DEF OneInside, OnTrace, AllHeard, InsideRun
<1>5. bus \in Lines /\ EngineRuns
  BY DEF ProgramInit, Idle, Lines, EngineRuns
<1>6. MemoryHolds
  <2>1. DOMAIN memory = 0 .. MemoryBytes - 1
    BY DEF ProgramInit
  <2> QED
    BY <1>3, <2>1 DEF MemoryHolds
<1> QED
  BY <1>2, <1>4, <1>5, <1>6 DEF ProgramInv

(* A thread that is not at one of the places from which, or to which, the    *)
(* engine is used moves: the others keep what they had.                      *)
LEMMA CallMoves ==
    ASSUME CallTypes, NEW c \in Clients, NEW from, NEW to \in {"wait"} \cup InsideRun,
           from # "idle", Moves(c, from, to)
    PROVE  /\ CallTypes'
           /\ call'[c].at = to /\ call[c].at = from
           /\ call'[c].program = call[c].program /\ call[c].program \in Programs
           /\ \A d \in Clients \ {c} : call'[d] = call[d]
<1>1. call[c].at = from /\ call' = [call EXCEPT ![c].at = to]
  BY DEF Moves
<1>2. /\ call \in [Clients -> [at : {"idle", "wait"} \cup InsideRun,
                               program : Programs \cup {<<>>}]]
      /\ call[c].program \in Programs
  BY <1>1 DEF CallTypes
<1>3. /\ call'[c].at = to /\ call'[c].program = call[c].program
      /\ \A d \in Clients \ {c} : call'[d] = call[d]
      /\ call' \in [Clients -> [at : {"idle", "wait"} \cup InsideRun,
                                program : Programs \cup {<<>>}]]
  BY <1>1, <1>2 DEF InsideRun
<1>4. \A d \in Clients : call'[d].at # "idle" => call'[d].program \in Programs
  <2> TAKE d \in Clients
  <2>1. CASE d = c
    BY <1>2, <1>3, <2>1
  <2>2. CASE d # c
    BY <1>3, <2>2 DEF CallTypes
  <2> QED
    BY <2>1, <2>2
<1> QED
  BY <1>1, <1>2, <1>3, <1>4 DEF CallTypes

(* A thread that comes with a program waits; nothing else is touched.        *)
LEMMA BeginInv ==
    ASSUME ProgramInv, NEW c \in Clients, Begin(c)
    PROVE  ProgramInv'
<1>1. PICK r \in Programs : call' = [call EXCEPT ![c] = [at |-> "wait", program |-> r]]
  BY DEF Begin
<1>2. /\ call[c].at = "idle"
      /\ call \in [Clients -> [at : {"idle", "wait"} \cup InsideRun,
                               program : Programs \cup {<<>>}]]
  BY DEF Begin, ProgramInv, CallTypes
<1>3. /\ call'[c].at = "wait" /\ call'[c].program \in Programs
      /\ \A d \in Clients \ {c} : call'[d] = call[d]
      /\ call' \in [Clients -> [at : {"idle", "wait"} \cup InsideRun,
                                program : Programs \cup {<<>>}]]
  BY <1>1, <1>2
<1>4. UNCHANGED <<i2c_progress, memory, next, bus>>
  BY DEF Begin
<1>5. \A d \in Clients : call'[d].at # "wait" => call'[d] = call[d]
  BY <1>3
<1>6. \A d \in Clients : call[d].at # "idle" => call'[d] = call[d]
  BY <1>2, <1>3
<1>7. CallTypes'
  BY <1>3 DEF CallTypes, ProgramInv
<1>8. OneInside'
  BY <1>4, <1>5 DEF OneInside, ProgramInv, InsideRun
<1>9. EngineRuns' /\ (bus \in Lines)'
  BY <1>4, <1>6 DEF EngineRuns, ProgramInv
<1>10. MemoryHolds'
  BY <1>4, <1>5 DEF MemoryHolds, ProgramInv
<1>11. OnTrace'
  BY <1>4, <1>5 DEF OnTrace, ProgramInv
<1>12. AllHeard'
  BY <1>4, <1>5 DEF AllHeard, ProgramInv
<1> QED
  BY <1>7, <1>8, <1>9, <1>10, <1>11, <1>12 DEF ProgramInv

(* The flag is taken when nobody has it: the engine is idle then.            *)
LEMMA AcquireInv ==
    ASSUME ProgramInv, NEW c \in Clients, Acquire(c)
    PROVE  ProgramInv'
<1>1. /\ ~ i2c_progress /\ i2c_progress' = TRUE /\ Moves(c, "wait", "copy")
      /\ UNCHANGED <<memory, next, bus>>
  BY DEF Acquire
<1>2. /\ CallTypes' /\ call'[c].at = "copy" /\ call[c].at = "wait"
      /\ \A d \in Clients \ {c} : call'[d] = call[d]
  BY <1>1, CallMoves DEF InsideRun, ProgramInv
<1>3. \A d \in Clients : call[d].at \notin InsideRun
  BY <1>1 DEF OneInside, ProgramInv
<1>4. \A d \in Clients : call'[d].at # "copy" => call'[d] = call[d]
  BY <1>2
<1>5. OneInside'
  BY <1>1, <1>2, <1>3 DEF OneInside
<1>6. next = -1
  BY <1>3 DEF EngineRuns, ProgramInv, InsideRun
<1>7. EngineRuns' /\ (bus \in Lines)'
  BY <1>1, <1>6 DEF EngineRuns, ProgramInv
<1>8. MemoryHolds'
  BY <1>1, <1>4 DEF MemoryHolds, ProgramInv
<1>9. OnTrace'
  BY <1>1, <1>6 DEF OnTrace
<1>10. AllHeard'
  BY <1>1, <1>4 DEF AllHeard, ProgramInv
<1> QED
  BY <1>2, <1>5, <1>7, <1>8, <1>9, <1>10 DEF ProgramInv

(* The steps of a thread that has the flag: no other one is where it         *)
(* matters, and none is there afterwards.                                    *)
LEMMA InsideMoves ==
    ASSUME ProgramInv, NEW c \in Clients, NEW from \in InsideRun, NEW to \in InsideRun,
           Moves(c, from, to), UNCHANGED i2c_progress
    PROVE  /\ CallTypes' /\ OneInside'
           /\ call'[c].at = to /\ call[c].at = from
           /\ call'[c].program = call[c].program /\ call[c].program \in Programs
           /\ \A d \in Clients \ {c} :
                 call'[d] = call[d] /\ call[d].at \in {"idle", "wait"}
<1>1. from # "idle"
  BY DEF InsideRun
<1>2. /\ CallTypes' /\ call'[c].at = to /\ call[c].at = from
      /\ call'[c].program = call[c].program /\ call[c].program \in Programs
      /\ \A d \in Clients \ {c} : call'[d] = call[d]
  BY <1>1, CallMoves DEF ProgramInv
<1>3. i2c_progress = TRUE /\ \A d \in Clients \ {c} : call[d].at \notin InsideRun
  BY <1>2 DEF ProgramInv, OneInside
<1>4. \A d \in Clients \ {c} : call[d].at \in {"idle", "wait"}
  BY <1>3 DEF ProgramInv, CallTypes
<1>5. OneInside'
  BY <1>2, <1>3 DEF OneInside
<1> QED
  BY <1>2, <1>4, <1>5

(* The program is copied, whole, while the engine is idle.                   *)
LEMMA CopyInv ==
    ASSUME ProgramInv, NEW c \in Clients, Copy(c)
    PROVE  ProgramInv'
<1>1. /\ Moves(c, "copy", "start") /\ UNCHANGED <<i2c_progress, next, bus>>
      /\ memory' = i2c_copy(memory, 0, Packed(Program(call[c].program)))
  BY DEF Copy
<1>2. /\ CallTypes' /\ OneInside' /\ call'[c].at = "start" /\ call[c].at = "copy"
      /\ call'[c].program = call[c].program /\ call[c].program \in Programs
      /\ \A d \in Clients \ {c} :
            call'[d] = call[d] /\ call[d].at \in {"idle", "wait"}
  BY <1>1, InsideMoves DEF InsideRun
<1>3. MemoryHolds'
  <2> DEFINE p == Program(call[c].program)
  <2>1. p \in Seq(0 .. 15) /\ Len(p) % 2 = 0 /\ Fits(p) /\ MemoryBytes \in Nat
    BY <1>2, ProgramEnds, Pt3ProgramAssumption
  <2>2. DOMAIN memory = 0 .. MemoryBytes - 1
    BY DEF ProgramInv, MemoryHolds
  <2>3. DOMAIN memory' = 0 .. MemoryBytes - 1 /\ Holds(memory', p)
    <3> HIDE DEF p
    <3>1. /\ DOMAIN i2c_copy(memory, 0, Packed(p)) = 0 .. MemoryBytes - 1
          /\ Holds(i2c_copy(memory, 0, Packed(p)), p)
      BY <2>1, <2>2, CopyHolds
    <3>2. memory' = i2c_copy(memory, 0, Packed(p))
      BY <1>1 DEF p
    <3> QED
      BY <3>1, <3>2
  <2>4. \A d \in Clients : call'[d].at \in {"start", "run"} => d = c
    BY <1>2
  <2> QED
    BY <1>2, <2>3, <2>4 DEF MemoryHolds
<1>4. next = -1
  BY <1>2 DEF EngineRuns, ProgramInv
<1>5. EngineRuns' /\ (bus \in Lines)'
  BY <1>1, <1>4 DEF EngineRuns, ProgramInv
<1>6. OnTrace'
  BY <1>1, <1>4 DEF OnTrace
<1>7. AllHeard'
  BY <1>2 DEF AllHeard
<1> QED
  BY <1>2, <1>3, <1>5, <1>6, <1>7 DEF ProgramInv

(* The engine is started: the trace of the program begins.                   *)
LEMMA RunCodeInv ==
    ASSUME ProgramInv, NEW c \in Clients, RunCode(c)
    PROVE  ProgramInv'
<1>1. /\ next = -1 /\ next' = 0 /\ Moves(c, "start", "run")
      /\ bus' = [bus EXCEPT !.heard = <<>>]
      /\ UNCHANGED <<i2c_progress, memory>>
  BY DEF RunCode
<1>2. /\ CallTypes' /\ OneInside' /\ call'[c].at = "run" /\ call[c].at = "start"
      /\ call'[c].program = call[c].program /\ call[c].program \in Programs
      /\ \A d \in Clients \ {c} :
            call'[d] = call[d] /\ call[d].at \in {"idle", "wait"}
  BY <1>1, InsideMoves DEF InsideRun
<1>3. bus' = On(1, 1, <<>>)
  <2>1. bus.sda = 1 /\ bus.scl = 1 /\ bus \in Lines
    BY <1>1 DEF ProgramInv, EngineRuns
  <2> QED
    BY <1>1, <2>1 DEF Lines, On
<1>4. EngineRuns'
  BY <1>1, <1>2 DEF EngineRuns
<1>5. (bus \in Lines)'
  BY <1>3 DEF On, Lines
<1>6. MemoryHolds'
  BY <1>1, <1>2 DEF MemoryHolds, ProgramInv
<1>7. OnTrace'
  <2>1. PICK t : IsTrace(t, call[c].program)
    BY <1>2, HasTrace
  <2>2. t[0] = On(1, 1, <<>>)
    BY <2>1 DEF IsTrace
  <2>3. 0 <= Len(Asked(call[c].program))
    BY <1>2, HasTrace, LenProperties
  <2>4. \A d \in Clients : call'[d].at = "run" => d = c
    BY <1>2
  <2> QED
    BY <1>1, <1>2, <1>3, <2>1, <2>2, <2>3, <2>4 DEF OnTrace
<1>8. AllHeard'
  BY <1>1, <1>2 DEF AllHeard
<1> QED
  BY <1>2, <1>4, <1>5, <1>6, <1>7, <1>8 DEF ProgramInv

(* The end of the program is the end of its trace.                           *)
LEMMA TakeInv ==
    ASSUME ProgramInv, NEW c \in Clients, Take(c)
    PROVE  ProgramInv'
<1>1. /\ next = -1 /\ Moves(c, "run", "release")
      /\ UNCHANGED <<i2c_progress, memory, next, bus>>
  BY DEF Take
<1>2. /\ CallTypes' /\ OneInside' /\ call'[c].at = "release" /\ call[c].at = "run"
      /\ call'[c].program = call[c].program /\ call[c].program \in Programs
      /\ \A d \in Clients \ {c} :
            call'[d] = call[d] /\ call[d].at \in {"idle", "wait"}
  BY <1>1, InsideMoves DEF InsideRun
<1>3. EngineRuns' /\ (bus \in Lines)'
  BY <1>1 DEF EngineRuns, ProgramInv
<1>4. MemoryHolds'
  BY <1>1, <1>2 DEF MemoryHolds, ProgramInv
<1>5. OnTrace'
  BY <1>1 DEF OnTrace
<1>6. AllHeard'
  BY <1>1, <1>2 DEF AllHeard, ProgramInv
<1> QED
  BY <1>2, <1>3, <1>4, <1>5, <1>6 DEF ProgramInv

(* The flag is given back.                                                   *)
LEMMA ReleaseInv ==
    ASSUME ProgramInv, NEW c \in Clients, Release(c)
    PROVE  ProgramInv'
<1>1. /\ call[c].at = "release" /\ UNCHANGED <<memory, next, bus>>
      /\ call' = [call EXCEPT ![c] = [at |-> "idle", program |-> <<>>]]
  BY DEF Release
<1>2. call \in [Clients -> [at : {"idle", "wait"} \cup InsideRun,
                            program : Programs \cup {<<>>}]]
  BY DEF ProgramInv, CallTypes
<1>3. /\ call'[c].at = "idle"
      /\ \A d \in Clients \ {c} : call'[d] = call[d]
      /\ call' \in [Clients -> [at : {"idle", "wait"} \cup InsideRun,
                                program : Programs \cup {<<>>}]]
  BY <1>1, <1>2
<1>4. \A d \in Clients \ {c} : call[d].at \notin InsideRun
  BY <1>1 DEF ProgramInv, OneInside, InsideRun
<1>5. \A d \in Clients : call'[d].at \notin InsideRun
  BY <1>3, <1>4 DEF InsideRun
<1>6. CallTypes'
  BY <1>3 DEF CallTypes, ProgramInv
<1>7. next = -1
  BY <1>1, <1>4 DEF EngineRuns, ProgramInv, InsideRun
<1>8. OneInside'
  BY <1>5 DEF OneInside
<1>9. EngineRuns' /\ (bus \in Lines)'
  BY <1>1, <1>7 DEF EngineRuns, ProgramInv
<1>10. MemoryHolds'
  BY <1>1, <1>5 DEF MemoryHolds, ProgramInv, InsideRun
<1>11. OnTrace' /\ AllHeard'
  BY <1>5 DEF OnTrace, AllHeard, InsideRun
<1> QED
  BY <1>6, <1>8, <1>9, <1>10, <1>11 DEF ProgramInv

(* The engine takes an instruction of the program of the one thread that     *)
(* waits for it.                                                             *)
LEMMA PlayInv ==
    ASSUME ProgramInv, Play
    PROVE  ProgramInv'
<1>1. next >= 0 /\ UNCHANGED <<call, i2c_progress, memory>>
  BY DEF Play
<1>2. next \in Nat /\ next # -1
  BY <1>1 DEF ProgramInv, EngineRuns
<1>3. PICK c \in Clients : call[c].at = "run"
  BY <1>2 DEF ProgramInv, EngineRuns
<1>4. \A d \in Clients : call[d].at \in InsideRun => d = c
  BY <1>3 DEF ProgramInv, OneInside, InsideRun
<1> DEFINE steps == call[c].program
           s == Asked(steps)
           p == Program(steps)
           n == Len(s)
<1>5. steps \in Programs
  BY <1>3 DEF ProgramInv, CallTypes
<1>6. s \in Seq(Code) /\ n \in Nat
  BY <1>5, HasTrace, LenProperties
<1>7. PICK t : IsTrace(t, steps) /\ bus = t[next]
  BY <1>2, <1>3 DEF ProgramInv, OnTrace
<1>8. next <= n
  BY <1>2, <1>3 DEF ProgramInv, OnTrace
<1>9. /\ t \in [0 .. n -> Lines]
      /\ \A k \in 1 .. n : t[k] = Plays(t[k - 1], s[k])
      /\ t[n] = On(1, 1, Due(steps))
  BY <1>7 DEF IsTrace, Trace
<1>10. /\ p \in Seq(0 .. 15) /\ Len(p) > n
       /\ \A k \in 1 .. n : p[k] = s[k]
       /\ p[n + 1] = I_END
  BY <1>5, HasTrace, ProgramEnds
<1>11. Fetch(next) = p[next + 1]
  <2>1. Holds(memory, p)
    BY <1>3 DEF ProgramInv, MemoryHolds
  <2>2. Len(p) \in Nat
    BY <1>10, LenProperties
  <2> HIDE DEF p, n
  <2>3. next \in 0 .. Len(p) - 1
    BY <1>2, <1>6, <1>8, <1>10, <2>2
  <2> QED
    BY <2>1, <2>3 DEF Holds, Half, Fetch
<1>12. steps' = steps
  BY <1>1
<1>13. CallTypes' /\ OneInside' /\ MemoryHolds'
  BY <1>1 DEF ProgramInv, CallTypes, OneInside, MemoryHolds
<1>14. CASE next = n
  <2>1. next' = -1 /\ UNCHANGED bus
    BY <1>10, <1>11, <1>14 DEF Play
  <2>2. bus = On(1, 1, Due(steps))
    BY <1>7, <1>9, <1>14
  <2>3. EngineRuns' /\ (bus \in Lines)'
    BY <2>1, <2>2 DEF EngineRuns, On, ProgramInv
  <2>4. OnTrace'
    BY <2>1 DEF OnTrace
  <2>5. AllHeard'
    <3>1. \A d \in Clients :
             call'[d].at = "release" \/ (call'[d].at = "run" /\ next' = -1) => d = c
      BY <1>1, <1>4 DEF InsideRun
    <3>2. bus'.heard = Due(steps)
      BY <2>1, <2>2 DEF On
    <3> QED
      BY <1>1, <3>1, <3>2 DEF AllHeard
  <2> QED
    BY <1>13, <2>3, <2>4, <2>5 DEF ProgramInv
<1>15. CASE next < n
  <2> DEFINE m == next + 1
  <2>1. m \in 1 .. n /\ m - 1 = next /\ m \in 0 .. n /\ m # -1
    <3> HIDE DEF n
    <3> QED
      BY <1>2, <1>6, <1>15
  <2>2. s[m] \in Code /\ s[m] # I_END
    <3>1. s[m] \in Code
      <4> HIDE DEF s, m
      <4> QED
        BY <1>6, <2>1
    <3> QED
      BY <3>1 DEF Code, I_END
  <2>3. Fetch(next) = s[m]
    BY <1>10, <1>11, <2>1
  <2>4. next' = m /\ bus' = Plays(bus, s[m])
    BY <2>2, <2>3 DEF Play
  <2>5. t[m] = Plays(bus, s[m])
    BY <1>7, <1>9, <2>1
  <2>6. bus' = t[m] /\ t[m] \in Lines
    BY <1>9, <2>1, <2>4, <2>5
  <2>7. (bus \in Lines)'
    BY <2>6
  <2>8. EngineRuns'
    BY <1>1, <1>2, <1>3, <2>1, <2>4 DEF EngineRuns
  <2>9. OnTrace'
    <3>1. \A d \in Clients : call'[d].at = "run" => d = c
      BY <1>1, <1>4 DEF InsideRun
    <3>2. next' <= n
      <4> HIDE DEF n
      <4> QED
        BY <1>6, <2>1, <2>4
    <3>3. IsTrace(t, steps) /\ bus' = t[next']
      BY <1>7, <2>4, <2>6
    <3> QED
      BY <1>1, <3>1, <3>2, <3>3 DEF OnTrace
  <2>10. AllHeard'
    <3>1. next' # -1
      BY <2>1, <2>4
    <3>2. \A d \in Clients : call'[d].at # "release"
      <4> SUFFICES ASSUME NEW d \in Clients, call'[d].at = "release"
                   PROVE  FALSE
        OBVIOUS
      <4>1. call[d].at = "release" /\ d = c
        BY <1>1, <1>4 DEF InsideRun
      <4> QED
        BY <1>3, <4>1
    <3> QED
      BY <3>1, <3>2 DEF AllHeard
  <2> QED
    BY <1>13, <2>7, <2>8, <2>9, <2>10 DEF ProgramInv
<1> QED
  <2> HIDE DEF n
  <2> QED
    BY <1>2, <1>6, <1>8, <1>14, <1>15

(* The invariant holds always.                                               *)
LEMMA ProgramInvAlways == ProgramSpec => []ProgramInv
<1>1. ProgramInit => ProgramInv
  BY ProgramInitInv
<1>2. ProgramInv /\ [ProgramNext]_programVars => ProgramInv'
  <2> SUFFICES ASSUME ProgramInv, [ProgramNext]_programVars
               PROVE  ProgramInv'
    OBVIOUS
  <2>1. CASE UNCHANGED programVars
    <3>1. UNCHANGED <<call, i2c_progress, memory, next, bus>>
      BY <2>1 DEF programVars
    <3> QED
      BY <3>1 DEF ProgramInv, CallTypes, OneInside, EngineRuns, MemoryHolds, OnTrace,
                  AllHeard
  <2>2. CASE Play
    BY <2>2, PlayInv
  <2>3. ASSUME NEW c \in Clients,
               Begin(c) \/ Acquire(c) \/ Copy(c) \/ RunCode(c) \/ Take(c) \/ Release(c)
        PROVE  ProgramInv'
    BY <2>3, BeginInv, AcquireInv, CopyInv, RunCodeInv, TakeInv, ReleaseInv
  <2> QED
    BY <2>1, <2>2, <2>3 DEF ProgramNext
<1> QED
  BY <1>1, <1>2, PTL DEF ProgramSpec

(* What a thread takes from the board is its own, however many threads and   *)
(* programs there are: before it lets go of the flag exactly the             *)
(* transactions of its program have been heard, and the bus is idle.         *)
THEOREM ProgramIsAlwaysHeard == ProgramSpec => []ProgramIsHeard
<1>1. ProgramInv => ProgramIsHeard
  <2> SUFFICES ASSUME ProgramInv, NEW c \in Clients, call[c].at = "release"
               PROVE  /\ bus.heard = Due(call[c].program)
                      /\ bus.sda = 1 /\ bus.scl = 1
    BY DEF ProgramIsHeard, Due
  <2>1. \A d \in Clients : call[d].at \in InsideRun => d = c
    BY DEF ProgramInv, OneInside, InsideRun
  <2>2. next = -1
    BY <2>1 DEF ProgramInv, EngineRuns, InsideRun
  <2> QED
    BY <2>2 DEF ProgramInv, EngineRuns, AllHeard
<1> QED
  BY <1>1, ProgramInvAlways, PTL
=============================================================================
