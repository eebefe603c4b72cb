------------------------------- MODULE Pt3Dma -------------------------------
(***************************************************************************)
(* The DMA buffer of one channel of a PT3 board, from open to close.       *)
(*                                                                         *)
(* The board writes the transport stream round and round into Blocks       *)
(* blocks and never waits for a reader.  A block that has been read gets a *)
(* mark in place of its sync byte.  pt3_dma_copy takes the block at ts_pos *)
(* for complete when the block after it begins with a sync byte again, and *)
(* for overrun when the block before it does.                              *)
(*                                                                         *)
(* A block is Units units; each holds the number of the unit of the stream *)
(* that was written there last.  The first read of a session resets the    *)
(* blocks and starts the board, under the lock of the board (slock); the   *)
(* copy is made under the lock of the buffer (dlock).                      *)
(***************************************************************************)
EXTENDS Naturals

CONSTANTS
    Readers,        \* threads that read through the one open file
    Blocks,         \* blocks of the buffer                (BLOCK_COUNT)
    Units,          \* units of a block                    (BLOCK_SIZE)
    Numbers,        \* units are numbered 0 .. Numbers - 1, round and round
    ReadSizes,      \* sizes of read(2), in units
    Tries,          \* looks for a complete block          (20)
    None            \* no thread

ASSUME Pt3DmaAssumption ==
    /\ Blocks \in Nat /\ Blocks >= 2
    /\ Units \in Nat \ {0}
    /\ Numbers \in Nat /\ Numbers > Blocks * Units
    /\ ReadSizes \subseteq Nat
    /\ Tries \in Nat \ {0}
    /\ None \notin Readers /\ "closer" \notin Readers /\ None # "closer"

VARIABLES
    head, content,      \* per block: its first byte, the units written to it
    dpos, ts_pos,       \* page->data_pos of each block, dma->ts_pos
    engine, hblk, hunit, written,   \* the board: state, unit it writes next
    valid, rstart,      \* the channel: open, started by a read
    slock, dlock,       \* scp->lock, dma->lock
    rpc, remain, csize, got, tries, \* a thread inside pt3read
    blk,                \* loop index of pt3_dma_reset
    want, lapped, logged    \* history: number of the unit at the reader's
                            \* position; how the board overtook it; whether
                            \* "dma buffer overflow" was printed

bufferVars == <<head, content, dpos, ts_pos>>
boardVars  == <<engine, hblk, hunit, written>>
readerVars == <<rpc, remain, csize, got, tries>>
history    == <<want, lapped, logged>>
vars == <<bufferVars, boardVars, valid, rstart, slock, dlock, readerVars, blk,
          history>>

BlockIdx == 0 .. Blocks - 1
Stream   == 0 .. Numbers - 1
Threads  == Readers \cup {"closer"}

ReaderPCs == {"idle", "start", "reset", "enable", "enter", "look", "check",
              "size", "copy"}

(* The block is being copied, or about to be: the check for an overrun of it *)
(* is over.                                                                  *)
Copying(r) == rpc[r] \in {"size", "copy"}

(* create_pt3_dma has made the blocks, zeroed; the board is off. *)
Init ==
    /\ head = [b \in BlockIdx |-> "other"]
    /\ content = [b \in BlockIdx |-> [u \in 0 .. Units - 1 |-> Numbers]]
    /\ dpos = [b \in BlockIdx |-> 0] /\ ts_pos = 0
    /\ engine = "off" /\ hblk = 0 /\ hunit = 0 /\ written = 0
    /\ valid = FALSE /\ rstart = FALSE
    /\ slock = None /\ dlock = None
    /\ rpc = [r \in Readers |-> "idle"]
    /\ remain = [r \in Readers |-> 0] /\ csize = [r \in Readers |-> 0]
    /\ got = [r \in Readers |-> 0] /\ tries = [r \in Readers |-> 0]
    /\ blk = 0
    /\ want = 0 /\ lapped = "no" /\ logged = FALSE

Goto(r, place) == rpc' = [rpc EXCEPT ![r] = place]

-----------------------------------------------------------------------------
(* The board.                                                                *)

(* The descriptors lead from each block to the next and from the last one to *)
(* the first.                                                                *)
NextBlock(b) == IF b + 1 >= Blocks THEN 0 ELSE b + 1

(* The board begins the block the reader has not given back: every block     *)
(* holds data that were not read.                                            *)
Overtakes ==
    hunit = 0 /\ hblk = ts_pos /\ head[ts_pos] = "sync"

(* One unit is written; the first of a block brings the sync byte. *)
Fill ==
    /\ engine \in {"on", "stopping"}
    /\ content' = [content EXCEPT ![hblk][hunit] = written]
    /\ head' = IF hunit = 0 THEN [head EXCEPT ![hblk] = "sync"] ELSE head
    /\ written' = (written + 1) % Numbers
    /\ hunit' = (hunit + 1) % Units
    /\ hblk' = IF hunit + 1 = Units THEN NextBlock(hblk) ELSE hblk
    /\ lapped' = IF ~ Overtakes \/ lapped # "no" THEN lapped
                 ELSE IF \E r \in Readers : Copying(r) THEN "copying"
                 ELSE "waiting"
    /\ UNCHANGED <<dpos, ts_pos, engine, valid, rstart, slock, dlock,
                   readerVars, blk, want, logged>>

(* A board that was told to stop does. *)
BoardStops ==
    /\ engine = "stopping"
    /\ engine' = "off"
    /\ UNCHANGED <<bufferVars, hblk, hunit, written, valid, rstart, slock,
                   dlock, readerVars, blk, history>>

-----------------------------------------------------------------------------
(* pt3open and pt3close.  A second open gets EBUSY and changes nothing; the  *)
(* last close comes when no thread is in read(2).                            *)

Open ==
    /\ slock = None /\ ~ valid
    /\ valid' = TRUE
    /\ UNCHANGED <<bufferVars, boardVars, rstart, slock, dlock, readerVars,
                   blk, history>>

(* Tell the board to stop ... *)
Close ==
    /\ slock = None /\ valid
    /\ \A r \in Readers : rpc[r] = "idle"
    /\ slock' = "closer"
    /\ valid' = FALSE /\ rstart' = FALSE
    /\ engine' = IF engine = "on" THEN "stopping" ELSE engine
    /\ UNCHANGED <<bufferVars, hblk, hunit, written, dlock, readerVars, blk,
                   history>>

(* Mutant: do not wait. *)
ClosedAtOnce ==
    /\ slock = "closer"
    /\ slock' = None
    /\ UNCHANGED <<bufferVars, boardVars, valid, rstart, dlock, readerVars,
                   blk, history>>

(* ... and wait until it has. *)
Closed ==
    /\ slock = "closer"
    /\ engine = "off"
    /\ slock' = None
    /\ UNCHANGED <<bufferVars, boardVars, valid, rstart, dlock, readerVars,
                   blk, history>>

-----------------------------------------------------------------------------
(* pt3read: the first read starts the board.                                 *)

(* rstart is looked at without the lock. *)
ReadCall(r) ==
    /\ rpc[r] = "idle" /\ valid
    /\ \E n \in ReadSizes : remain' = [remain EXCEPT ![r] = n]
    /\ Goto(r, IF rstart THEN "enter" ELSE "start")
    /\ UNCHANGED <<bufferVars, boardVars, valid, rstart, slock, dlock, csize,
                   got, tries, blk, history>>

Start(r) ==
    /\ rpc[r] = "start" /\ slock = None
    /\ slock' = r
    /\ rstart' = TRUE
    /\ blk' = 0
    /\ Goto(r, "reset")
    /\ UNCHANGED <<bufferVars, boardVars, valid, dlock, remain, csize, got,
                   tries, history>>

(* pt3_dma_reset, a block at a time. *)
ResetBlock(r) ==
    /\ rpc[r] = "reset"
    /\ head' = [head EXCEPT ![blk] = "mark"]
    /\ content' = [content EXCEPT ![blk] = [u \in 0 .. Units - 1 |-> Numbers]]
    /\ dpos' = [dpos EXCEPT ![blk] = 0]
    /\ IF blk + 1 < Blocks
         THEN blk' = blk + 1 /\ UNCHANGED <<ts_pos, rpc>>
         ELSE blk' = 0 /\ ts_pos' = 0 /\ Goto(r, "enable")
    /\ UNCHANGED <<boardVars, valid, rstart, slock, dlock, remain, csize, got,
                   tries, history>>

(* Mutant: the lock is kept. *)
EnableKeepsLock(r) ==
    /\ rpc[r] = "enable"
    /\ engine' = "on" /\ hblk' = 0 /\ hunit' = 0
    /\ want' = written /\ lapped' = "no" /\ logged' = FALSE
    /\ Goto(r, "enter")
    /\ UNCHANGED <<bufferVars, written, valid, rstart, slock, dlock, remain,
                   csize, got, tries, blk>>

(* The board starts at the first descriptor. *)
Enable(r) ==
    /\ rpc[r] = "enable"
    /\ engine' = "on" /\ hblk' = 0 /\ hunit' = 0
    /\ want' = written /\ lapped' = "no" /\ logged' = FALSE
    /\ slock' = None
    /\ Goto(r, "enter")
    /\ UNCHANGED <<bufferVars, written, valid, rstart, dlock, remain, csize,
                   got, tries, blk>>

-----------------------------------------------------------------------------
(* pt3_dma_copy.                                                             *)

Enter(r) ==
    /\ rpc[r] = "enter" /\ dlock = None
    /\ dlock' = r
    /\ tries' = [tries EXCEPT ![r] = 0]
    /\ Goto(r, "look")
    /\ UNCHANGED <<bufferVars, boardVars, valid, rstart, slock, remain, csize,
                   got, blk, history>>

(* Give the lock back and return; the locals are gone. *)
Leave(r) ==
    /\ dlock' = None
    /\ Goto(r, "idle")
    /\ remain' = [remain EXCEPT ![r] = 0]
    /\ tries' = [tries EXCEPT ![r] = 0]

Forget(r) == csize' = [csize EXCEPT ![r] = 0] /\ got' = [got EXCEPT ![r] = 0]

(* Mutant: the block itself has begun. *)
ReadyWhenBegun == {head[ts_pos] = "sync"}

(* pt3_dma_ready: the next block has begun.  Its data_pos is 0, unless a     *)
(* second thread has reset the buffer in the middle of a copy; then the byte *)
(* at data_pos is any byte of the stream.                                    *)
ReadyOutcomes ==
    LET next == NextBlock(ts_pos)
    IN  IF dpos[next] = 0 THEN {head[next] = "sync"} ELSE BOOLEAN

(* Look for a complete block, Tries times at most. *)
Look(r) ==
    /\ rpc[r] = "look"
    /\ \E ready \in ReadyOutcomes :
         \/ /\ ready
            /\ Goto(r, "check")
            /\ tries' = [tries EXCEPT ![r] = 0]
            /\ UNCHANGED <<dlock, remain>>
         \/ /\ ~ ready /\ tries[r] + 1 < Tries
            /\ tries' = [tries EXCEPT ![r] = @ + 1]
            /\ UNCHANGED <<rpc, dlock, remain>>
         \/ /\ ~ ready /\ tries[r] + 1 >= Tries
            /\ Leave(r)
    /\ UNCHANGED <<bufferVars, boardVars, valid, rstart, slock, csize, got, blk,
                   history>>

PrevBlock == IF ts_pos = 0 THEN Blocks - 1 ELSE ts_pos - 1

(* Mutant: the first block has no block before it. *)
CheckNotTheFirst(r) ==
    /\ rpc[r] = "check"
    /\ logged' = (logged \/ (ts_pos # 0 /\ head[PrevBlock] # "mark"))
    /\ Goto(r, "size")
    /\ UNCHANGED <<bufferVars, boardVars, valid, rstart, slock, dlock, remain,
                   csize, got, tries, blk, want, lapped>>

(* The block before should bear the mark it was given when it was read. *)
Check(r) ==
    /\ rpc[r] = "check"
    /\ logged' = (logged \/ head[PrevBlock] # "mark")
    /\ Goto(r, "size")
    /\ UNCHANGED <<bufferVars, boardVars, valid, rstart, slock, dlock, remain,
                   csize, got, tries, blk, want, lapped>>

(* How much to copy: the rest of the block or of the request. *)
Size(r) ==
    /\ rpc[r] = "size"
    /\ csize' = [csize EXCEPT ![r] =
                    IF Units - dpos[ts_pos] > remain[r]
                    THEN remain[r] ELSE Units - dpos[ts_pos]]
    /\ got' = [got EXCEPT ![r] = 0]
    /\ Goto(r, "copy")
    /\ UNCHANGED <<bufferVars, boardVars, valid, rstart, slock, dlock, remain,
                   tries, blk, history>>

(* uiomove reads the unit at Position(r) ... *)
Position(r) == dpos[ts_pos] + got[r]

CopyUnit(r) ==
    /\ rpc[r] = "copy" /\ got[r] < csize[r]
    /\ got' = [got EXCEPT ![r] = @ + 1]
    /\ UNCHANGED <<bufferVars, boardVars, valid, rstart, slock, dlock, rpc,
                   remain, csize, tries, blk, history>>

(* Mutant: the lock is kept. *)
CopyFaultKeepsLock(r) ==
    /\ rpc[r] = "copy"
    /\ Goto(r, "idle")
    /\ UNCHANGED <<bufferVars, boardVars, valid, rstart, slock, dlock, remain,
                   csize, got, tries, blk, history>>

(* ... and may fail, which leaves the position where it was. *)
CopyFault(r) ==
    /\ rpc[r] = "copy"
    /\ Leave(r) /\ Forget(r)
    /\ UNCHANGED <<bufferVars, boardVars, valid, rstart, slock, blk, history>>

(* A block read to its end gets its mark, and it is the next one's turn: the *)
(* loop goes on, also when nothing remains to be read.                       *)
Copied(r) ==
    /\ rpc[r] = "copy" /\ got[r] = csize[r]
    /\ Forget(r)
    /\ want' = (want + csize[r]) % Numbers
    /\ IF dpos[ts_pos] + csize[r] >= Units
         THEN /\ dpos' = [dpos EXCEPT ![ts_pos] = 0]
              /\ head' = [head EXCEPT ![ts_pos] = "mark"]
              /\ ts_pos' = NextBlock(ts_pos)
              /\ remain' = [remain EXCEPT ![r] = @ - csize[r]]
              /\ Goto(r, "look") /\ UNCHANGED <<dlock, tries>>
         ELSE /\ dpos' = [dpos EXCEPT ![ts_pos] = @ + csize[r]]
              /\ IF remain[r] = csize[r]
                   THEN Leave(r)
                   ELSE /\ remain' = [remain EXCEPT ![r] = @ - csize[r]]
                        /\ Goto(r, "size") /\ UNCHANGED <<dlock, tries>>
              /\ UNCHANGED <<head, ts_pos>>
    /\ UNCHANGED <<content, boardVars, valid, rstart, slock, blk, lapped, logged>>

-----------------------------------------------------------------------------
Reading(r) ==
    \/ Start(r) \/ ResetBlock(r) \/ Enable(r)
    \/ Enter(r) \/ Look(r) \/ Check(r) \/ Size(r)
    \/ CopyUnit(r) \/ CopyFault(r) \/ Copied(r)

Next ==
    \/ Fill \/ BoardStops
    \/ Open \/ Close \/ Closed
    \/ \E r \in Readers : ReadCall(r) \/ Reading(r)

Spec == Init /\ [][Next]_vars

(* The kernel runs threads that are inside the driver; the board stops when  *)
(* told to.  Nothing makes the board write or anybody call the driver.       *)
FairSpec ==
    /\ Spec
    /\ WF_vars(BoardStops) /\ WF_vars(Closed)
    /\ \A r \in Readers : WF_vars(Reading(r))

-----------------------------------------------------------------------------
(* Safety, with one thread per open file.                                    *)

(* Until the board overtakes it the reader gets every unit of its session,   *)
(* whole and once, in order, across blocks, calls and failed copies: nothing *)
(* of an earlier session, nothing the board has not written yet              *)
(* (pt3_dma_ready, pt3_dma_copy, pt3_dma_reset).                             *)
DataInOrder ==
    \A r \in Readers :
        lapped = "no" /\ rpc[r] = "copy" /\ got[r] < csize[r] =>
            /\ content[ts_pos][Position(r)] = (want + got[r]) % Numbers
            /\ Position(r) = 0 => head[ts_pos] = "sync"

(* When the board overtook the reader between two blocks or two calls, "dma  *)
(* buffer overflow" is printed before any of the wrong data is delivered     *)
(* (pt3_dma.c:369-374).                                                      *)
OverflowIsLogged ==
    \A r \in Readers :
        lapped = "waiting" /\ rpc[r] = "copy" => logged

(* Nobody but the thread that resets it touches the buffer during a reset:   *)
(* pt3_dma_reset runs without the buffer's lock, and with the board off.     *)
ResetIsUndisturbed ==
    \A r \in Readers :
        rpc[r] \in {"reset", "enable"} => engine = "off" /\ dlock = None

-----------------------------------------------------------------------------
(* Liveness.                                                                 *)

(* A thread gives the buffer up: when no data come (it looks Tries times for *)
(* each block), when the copy fails, and at the end of the request.          *)
BufferIsReleased == \A r \in Readers : dlock = r ~> dlock # r

(* The lock of the board, which all channels share, is given up, by the read *)
(* that starts the board and by the close that waits for it to stop.         *)
BoardIsReleased == \A t \in Threads : slock = t ~> slock # t
=============================================================================
