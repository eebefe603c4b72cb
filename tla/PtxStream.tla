----------------------------- MODULE PtxStream -----------------------------
(***************************************************************************)
(* The chunk ring between the PT1/PT2 DMA daemon and the threads that read *)
(* /dev/ptxN.sM and /dev/ptxN.tM.                                          *)
(*                                                                         *)
(* One daemon (ptx_proc.c) serves every stream: it takes the micropackets  *)
(* of the DMA pages one after the other and copies their bytes into the    *)
(* chunk at wp of the stream the micropacket names.  A reader (ptx_tuner.c)*)
(* copies the bytes of the chunk at rp to user space.  s->lock guards wp   *)
(* and rp; opened is read, and chunk_filled and the buffer are written, by *)
(* the daemon without it, while ptxopen resets all of them.  Every access  *)
(* to shared state that the lock does not order is therefore a step of its *)
(* own here; what happens under the lock is one step, except in ptxopen,   *)
(* whose stores the daemon can see one by one.                             *)
(*                                                                         *)
(* Names are the code's: filled is chunk_filled, used is chunk_used.       *)
(* The DMA pages themselves are PtxDma's business; here the hardware hands *)
(* the daemon the next micropacket of any stream at any time, also of a    *)
(* stream that is closed or switched off (pages filled before that are     *)
(* still in the ring).                                                     *)
(***************************************************************************)
EXTENDS Integers, FiniteSets

CONSTANTS
    Streams,        \* the streams of the board                  (MAX_STREAM)
    Readers,        \* the threads that share a stream's open file
    ChunkNum,       \* chunks in the ring of a stream        (DATA_CHUNK_NUM)
    PacketSize,     \* bytes of a TS packet                     (PACKET_SIZE)
    ChunkSize,      \* bytes of a chunk                     (DATA_CHUNK_SIZE)
    ReadSizes,      \* sizes a read(2) asks for
    Numbers,        \* chunks are numbered 0 .. Numbers - 1, round and round
    Revoke,         \* may the file be closed under a thread that reads it?
    MaxSessions,    \* bound: how often each stream is opened
    MaxErrors       \* bound: micropackets that carry the error bit

ASSUME PtxStreamAssumption ==
    /\ ChunkNum \in Nat /\ ChunkNum >= 2
    /\ PacketSize \in Nat /\ PacketSize % 3 = 2
    /\ ChunkSize \in Nat \ {0} /\ ChunkSize % PacketSize = 0
    /\ ReadSizes \subseteq Nat \ {0}
    /\ Numbers \in Nat \ {0}
    /\ Revoke \in BOOLEAN
    /\ MaxSessions \in Nat /\ MaxErrors \in Nat
    /\ Readers # {}

VARIABLES
    \* struct ptx_stream, of every stream
    opened, started, wp, rp, filled, used,
    tsen,           \* the stream's enable bit in the TS_TEST_ENABLE register
    lock,           \* is s->lock held (only ptxopen holds it for two steps)
    \* the daemon: where it is, whose micropacket it handles, which of its
    \* bytes, and the value of chunk_filled it has loaded
    dpc, cur, nb, reg,
    \* the readers: where each is, the bytes it still wants, and the copy
    \* in progress
    rpc, resid, copying,
    \* the hardware: the next micropacket's position in its packet, and how
    \* many errors there have been
    upos, errs,
    \* history: sessions so far; the number the next chunk gets; for each
    \* slot the number of its chunk and whether it was complete when it was
    \* published; the offsets written since the chunk at wp was begun; was
    \* the daemon away from the stream when it was last opened
    sess, number, chunk, have, clean

streamVars == <<opened, started, wp, rp, filled, used, tsen, lock>>
daemonVars == <<dpc, cur, nb, reg>>
readerVars == <<rpc, resid, copying>>
hwVars     == <<upos, errs>>
histVars   == <<sess, number, chunk, have, clean>>
vars == <<streamVars, daemonVars, readerVars, hwVars, histVars>>

NoStream == "none"

Slots    == 0 .. ChunkNum - 1
Offsets  == 0 .. ChunkSize - 1

(* A packet of PacketSize bytes arrives as PacketUnits micropackets of three *)
(* bytes; the third byte of the last one is not part of the packet.          *)
PacketUnits == (PacketSize + 1) \div 3

(* Mutant: the wrap forgotten. *)
NextSlotNoWrap(i) == i + 1

(* wp++ and rp++ with their wrap. *)
NextSlot(i) == IF i + 1 >= ChunkNum THEN 0 ELSE i + 1

(* x % PACKET_SIZE, with the sign of x as in C. *)
PacketRem(x) == IF x >= 0 THEN x % PacketSize ELSE -((-x) % PacketSize)

DaemonPCs == {"fetch", "trunc", "truncStore", "full", "lock", "wait", "woken",
              "clear", "store", "incLoad", "incStore"}
ReaderPCs == {"idle", "enter", "emptyFirst", "wokenFirst", "first", "copy",
              "loop", "advance", "emptyNext", "wokenNext", "clear"}
Waiting   == {"emptyFirst", "emptyNext"}    \* in cv_wait(&s->not_empty)

NoCopy == [slot |-> 0, size |-> 0]

TypeOK ==
    /\ opened \in [Streams -> BOOLEAN] /\ started \in [Streams -> BOOLEAN]
    /\ wp \in [Streams -> Slots] /\ rp \in [Streams -> Slots]
    /\ filled \in [Streams -> Int]
    /\ used \in [Streams -> Nat]
    /\ tsen \in [Streams -> BOOLEAN] /\ lock \in [Streams -> BOOLEAN]
    /\ dpc \in DaemonPCs
    /\ cur \in Streams \cup {NoStream}
    /\ nb \in 1 .. 3 /\ reg \in Int
    /\ rpc \in [Streams -> [Readers -> ReaderPCs]]
    /\ resid \in [Streams -> [Readers -> Nat]]
    /\ copying \in [Streams -> [Readers -> [slot : Slots, size : Nat]]]
    /\ upos \in [Streams -> Nat] /\ errs \in 0 .. MaxErrors
    /\ sess \in [Streams -> 0 .. MaxSessions]
    /\ number \in [Streams -> 0 .. Numbers - 1]
    /\ chunk \in [Streams ->
         [Slots -> [no : 0 .. Numbers - 1, kind : {"whole", "torn", "raced"}]]]
    /\ have \in [Streams -> SUBSET Offsets]
    /\ clean \in [Streams -> BOOLEAN]

-----------------------------------------------------------------------------
(* The state ptx_attach leaves: streams closed and empty, daemon polling.    *)
Init ==
    /\ opened = [s \in Streams |-> FALSE]
    /\ started = [s \in Streams |-> FALSE]
    /\ wp = [s \in Streams |-> 0]
    /\ rp = [s \in Streams |-> 0]
    /\ filled = [s \in Streams |-> 0]
    /\ used = [s \in Streams |-> 0]
    /\ tsen = [s \in Streams |-> FALSE]
    /\ lock = [s \in Streams |-> FALSE]
    /\ dpc = "fetch" /\ cur = NoStream /\ nb = 1 /\ reg = 0
    /\ rpc = [s \in Streams |-> [r \in Readers |-> "idle"]]
    /\ resid = [s \in Streams |-> [r \in Readers |-> 0]]
    /\ copying = [s \in Streams |-> [r \in Readers |-> NoCopy]]
    /\ upos = [s \in Streams |-> 0] /\ errs = 0
    /\ sess = [s \in Streams |-> 0]
    /\ number = [s \in Streams |-> 0]
    /\ chunk = [s \in Streams |-> [i \in Slots |-> [no |-> 0, kind |-> "torn"]]]
    /\ have = [s \in Streams |-> {}]
    /\ clean = [s \in Streams |-> TRUE]

-----------------------------------------------------------------------------
(* Mutant: the signal to the readers forgotten. *)
NoSignalNotEmpty(s) == UNCHANGED rpc

(* Condition variables.  cv_signal wakes one of the threads that wait, if    *)
(* any: readers wait on not_empty, only the daemon waits on not_full.        *)
SignalNotEmpty(s) ==
    LET sleeping == {r \in Readers : rpc[s][r] \in Waiting}
    IN  IF sleeping = {} THEN UNCHANGED rpc
        ELSE \E r \in sleeping :
               rpc' = [rpc EXCEPT ![s][r] =
                         IF @ = "emptyFirst" THEN "wokenFirst" ELSE "wokenNext"]

SignalNotFull(s) ==
    dpc' = IF dpc = "wait" /\ cur = s THEN "woken" ELSE dpc

(* Mutant: the wrap forgotten in the test for a full ring. *)
FullWithoutWrap(s) == wp[s] + 1 = rp[s]

Full(s) == (wp[s] + 1) % ChunkNum = rp[s]
Empty(s) == rp[s] = wp[s]

-----------------------------------------------------------------------------
(* ptxopen and ptxclose.                                                     *)

(* Under the lock: the stream is claimed.  A second open finds opened TRUE   *)
(* and returns EBUSY with nothing changed.                                   *)
OpenBegin(s) ==
    /\ ~ lock[s]
    /\ ~ opened[s]
    /\ sess[s] < MaxSessions
    /\ lock' = [lock EXCEPT ![s] = TRUE]
    /\ opened' = [opened EXCEPT ![s] = TRUE]
    /\ started' = [started EXCEPT ![s] = FALSE]
    /\ sess' = [sess EXCEPT ![s] = @ + 1]
    /\ UNCHANGED <<wp, rp, filled, used, tsen, daemonVars, readerVars, hwVars,
                   number, chunk, have, clean>>

(* Mutant: rp is not reset. *)
OpenResetKeepsRp(s) ==
    /\ lock[s]
    /\ wp' = [wp EXCEPT ![s] = 0]
    /\ filled' = [filled EXCEPT ![s] = 0]
    /\ used' = [used EXCEPT ![s] = 0]
    /\ lock' = [lock EXCEPT ![s] = FALSE]
    /\ number' = [number EXCEPT ![s] = 0]
    /\ have' = [have EXCEPT ![s] = {}]
    /\ clean' = [clean EXCEPT ![s] = (cur # s)]
    /\ UNCHANGED <<opened, started, rp, tsen, daemonVars, readerVars, hwVars,
                   sess, chunk>>

(* ... and then its ring is reset, still under the lock. *)
OpenReset(s) ==
    /\ lock[s]
    /\ wp' = [wp EXCEPT ![s] = 0]
    /\ filled' = [filled EXCEPT ![s] = 0]
    /\ rp' = [rp EXCEPT ![s] = 0]
    /\ used' = [used EXCEPT ![s] = 0]
    /\ lock' = [lock EXCEPT ![s] = FALSE]
    /\ number' = [number EXCEPT ![s] = 0]
    /\ have' = [have EXCEPT ![s] = {}]
    /\ clean' = [clean EXCEPT ![s] = (cur # s)]
    /\ UNCHANGED <<opened, started, tsen, daemonVars, readerVars, hwVars,
                   sess, chunk>>

(* The last close of the file.  A thread inside read(2) keeps the file open, *)
(* so readers are idle, unless the file is revoked.                          *)
Close(s) ==
    /\ ~ lock[s]
    /\ opened[s]
    /\ Revoke \/ \A r \in Readers : rpc[s][r] = "idle"
    /\ tsen' = [tsen EXCEPT ![s] = FALSE]
    /\ started' = [started EXCEPT ![s] = FALSE]
    /\ opened' = [opened EXCEPT ![s] = FALSE]
    /\ SignalNotFull(s)
    /\ UNCHANGED <<wp, rp, filled, used, lock, cur, nb, reg, readerVars, hwVars,
                   histVars>>

-----------------------------------------------------------------------------
(* read_dmabuf: one micropacket.                                             *)

(* A micropacket of a stream nobody has open is dropped. *)
Discard(s) ==
    /\ dpc = "fetch"
    /\ ~ opened[s]
    /\ upos' = [upos EXCEPT ![s] = (@ + 1) % PacketUnits]
    /\ UNCHANGED <<streamVars, daemonVars, readerVars, errs, histVars>>

(* One of an open stream is handled; its start bit marks the first one of a  *)
(* packet.                                                                   *)
Fetch(s) ==
    /\ dpc = "fetch"
    /\ opened[s]
    /\ upos' = [upos EXCEPT ![s] = (@ + 1) % PacketUnits]
    /\ cur' = s
    /\ dpc' = IF upos[s] = 0 THEN "trunc" ELSE "full"
    /\ UNCHANGED <<streamVars, nb, reg, readerVars, errs, histVars>>

(* The error bit: DMA starts afresh and what was in flight is lost, so every *)
(* stream goes on somewhere else in one of its packets.                      *)
MicroPacketError ==
    /\ dpc = "fetch"
    /\ errs < MaxErrors
    /\ errs' = errs + 1
    /\ upos' \in [Streams -> 0 .. PacketUnits - 1]
    /\ UNCHANGED <<streamVars, daemonVars, readerVars, histVars>>

(* A packet begins: is there an incomplete one before it in the chunk? *)
Truncate ==
    /\ dpc = "trunc"
    /\ reg' = IF PacketRem(filled[cur]) = 0 THEN 0 ELSE filled[cur]
    /\ dpc' = IF PacketRem(filled[cur]) = 0 THEN "full" ELSE "truncStore"
    /\ UNCHANGED <<streamVars, cur, nb, readerVars, hwVars, histVars>>

(* chunk_filled -= mod.  Nothing orders this against ptxopen, so the value   *)
(* that mod is taken from may be the one loaded before or a fresh one.       *)
TruncateStore ==
    /\ dpc = "truncStore"
    /\ \E x \in {reg, filled[cur]} :
         /\ filled' = [filled EXCEPT ![cur] = x - PacketRem(reg)]
         /\ have' = [have EXCEPT ![cur] =
                       {o \in @ : o < x - PacketRem(reg)}]
    /\ dpc' = "full" /\ reg' = 0
    /\ UNCHANGED <<opened, started, wp, rp, used, tsen, lock, cur, nb,
                   readerVars, hwVars, sess, number, chunk, clean>>

(* Mutant: the chunk counts as complete when three bytes more do not fit. *)
CheckFilledEarly ==
    /\ dpc = "full"
    /\ dpc' = IF filled[cur] + 3 > ChunkSize THEN "lock" ELSE "store"
    /\ UNCHANGED <<streamVars, cur, nb, reg, readerVars, hwVars, histVars>>

(* Is the chunk at wp complete?  Read without the lock. *)
CheckFilled ==
    /\ dpc = "full"
    /\ dpc' = IF filled[cur] >= ChunkSize THEN "lock" ELSE "store"
    /\ UNCHANGED <<streamVars, cur, nb, reg, readerVars, hwVars, histVars>>

(* wp++, cv_signal(&s->not_empty), unlock. *)
Publish(s) ==
    /\ wp' = [wp EXCEPT ![s] = NextSlot(@)]
    /\ SignalNotEmpty(s)
    /\ dpc' = "clear"
    /\ chunk' = [chunk EXCEPT ![s][wp[s]] =
                   [no |-> number[s],
                    kind |-> IF have[s] = Offsets THEN "whole"
                             ELSE IF clean[s] THEN "torn" ELSE "raced"]]
    /\ number' = [number EXCEPT ![s] = (@ + 1) % Numbers]
    /\ have' = [have EXCEPT ![s] = {}]
    /\ clean' = [clean EXCEPT ![s] = TRUE]
    /\ UNCHANGED <<opened, started, rp, filled, used, tsen, lock, cur, nb, reg,
                   resid, copying, hwVars, sess>>

(* Under the lock: a full ring makes the daemon wait for not_full. *)
PublishOrWait ==
    /\ dpc = "lock"
    /\ ~ lock[cur]
    /\ \/ ~ Full(cur) /\ Publish(cur)
       \/ /\ Full(cur)
          /\ dpc' = "wait"
          /\ UNCHANGED <<streamVars, cur, nb, reg, readerVars, hwVars, histVars>>

(* Mutant: cv_wait in place of cv_timedwait. *)
TimeoutNever == FALSE /\ UNCHANGED vars

(* cv_timedwait gives up after half a second. *)
Timeout ==
    /\ dpc = "wait"
    /\ dpc' = "woken"
    /\ UNCHANGED <<streamVars, cur, nb, reg, readerVars, hwVars, histVars>>

(* Mutant: waits again for as long as the ring is full. *)
PublishOrWaitAgain ==
    /\ dpc = "woken"
    /\ ~ lock[cur]
    /\ \/ ~ Full(cur) /\ Publish(cur)
       \/ /\ Full(cur)
          /\ dpc' = "wait"
          /\ UNCHANGED <<streamVars, cur, nb, reg, readerVars, hwVars, histVars>>

(* Awake and holding the lock again: publish, or drop the micropacket and    *)
(* leave the chunk complete at wp.                                           *)
PublishOrDrop ==
    /\ dpc = "woken"
    /\ ~ lock[cur]
    /\ \/ ~ Full(cur) /\ Publish(cur)
       \/ /\ Full(cur)
          /\ dpc' = "fetch" /\ cur' = NoStream
          /\ UNCHANGED <<streamVars, nb, reg, readerVars, hwVars, histVars>>

(* The new chunk starts empty; the lock is no longer held. *)
ClearFilled ==
    /\ dpc = "clear"
    /\ filled' = [filled EXCEPT ![cur] = 0]
    /\ dpc' = "store"
    /\ UNCHANGED <<opened, started, wp, rp, used, tsen, lock, cur, nb, reg,
                   readerVars, hwVars, histVars>>

(* buf[wp * DATA_CHUNK_SIZE + chunk_filled] = byte.  The chunk that contains *)
(* that address takes the number of the one being written.                   *)
Store ==
    /\ dpc = "store"
    /\ LET addr == wp[cur] * ChunkSize + filled[cur]
       IN  chunk' = IF addr \in 0 .. ChunkNum * ChunkSize - 1
                    THEN [chunk EXCEPT ![cur][addr \div ChunkSize].no =
                            number[cur]]
                    ELSE chunk
    /\ have' = [have EXCEPT ![cur] = @ \cup ({filled[cur]} \cap Offsets)]
    /\ dpc' = "incLoad"
    /\ UNCHANGED <<streamVars, cur, nb, reg, readerVars, hwVars,
                   sess, number, clean>>

(* chunk_filled++ in two steps. *)
IncLoad ==
    /\ dpc = "incLoad"
    /\ reg' = filled[cur]
    /\ dpc' = "incStore"
    /\ UNCHANGED <<streamVars, cur, nb, readerVars, hwVars, histVars>>

(* Mutant: the third byte is always stored. *)
IncStoreThreeBytes ==
    /\ dpc = "incStore"
    /\ filled' = [filled EXCEPT ![cur] = reg + 1]
    /\ reg' = 0
    /\ IF nb = 3
         THEN dpc' = "fetch" /\ cur' = NoStream /\ nb' = 1
         ELSE dpc' = "store" /\ cur' = cur /\ nb' = nb + 1
    /\ UNCHANGED <<opened, started, wp, rp, used, tsen, lock,
                   readerVars, hwVars, histVars>>

(* After the second byte the end of a packet ends the micropacket early. *)
IncStore ==
    /\ dpc = "incStore"
    /\ filled' = [filled EXCEPT ![cur] = reg + 1]
    /\ reg' = 0
    /\ IF nb = 3 \/ (nb = 2 /\ PacketRem(reg + 1) = 0)
         THEN dpc' = "fetch" /\ cur' = NoStream /\ nb' = 1
         ELSE dpc' = "store" /\ cur' = cur /\ nb' = nb + 1
    /\ UNCHANGED <<opened, started, wp, rp, used, tsen, lock,
                   readerVars, hwVars, histVars>>

DaemonStep ==
    \/ Truncate \/ TruncateStore \/ CheckFilled \/ PublishOrWait
    \/ PublishOrDrop \/ ClearFilled \/ Store \/ IncLoad \/ IncStore

-----------------------------------------------------------------------------
(* ptxread.                                                                  *)

Goto(s, r, pc) == rpc' = [rpc EXCEPT ![s][r] = pc]

(* read(2) on the open file; the first one switches the stream on. *)
ReadCall(s, r) ==
    /\ opened[s] /\ ~ lock[s]
    /\ rpc[s][r] = "idle"
    /\ \E n \in ReadSizes : resid' = [resid EXCEPT ![s][r] = n]
    /\ tsen' = IF started[s] THEN tsen ELSE [tsen EXCEPT ![s] = TRUE]
    /\ started' = [started EXCEPT ![s] = TRUE]
    /\ Goto(s, r, "enter")
    /\ UNCHANGED <<opened, wp, rp, filled, used, lock, daemonVars, copying,
                   hwVars, histVars>>

(* The stream is empty: wait for not_empty. *)
EnterOrWait(s, r) ==
    /\ rpc[s][r] = "enter"
    /\ ~ lock[s]
    /\ Goto(s, r, IF Empty(s) THEN "emptyFirst" ELSE "first")
    /\ UNCHANGED <<streamVars, daemonVars, resid, copying, hwVars, histVars>>

Return(s, r) ==
    /\ Goto(s, r, "idle")
    /\ resid' = [resid EXCEPT ![s][r] = 0]
    /\ copying' = [copying EXCEPT ![s][r] = NoCopy]

(* Awake and holding the lock again: give up if the file has been closed,    *)
(* wait again if the stream is still empty.                                  *)
Woken(s, r) ==
    /\ rpc[s][r] \in {"wokenFirst", "wokenNext"}
    /\ ~ lock[s]
    /\ \/ ~ (opened[s] /\ started[s]) /\ Return(s, r)
       \/ /\ opened[s] /\ started[s]
          /\ Goto(s, r,
               IF rpc[s][r] = "wokenFirst"
                 THEN IF Empty(s) THEN "emptyFirst" ELSE "first"
                 ELSE IF Empty(s) THEN "emptyNext" ELSE "clear")
          /\ UNCHANGED <<resid, copying>>
    /\ UNCHANGED <<streamVars, daemonVars, hwVars, histVars>>

(* Mutant: all that is wanted is copied at once. *)
StartCopyAll(s, r) ==
    /\ copying' = [copying EXCEPT ![s][r] =
         [slot |-> rp[s], size |-> resid[s][r]]]
    /\ Goto(s, r, "copy")

(* uiomove of what is left of the chunk at rp, or of what is still wanted. *)
StartCopy(s, r) ==
    LET left == ChunkSize - used[s]
    IN  /\ copying' = [copying EXCEPT ![s][r] =
             [slot |-> rp[s],
              size |-> IF resid[s][r] < left THEN resid[s][r] ELSE left]]
        /\ Goto(s, r, "copy")

(* The rest of the chunk that the previous read(2) left, if any. *)
CopyRest(s, r) ==
    /\ rpc[s][r] = "first"
    /\ IF used[s] < ChunkSize THEN StartCopy(s, r)
       ELSE Goto(s, r, "loop") /\ UNCHANGED copying
    /\ UNCHANGED <<streamVars, daemonVars, resid, hwVars, histVars>>

(* uiomove is done ... *)
CopyDone(s, r) ==
    /\ rpc[s][r] = "copy"
    /\ used' = [used EXCEPT ![s] = @ + copying[s][r].size]
    /\ resid' = [resid EXCEPT ![s][r] = @ - copying[s][r].size]
    /\ copying' = [copying EXCEPT ![s][r] = NoCopy]
    /\ Goto(s, r, "loop")
    /\ UNCHANGED <<opened, started, wp, rp, filled, tsen, lock, daemonVars,
                   hwVars, histVars>>

(* ... or has failed. *)
CopyFault(s, r) ==
    /\ rpc[s][r] = "copy"
    /\ Return(s, r)
    /\ UNCHANGED <<streamVars, daemonVars, hwVars, histVars>>

(* Mutant: a request that the rest of the chunk cannot fill skips the rest. *)
LoopSkipsRest(s, r) ==
    /\ rpc[s][r] = "loop"
    /\ \/ resid[s][r] = 0 /\ Return(s, r)
       \/ resid[s][r] > 0 /\ used[s] + resid[s][r] <= ChunkSize
          /\ StartCopy(s, r) /\ UNCHANGED resid
       \/ resid[s][r] > 0 /\ used[s] + resid[s][r] > ChunkSize
          /\ Goto(s, r, "advance") /\ UNCHANGED <<resid, copying>>
    /\ UNCHANGED <<streamVars, daemonVars, hwVars, histVars>>

(* while (resid > 0): go on with this chunk or with the next one. *)
Loop(s, r) ==
    /\ rpc[s][r] = "loop"
    /\ \/ resid[s][r] = 0 /\ Return(s, r)
       \/ resid[s][r] > 0 /\ used[s] < ChunkSize /\ StartCopy(s, r)
          /\ UNCHANGED resid
       \/ resid[s][r] > 0 /\ used[s] >= ChunkSize /\ Goto(s, r, "advance")
          /\ UNCHANGED <<resid, copying>>
    /\ UNCHANGED <<streamVars, daemonVars, hwVars, histVars>>

(* Under the lock: give the chunk back, wake the daemon, wait for another. *)
Advance(s, r) ==
    /\ rpc[s][r] = "advance"
    /\ ~ lock[s]
    /\ rp' = [rp EXCEPT ![s] = NextSlot(@)]
    /\ SignalNotFull(s)
    /\ Goto(s, r, IF NextSlot(rp[s]) = wp[s] THEN "emptyNext" ELSE "clear")
    /\ UNCHANGED <<opened, started, wp, filled, used, tsen, lock, cur, nb, reg,
                   resid, copying, hwVars, histVars>>

(* The next chunk starts unread; the lock is no longer held.  Back in the    *)
(* loop its first bytes are copied.                                          *)
ClearUsed(s, r) ==
    /\ rpc[s][r] = "clear"
    /\ used' = [used EXCEPT ![s] = 0]
    /\ Goto(s, r, "loop")
    /\ UNCHANGED <<opened, started, wp, rp, filled, tsen, lock, daemonVars,
                   resid, copying, hwVars, histVars>>

ReaderStep(s, r) ==
    \/ EnterOrWait(s, r) \/ Woken(s, r) \/ CopyRest(s, r) \/ CopyDone(s, r)
    \/ CopyFault(s, r) \/ Loop(s, r) \/ Advance(s, r) \/ ClearUsed(s, r)

-----------------------------------------------------------------------------
Next ==
    \/ \E s \in Streams :
         \/ OpenBegin(s) \/ OpenReset(s) \/ Close(s)
         \/ Discard(s) \/ Fetch(s)
         \/ \E r \in Readers : ReadCall(s, r) \/ ReaderStep(s, r)
    \/ MicroPacketError
    \/ DaemonStep
    \/ Timeout

Spec == Init /\ [][Next]_vars

(* The kernel runs the daemon, lets a timed wait end, and finishes an open   *)
(* and whatever a read(2) is doing; the board keeps filling pages with the   *)
(* micropackets of a stream that is switched on.  Nobody has to call         *)
(* read(2), open or close a stream.                                          *)
Fairness ==
    /\ WF_vars(DaemonStep)
    /\ WF_vars(Timeout)
    /\ \A s \in Streams :
         /\ WF_vars(OpenReset(s))
         /\ SF_vars(tsen[s] /\ Fetch(s))
         /\ \A r \in Readers : WF_vars(ReaderStep(s, r))

FairSpec == Spec /\ Fairness

-----------------------------------------------------------------------------
(* Safety.                                                                   *)

(* The chunks of stream s that are published and not given back, oldest      *)
(* first, as slots.                                                          *)
Backlog(s)     == (wp[s] - rp[s]) % ChunkNum
WaitingSlot(s, i) == (rp[s] + i - 1) % ChunkNum

(* A thread that is copying a chunk to user space copies the one at rp, and  *)
(* that is never the one the daemon is writing: neither the daemon nor       *)
(* another reader moves on under it (ptx_proc.c:166-204, ptx_tuner.c:388).   *)
CopiedChunkIsStable ==
    \A s \in Streams, r \in Readers :
        rpc[s][r] = "copy" =>
            /\ copying[s][r].slot = rp[s]
            /\ rp[s] # wp[s]

(* Every byte the daemon stores falls into the chunk at wp: chunk_filled     *)
(* never goes past the end of a chunk, whatever the error bit cuts short.    *)
(* ptx_proc.c asserts it for the first byte of a micropacket only            *)
(* (190-193).  Excepted is a session opened while the daemon was busy with a *)
(* micropacket of the stream, until its first chunk is published.            *)
StoresStayInChunk ==
    dpc = "store" /\ clean[cur] => filled[cur] \in Offsets

(* A chunk that waits for the reader has had every one of its bytes written  *)
(* since it was begun; excepted is, again, the first one of a session opened *)
(* under the daemon's hands.                                                 *)
WaitingChunksAreWhole ==
    \A s \in Streams : \A i \in 1 .. Backlog(s) :
        chunk[s][WaitingSlot(s, i)].kind # "torn"

(* No thread sleeps on a condition that holds: a reader on not_empty only    *)
(* while its stream is empty, the daemon on not_full only while the stream   *)
(* is full.  Reopening the stream empties it without a signal, so there the  *)
(* daemon may sleep its half second out (ptxopen, 321-324).                  *)
NoLostWakeup ==
    /\ \A s \in Streams, r \in Readers : rpc[s][r] \in Waiting => Empty(s)
    /\ dpc = "wait" => Full(cur) \/ ~ clean[cur]

(* A chunk is given back only when all of its bytes have been copied to user *)
(* space: no read size, fault or interleaving loses the rest of a chunk.     *)
ChunksAreReadToTheEnd ==
    [][\A s \in Streams :
         rp'[s] # rp[s] /\ ~ lock[s] => used[s] = ChunkSize]_vars

-----------------------------------------------------------------------------
(* The ring implements ChunkFifo: the numbers of the chunks that wait are    *)
(* the abstract queue.                                                       *)
Fifo == INSTANCE ChunkFifo WITH
    Capacity <- ChunkNum - 1,
    fifo <- [s \in Streams |->
               [i \in 1 .. Backlog(s) |-> chunk[s][WaitingSlot(s, i)].no]]

(* Whatever a stream's daemon and reader do to wp, rp and the buffer, the    *)
(* chunks come out in order, once each, and at most ChunkNum - 1 wait.       *)
ImplementsChunkFifo == Fifo!Spec

-----------------------------------------------------------------------------
(* Liveness.                                                                 *)

(* Whatever the readers do, or do not do, the daemon comes back for the next *)
(* micropacket: the one thread that serves all streams is not held up for    *)
(* ever by one of them (cv_timedwait, ptx_proc.c:172).                       *)
DaemonReturns == dpc # "fetch" ~> dpc = "fetch"

(* A thread that waits for data gets some, even if the readers of the other  *)
(* streams have stopped reading theirs.                                      *)
WaitingReaderIsServed ==
    \A s \in Streams, r \in Readers :
        rpc[s][r] \in Waiting ~> rpc[s][r] \notin Waiting

-----------------------------------------------------------------------------
(* What the code's assertions say.                                           *)

(* KASSERT "negative chunk_filled?", "chunk_filled overflow" and the two on  *)
(* wp, before the first byte of a micropacket (ptx_proc.c:190-193).          *)
DaemonAssertions ==
    dpc = "store" /\ nb = 1 => filled[cur] \in Offsets /\ wp[cur] \in Slots

(* KASSERT "chunk_used overflow" (ptx_tuner.c:393, 430): a copy never goes    *)
(* past the end of the chunk.  True of one reader, not of two.               *)
ReaderAssertions == \A s \in Streams : used[s] <= ChunkSize
=============================================================================
