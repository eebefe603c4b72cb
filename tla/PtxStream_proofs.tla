-------------------------- MODULE PtxStream_proofs --------------------------
(***************************************************************************)
(* Theorems about PtxStream, for every number of streams, readers and      *)
(* chunks, every chunk and packet size, every read size and any number of  *)
(* sessions and errors.                                                    *)
(***************************************************************************)
EXTENDS PtxStream, Sequences, TLAPS

-----------------------------------------------------------------------------
(* Slots.                                                                    *)

(* The test for a full ring, which takes the remainder, and the step to the  *)
(* next slot, which compares, agree.                                         *)
LEMMA NextSlotIsRemainder ==
    ASSUME NEW i \in Slots
    PROVE  (i + 1) % ChunkNum = NextSlot(i)
BY PtxStreamAssumption DEF Slots, NextSlot

LEMMA NextSlotType ==
    ASSUME NEW i \in Slots
    PROVE  NextSlot(i) \in Slots /\ NextSlot(i) # i
BY PtxStreamAssumption DEF Slots, NextSlot

LEMMA SlotZero == 0 \in Slots
BY PtxStreamAssumption DEF Slots

LEMMA UnitsType == PacketUnits \in Nat \ {0}
BY PtxStreamAssumption DEF PacketUnits

LEMMA RemType == ASSUME NEW x \in Int PROVE PacketRem(x) \in Int
<1>1. PacketSize \in Nat \ {0}
  BY PtxStreamAssumption
<1>2. \A y \in Int : y % PacketSize \in Int
  BY <1>1
<1> QED
  BY <1>2 DEF PacketRem

LEMMA NumberType ==
    ASSUME NEW n \in 0 .. Numbers - 1
    PROVE  (n + 1) % Numbers \in 0 .. Numbers - 1 /\ 0 \in 0 .. Numbers - 1
BY PtxStreamAssumption

-----------------------------------------------------------------------------
(* Types.                                                                    *)

(* TypeOK is not inductive: the daemon's steps index the streams by cur, and *)
(* what is left of a request stays natural because a copy is never larger    *)
(* than the request.                                                         *)
TypeInv ==
    /\ TypeOK
    /\ dpc # "fetch" => cur \in Streams
    /\ \A s \in Streams, r \in Readers :
         rpc[s][r] = "copy" => copying[s][r].size <= resid[s][r]

LEMMA TypeInvInit == Init => TypeInv
<1> SUFFICES ASSUME Init PROVE TypeInv
  OBVIOUS
<1>1. 0 \in 0 .. Numbers - 1
  BY PtxStreamAssumption
<1>2. TypeOK
  BY <1>1, SlotZero, PtxStreamAssumption
  DEF Init, TypeOK, NoStream, DaemonPCs, ReaderPCs, NoCopy
<1> QED
  BY <1>2 DEF Init, TypeInv

LEMMA SignalNotEmptyType ==
    ASSUME NEW s \in Streams, rpc \in [Streams -> [Readers -> ReaderPCs]],
           SignalNotEmpty(s)
    PROVE  /\ rpc' \in [Streams -> [Readers -> ReaderPCs]]
           /\ \A x \in Streams, r \in Readers :
                (rpc'[x][r] = "copy") = (rpc[x][r] = "copy")
BY DEF SignalNotEmpty, ReaderPCs, Waiting

LEMMA SignalNotFullType ==
    ASSUME NEW s, dpc \in DaemonPCs, SignalNotFull(s)
    PROVE  dpc' \in DaemonPCs /\ (dpc = "fetch" <=> dpc' = "fetch")
BY DEF SignalNotFull, DaemonPCs

LEMMA PublishType ==
    ASSUME TypeInv, cur \in Streams, Publish(cur)
    PROVE  TypeInv'
<1> USE DEF TypeInv, TypeOK
<1>1. NextSlot(wp[cur]) \in Slots
  BY NextSlotType
<1>2. (number[cur] + 1) % Numbers \in 0 .. Numbers - 1
  BY NumberType
<1>3. /\ rpc' \in [Streams -> [Readers -> ReaderPCs]]
      /\ \A x \in Streams, r \in Readers :
           (rpc'[x][r] = "copy") = (rpc[x][r] = "copy")
  BY SignalNotEmptyType DEF Publish
<1>4. chunk' \in [Streams ->
         [Slots -> [no : 0 .. Numbers - 1, kind : {"whole", "torn", "raced"}]]]
  BY DEF Publish
<1>5. have' \in [Streams -> SUBSET Offsets] /\ clean' \in [Streams -> BOOLEAN]
  BY DEF Publish
<1>6. wp' \in [Streams -> Slots] /\ number' \in [Streams -> 0 .. Numbers - 1]
  BY <1>1, <1>2 DEF Publish
<1>7. dpc' \in DaemonPCs /\ cur' \in Streams
  BY DEF Publish, DaemonPCs
<1>8. TypeOK'
  BY <1>3, <1>4, <1>5, <1>6, <1>7 DEF Publish, hwVars
<1>9. \A s \in Streams, r \in Readers :
         rpc'[s][r] = "copy" => copying'[s][r].size <= resid'[s][r]
  BY <1>3 DEF Publish
<1> QED
  BY <1>7, <1>8, <1>9

LEMMA ChunkNumberType ==
    ASSUME NEW s \in Streams, TypeOK, NEW j
    PROVE  [chunk EXCEPT ![s][j].no = number[s]] \in
             [Streams -> [Slots -> [no : 0 .. Numbers - 1,
                                    kind : {"whole", "torn", "raced"}]]]
<1> DEFINE C == [no : 0 .. Numbers - 1, kind : {"whole", "torn", "raced"}]
           n == number[s]
           f == chunk[s]
<1>1. n \in 0 .. Numbers - 1 /\ f \in [Slots -> C] /\ chunk \in [Streams -> [Slots -> C]]
  BY DEF TypeOK
<1> HIDE DEF n, f
<1>2. ASSUME NEW c \in C
      PROVE  [c EXCEPT !.no = n] \in C
  BY <1>1
<1>3. [f EXCEPT ![j].no = n] \in [Slots -> C]
  <2> HIDE DEF C
  <2> QED
    BY <1>1, <1>2
<1>4. [chunk EXCEPT ![s] = [f EXCEPT ![j].no = n]] \in [Streams -> [Slots -> C]]
  BY <1>1, <1>3
<1> QED
  BY <1>4 DEF n, f

LEMMA DaemonStepType ==
    ASSUME TypeInv, DaemonStep \/ Timeout
    PROVE  TypeInv'
<1> USE DEF TypeInv, TypeOK, streamVars, daemonVars, readerVars, hwVars,
            histVars, DaemonPCs
<1>1. CASE Truncate
  BY <1>1 DEF Truncate
<1>2. CASE TruncateStore
  <2>1. PacketRem(reg) \in Int /\ cur \in Streams
    BY <1>2, RemType DEF TruncateStore
  <2>2. filled' \in [Streams -> Int] /\ have' \in [Streams -> SUBSET Offsets]
    BY <1>2, <2>1 DEF TruncateStore
  <2> QED
    BY <1>2, <2>1, <2>2 DEF TruncateStore
<1>3. CASE CheckFilled
  BY <1>3 DEF CheckFilled
<1>4. CASE PublishOrWait
  <2>1. CASE Publish(cur)
    BY <1>4, <2>1, PublishType DEF PublishOrWait
  <2>2. CASE ~ Publish(cur)
    BY <1>4, <2>2 DEF PublishOrWait
  <2> QED
    BY <2>1, <2>2
<1>5. CASE PublishOrDrop
  <2>1. CASE Publish(cur)
    BY <1>5, <2>1, PublishType DEF PublishOrDrop
  <2>2. CASE ~ Publish(cur)
    BY <1>5, <2>2 DEF PublishOrDrop
  <2> QED
    BY <2>1, <2>2
<1>6. CASE ClearFilled
  BY <1>6 DEF ClearFilled
<1>7. CASE Store
  <2>1. have' \in [Streams -> SUBSET Offsets]
    BY <1>7 DEF Store
  <2>2. chunk' \in [Streams ->
         [Slots -> [no : 0 .. Numbers - 1, kind : {"whole", "torn", "raced"}]]]
    BY <1>7, ChunkNumberType DEF Store
  <2> QED
    BY <1>7, <2>1, <2>2 DEF Store
<1>8. CASE IncLoad
  BY <1>8 DEF IncLoad
<1>9. CASE IncStore
  <2>1. filled' \in [Streams -> Int]
    BY <1>9 DEF IncStore
  <2>2. /\ nb' \in 1 .. 3 /\ dpc' \in DaemonPCs
        /\ cur' \in Streams \cup {NoStream}
        /\ dpc' # "fetch" => cur' \in Streams
    BY <1>9 DEF IncStore
  <2> QED
    BY <1>9, <2>1, <2>2 DEF IncStore
<1>10. CASE Timeout
  BY <1>10 DEF Timeout
<1> QED
  BY <1>1, <1>2, <1>3, <1>4, <1>5, <1>6, <1>7, <1>8, <1>9, <1>10 DEF DaemonStep

LEMMA ReaderStepType ==
    ASSUME TypeInv, NEW s \in Streams, NEW r \in Readers,
           ReadCall(s, r) \/ ReaderStep(s, r)
    PROVE  TypeInv'
<1> USE DEF TypeInv, TypeOK, Goto
<1> DEFINE Copies ==
      copying \in [Streams -> [Readers -> [slot : Slots, size : Nat]]]
<1>1. CASE ReadCall(s, r)
  <2>1. /\ resid' \in [Streams -> [Readers -> Nat]]
        /\ \A x \in Streams, y \in Readers :
             rpc'[x][y] = "copy" => resid'[x][y] = resid[x][y]
    BY <1>1, PtxStreamAssumption DEF ReadCall, ReaderPCs
  <2>2. /\ rpc' \in [Streams -> [Readers -> ReaderPCs]]
        /\ \A x \in Streams, y \in Readers :
             rpc'[x][y] = "copy" => rpc[x][y] = "copy"
        /\ tsen' \in [Streams -> BOOLEAN] /\ started' \in [Streams -> BOOLEAN]
    BY <1>1 DEF ReadCall, ReaderPCs
  <2> QED
    BY <1>1, <2>1, <2>2 DEF ReadCall, daemonVars, hwVars, histVars
<1>2. ASSUME Return(s, r), UNCHANGED <<streamVars, daemonVars, hwVars, histVars>>
      PROVE  TypeInv'
  <2>1. Copies'
    BY <1>2, SlotZero DEF Return, NoCopy
  <2>2. rpc' \in [Streams -> [Readers -> ReaderPCs]]
    BY <1>2 DEF Return, ReaderPCs
  <2>3. resid' \in [Streams -> [Readers -> Nat]]
    BY <1>2 DEF Return
  <2>4. \A x \in Streams, y \in Readers :
          rpc'[x][y] = "copy" => copying'[x][y].size <= resid'[x][y]
    BY <1>2 DEF Return
  <2> QED
    BY <1>2, <2>1, <2>2, <2>3, <2>4
    DEF streamVars, daemonVars, hwVars, histVars
<1>3. ASSUME used[s] < ChunkSize, StartCopy(s, r),
             UNCHANGED <<streamVars, daemonVars, resid, hwVars, histVars>>
      PROVE  TypeInv'
  <2> DEFINE left == ChunkSize - used[s]
             size == IF resid[s][r] < left THEN resid[s][r] ELSE left
  <2>1. size \in Nat /\ size <= resid[s][r] /\ rp[s] \in Slots
    BY <1>3, PtxStreamAssumption
  <2>2. /\ copying' = [copying EXCEPT ![s][r] = [slot |-> rp[s], size |-> size]]
        /\ rpc' = [rpc EXCEPT ![s][r] = "copy"]
    BY <1>3 DEF StartCopy
  <2> HIDE DEF size
  <2>3. Copies'
    BY <2>1, <2>2
  <2>4. rpc' \in [Streams -> [Readers -> ReaderPCs]]
    BY <2>2 DEF ReaderPCs
  <2>5. \A x \in Streams, y \in Readers :
          rpc'[x][y] = "copy" => copying'[x][y].size <= resid'[x][y]
    BY <1>3, <2>1, <2>2
  <2> QED
    BY <1>3, <2>3, <2>4, <2>5 DEF streamVars, daemonVars, hwVars, histVars
<1>4. ASSUME NEW pc \in ReaderPCs \ {"copy"}, Goto(s, r, pc),
             UNCHANGED <<streamVars, daemonVars, resid, copying, hwVars, histVars>>
      PROVE  TypeInv'
  BY <1>4 DEF streamVars, daemonVars, hwVars, histVars
<1>5. CASE EnterOrWait(s, r)
  BY <1>4, <1>5 DEF EnterOrWait, ReaderPCs
<1>6. CASE Woken(s, r)
  BY <1>2, <1>4, <1>6 DEF Woken, ReaderPCs
<1>7. CASE CopyRest(s, r)
  BY <1>3, <1>4, <1>7 DEF CopyRest, ReaderPCs
<1>8. CASE CopyDone(s, r)
  <2>1. /\ copying[s][r].size \in Nat
        /\ copying[s][r].size <= resid[s][r] /\ resid[s][r] \in Nat
    BY <1>8 DEF CopyDone
  <2>2. used' \in [Streams -> Nat] /\ resid' \in [Streams -> [Readers -> Nat]]
    BY <1>8, <2>1 DEF CopyDone
  <2>3. Copies'
    BY <1>8, SlotZero DEF CopyDone, NoCopy
  <2>4. rpc' \in [Streams -> [Readers -> ReaderPCs]]
    BY <1>8 DEF CopyDone, ReaderPCs
  <2>5. \A x \in Streams, y \in Readers :
          rpc'[x][y] = "copy" => copying'[x][y].size <= resid'[x][y]
    BY <1>8, <2>1 DEF CopyDone
  <2> QED
    BY <1>8, <2>2, <2>3, <2>4, <2>5 DEF CopyDone, daemonVars, hwVars, histVars
<1>9. CASE CopyFault(s, r)
  BY <1>2, <1>9 DEF CopyFault
<1>10. CASE Loop(s, r)
  BY <1>2, <1>3, <1>4, <1>10 DEF Loop, ReaderPCs
<1>11. CASE Advance(s, r)
  <2>1. NextSlot(rp[s]) \in Slots
    BY NextSlotType
  <2>2. dpc' \in DaemonPCs /\ (dpc = "fetch" <=> dpc' = "fetch")
    BY <1>11, SignalNotFullType DEF Advance
  <2>3. /\ rpc' \in [Streams -> [Readers -> ReaderPCs]]
        /\ \A x \in Streams, y \in Readers :
             rpc'[x][y] = "copy" => rpc[x][y] = "copy"
    BY <1>11 DEF Advance, ReaderPCs
  <2> QED
    BY <1>11, <2>1, <2>2, <2>3 DEF Advance, hwVars, histVars
<1>12. CASE ClearUsed(s, r)
  BY <1>12 DEF ClearUsed, daemonVars, hwVars, histVars, ReaderPCs
<1> QED
  BY <1>1, <1>5, <1>6, <1>7, <1>8, <1>9, <1>10, <1>11, <1>12 DEF ReaderStep

LEMMA OtherStepType ==
    ASSUME TypeInv, NEW s \in Streams,
           \/ OpenBegin(s) \/ OpenReset(s) \/ Close(s)
           \/ Discard(s) \/ Fetch(s)
    PROVE  TypeInv'
<1> USE DEF TypeInv, TypeOK, streamVars, daemonVars, readerVars, hwVars, histVars
<1>1. CASE OpenBegin(s)
  BY <1>1, PtxStreamAssumption DEF OpenBegin
<1>2. CASE OpenReset(s)
  BY <1>2, SlotZero, NumberType DEF OpenReset
<1>3. CASE Close(s)
  <2>1. dpc' \in DaemonPCs /\ (dpc = "fetch" <=> dpc' = "fetch")
    BY <1>3, SignalNotFullType DEF Close
  <2> QED
    BY <1>3, <2>1 DEF Close
<1>4. upos[s] \in Nat /\ (upos[s] + 1) % PacketUnits \in Nat
  BY UnitsType
<1>5. CASE Discard(s)
  BY <1>4, <1>5 DEF Discard
<1>6. CASE Fetch(s)
  BY <1>4, <1>6 DEF Fetch, DaemonPCs
<1> QED
  BY <1>1, <1>2, <1>3, <1>5, <1>6

LEMMA ErrorStepType == TypeInv /\ MicroPacketError => TypeInv'
<1> SUFFICES ASSUME TypeInv, MicroPacketError PROVE TypeInv'
  OBVIOUS
<1> USE DEF TypeInv, TypeOK, MicroPacketError, streamVars, daemonVars,
            readerVars, histVars
<1>1. 0 .. PacketUnits - 1 \subseteq Nat
  OBVIOUS
<1>2. upos' \in [Streams -> Nat]
  BY <1>1
<1>3. errs' \in 0 .. MaxErrors
  BY PtxStreamAssumption
<1> QED
  BY <1>2, <1>3

(* Every step keeps the types.                                               *)
LEMMA TypeInvNext == TypeInv /\ [Next]_vars => TypeInv'
<1> SUFFICES ASSUME TypeInv, [Next]_vars PROVE TypeInv'
  OBVIOUS
<1>1. CASE UNCHANGED vars
  BY <1>1 DEF TypeInv, TypeOK, vars, streamVars, daemonVars, readerVars, hwVars,
              histVars
<1>2. CASE MicroPacketError
  BY <1>2, ErrorStepType
<1>3. CASE DaemonStep \/ Timeout
  BY <1>3, DaemonStepType
<1>4. ASSUME NEW s \in Streams,
             \/ OpenBegin(s) \/ OpenReset(s) \/ Close(s)
             \/ Discard(s) \/ Fetch(s)
             \/ \E r \in Readers : ReadCall(s, r) \/ ReaderStep(s, r)
      PROVE  TypeInv'
  BY <1>4, OtherStepType, ReaderStepType
<1> QED
  BY <1>1, <1>2, <1>3, <1>4 DEF Next

(* The variables always have their types: whatever the threads of a stream   *)
(* and the daemon do to each other, wp and rp stay slots of the ring         *)
(* (ptx_proc.c:192-193) and no request is copied past its size               *)
(* (ptx_tuner.c:395, 432).                                                   *)
THEOREM TypeCorrect == Spec => []TypeOK
<1>1. Spec => []TypeInv
  BY TypeInvInit, TypeInvNext, PTL DEF Spec
<1>2. TypeInv => TypeOK
  BY DEF TypeInv
<1> QED
  BY <1>1, <1>2, PTL

-----------------------------------------------------------------------------
(* One reader.  A device cannot be opened twice, so there is one reader      *)
(* unless a process hands the open file to another or to several threads of  *)
(* its own, and it stays the only one unless the file is revoked.            *)

OneReader ==
    /\ \A r, q \in Readers : r = q
    /\ ~ Revoke

(* A reader in one of these places has found the stream not empty and has    *)
(* not given the chunk at rp back since.                                     *)
Holding == {"first", "copy", "loop", "advance", "clear"}

(* The chunk before has been read to its end, and chunk_used still says so.  *)
ReadToTheEnd == {"advance", "emptyNext", "wokenNext", "clear"}

(* CopiedChunkIsStable and NoLostWakeup hold because the indices the lock    *)
(* guards keep their relation between two steps under the lock: between two  *)
(* critical sections of the only reader rp stays, and wp moves only to slots *)
(* other than rp.                                                            *)
ReaderInv(s, r) ==
    /\ rpc[s][r] # "idle" => opened[s] /\ ~ lock[s]
    /\ rpc[s][r] \in Holding => rp[s] # wp[s]
    /\ rpc[s][r] \in Waiting => Empty(s)
    /\ rpc[s][r] = "copy" =>
         /\ copying[s][r].slot = rp[s]
         /\ used[s] + copying[s][r].size <= ChunkSize
    /\ rpc[s][r] \in ReadToTheEnd => used[s] = ChunkSize

RingInv ==
    /\ TypeInv
    /\ \A s \in Streams :
         /\ lock[s] => opened[s]
         /\ used[s] <= ChunkSize
         /\ \A r \in Readers : ReaderInv(s, r)
    /\ dpc = "wait" => Full(cur) \/ ~ clean[cur]

(* The part of RingInv that is about stream s. *)
StreamInv(s) ==
    /\ lock[s] => opened[s]
    /\ used[s] <= ChunkSize
    /\ \A r \in Readers : ReaderInv(s, r)

SleepInv == dpc = "wait" => Full(cur) \/ ~ clean[cur]

LEMMA RingInvParts ==
    RingInv <=> TypeInv /\ SleepInv /\ \A s \in Streams : StreamInv(s)
BY DEF RingInv, StreamInv, SleepInv

LEMMA RingInvInit == Init => RingInv
<1> SUFFICES ASSUME Init PROVE RingInv
  OBVIOUS
<1>1. TypeInv
  BY TypeInvInit
<1>2. SleepInv
  BY DEF Init, SleepInv
<1>3. ASSUME NEW s \in Streams PROVE StreamInv(s)
  BY PtxStreamAssumption
  DEF Init, StreamInv, ReaderInv, Holding, Waiting, ReadToTheEnd
<1> QED
  BY <1>1, <1>2, <1>3, RingInvParts

(* A step of the daemon or of the hardware that leaves wp, rp, used, the     *)
(* locks and the readers alone keeps StreamInv.                              *)
LEMMA StreamInvFrame ==
    ASSUME NEW s \in Streams, StreamInv(s),
           UNCHANGED <<opened, wp, rp, used, lock, rpc, copying>>
    PROVE  StreamInv(s)'
BY DEF StreamInv, ReaderInv, Empty

LEMMA PublishRing ==
    ASSUME OneReader, RingInv, cur \in Streams, ~ Full(cur), Publish(cur)
    PROVE  SleepInv' /\ \A s \in Streams : StreamInv(s)'
<1>1. SleepInv'
  BY DEF SleepInv, Publish
<1>2. /\ wp[cur] \in Slots /\ rp[cur] \in Slots
      /\ wp \in [Streams -> Slots]
      /\ rpc \in [Streams -> [Readers -> ReaderPCs]]
  BY DEF RingInv, TypeInv, TypeOK
<1>3. wp' = [wp EXCEPT ![cur] = NextSlot(wp[cur])] /\ SignalNotEmpty(cur)
  BY DEF Publish
<1>4. wp'[cur] # rp[cur]
  BY <1>2, <1>3, NextSlotIsRemainder DEF Full
<1>5. ASSUME NEW s \in Streams, NEW r \in Readers, s # cur
      PROVE  rpc'[s][r] = rpc[s][r] /\ wp'[s] = wp[s]
  BY <1>2, <1>3, <1>5 DEF SignalNotEmpty
<1>6. ASSUME NEW r \in Readers
      PROVE  /\ rpc'[cur][r] \notin Waiting
             /\ \/ rpc'[cur][r] = rpc[cur][r]
                \/ rpc[cur][r] = "emptyFirst" /\ rpc'[cur][r] = "wokenFirst"
                \/ rpc[cur][r] = "emptyNext" /\ rpc'[cur][r] = "wokenNext"
  <2>1. Readers = {r}
    BY DEF OneReader
  <2> QED
    BY <1>2, <1>3, <2>1 DEF SignalNotEmpty, Waiting
<1>7. UNCHANGED <<opened, rp, used, lock, copying>>
  BY DEF Publish
<1>8. ASSUME NEW s \in Streams, NEW r \in Readers
      PROVE  ReaderInv(s, r)'
  <2>1. ReaderInv(s, r)
    BY DEF RingInv
  <2>2. CASE s = cur
    BY <1>4, <1>6, <1>7, <2>1, <2>2
    DEF ReaderInv, Holding, Waiting, ReadToTheEnd
  <2>3. CASE s # cur
    BY <1>5, <1>7, <2>1, <2>3 DEF ReaderInv, Empty
  <2> QED
    BY <2>2, <2>3
<1> QED
  BY <1>1, <1>7, <1>8 DEF StreamInv, RingInv

LEMMA DaemonStepRing ==
    ASSUME OneReader, RingInv, DaemonStep \/ Timeout
    PROVE  SleepInv' /\ \A s \in Streams : StreamInv(s)'
<1> DEFINE Frame == UNCHANGED <<opened, wp, rp, used, lock, rpc, copying>>
<1>1. ASSUME Frame, dpc' # "wait"
      PROVE  SleepInv' /\ \A s \in Streams : StreamInv(s)'
  BY <1>1, StreamInvFrame, RingInvParts DEF SleepInv
<1> USE DEF streamVars, readerVars
<1>2. CASE Truncate
  BY <1>1, <1>2 DEF Truncate
<1>3. CASE TruncateStore
  BY <1>1, <1>3 DEF TruncateStore
<1>4. CASE CheckFilled
  BY <1>1, <1>4 DEF CheckFilled
<1>5. CASE PublishOrWait
  <2>1. cur \in Streams
    BY <1>5 DEF RingInv, TypeInv, PublishOrWait
  <2>2. CASE ~ Full(cur) /\ Publish(cur)
    BY <2>1, <2>2, PublishRing
  <2>3. CASE Full(cur) /\ Frame /\ UNCHANGED <<cur, clean>>
    <3>1. Full(cur)'
      BY <2>3 DEF Full
    <3> QED
      BY <2>3, <3>1, StreamInvFrame, RingInvParts DEF SleepInv
  <2> QED
    BY <1>5, <2>2, <2>3 DEF PublishOrWait, histVars
<1>6. CASE PublishOrDrop
  <2>1. cur \in Streams
    BY <1>6 DEF RingInv, TypeInv, PublishOrDrop
  <2>2. CASE ~ Full(cur) /\ Publish(cur)
    BY <2>1, <2>2, PublishRing
  <2>3. CASE Full(cur) /\ Frame /\ dpc' = "fetch"
    BY <1>1, <2>3
  <2> QED
    BY <1>6, <2>2, <2>3 DEF PublishOrDrop
<1>7. CASE ClearFilled
  BY <1>1, <1>7 DEF ClearFilled
<1>8. CASE Store
  BY <1>1, <1>8 DEF Store
<1>9. CASE IncLoad
  BY <1>1, <1>9 DEF IncLoad
<1>10. CASE IncStore
  BY <1>1, <1>10 DEF IncStore
<1>11. CASE Timeout
  BY <1>1, <1>11 DEF Timeout
<1> QED
  BY <1>2, <1>3, <1>4, <1>5, <1>6, <1>7, <1>8, <1>9, <1>10, <1>11 DEF DaemonStep

LEMMA OtherStepRing ==
    ASSUME OneReader, RingInv, NEW s \in Streams,
           \/ OpenBegin(s) \/ OpenReset(s) \/ Close(s)
           \/ Discard(s) \/ Fetch(s)
    PROVE  SleepInv' /\ \A x \in Streams : StreamInv(x)'
<1> USE DEF streamVars, daemonVars, readerVars, hwVars, histVars
<1> DEFINE Quiet(x) == \A r \in Readers : rpc[x][r] = "idle"
<1>1. TypeOK /\ SleepInv /\ \A x \in Streams : StreamInv(x)
  BY RingInvParts DEF TypeInv
<1>2. ASSUME NEW x \in Streams, Quiet(x), UNCHANGED rpc,
             lock'[x] => opened'[x], used'[x] <= ChunkSize
      PROVE  StreamInv(x)'
  BY <1>2 DEF StreamInv, ReaderInv, Holding, Waiting, ReadToTheEnd
<1>3. ASSUME NEW x \in Streams, x # s,
             UNCHANGED <<opened[x], wp[x], rp[x], used[x], lock[x], rpc, copying>>
      PROVE  StreamInv(x)'
  BY <1>1, <1>3 DEF StreamInv, ReaderInv, Empty
<1>4. CASE OpenBegin(s)
  <2>1. Quiet(s)
    BY <1>1, <1>4 DEF StreamInv, ReaderInv, OpenBegin
  <2>2. StreamInv(s)'
    BY <1>1, <1>2, <1>4, <2>1 DEF OpenBegin, TypeOK, StreamInv
  <2>3. \A x \in Streams \ {s} : StreamInv(x)'
    BY <1>1, <1>3, <1>4 DEF OpenBegin, TypeOK
  <2>4. SleepInv'
    BY <1>1, <1>4 DEF OpenBegin, SleepInv, Full
  <2> QED
    BY <2>2, <2>3, <2>4
<1>5. CASE OpenReset(s)
  <2>1. Quiet(s)
    BY <1>1, <1>5 DEF StreamInv, ReaderInv, OpenReset
  <2>2. StreamInv(s)'
    BY <1>1, <1>2, <1>5, <2>1, PtxStreamAssumption DEF OpenReset, TypeOK
  <2>3. \A x \in Streams \ {s} : StreamInv(x)'
    BY <1>1, <1>3, <1>5 DEF OpenReset, TypeOK
  <2>4. SleepInv'
    <3> SUFFICES ASSUME dpc = "wait" PROVE (Full(cur) \/ ~ clean[cur])'
      BY <1>5 DEF OpenReset, SleepInv
    <3>1. cur \in Streams
      BY DEF RingInv, TypeInv
    <3>2. CASE cur = s
      BY <1>1, <1>5, <3>1, <3>2 DEF OpenReset, TypeOK
    <3>3. CASE cur # s
      BY <1>1, <1>5, <3>1, <3>3 DEF OpenReset, TypeOK, SleepInv, Full
    <3> QED
      BY <3>2, <3>3
  <2> QED
    BY <2>2, <2>3, <2>4
<1>6. CASE Close(s)
  <2>1. Quiet(s)
    BY <1>6 DEF Close, OneReader
  <2>2. StreamInv(s)'
    BY <1>1, <1>2, <1>6, <2>1 DEF Close, TypeOK, StreamInv
  <2>3. \A x \in Streams \ {s} : StreamInv(x)'
    BY <1>1, <1>3, <1>6 DEF Close, TypeOK
  <2>4. SleepInv'
    BY <1>1, <1>6 DEF Close, SignalNotFull, SleepInv, Full
  <2> QED
    BY <2>2, <2>3, <2>4
<1>7. CASE Discard(s)
  BY <1>1, <1>7, StreamInvFrame DEF Discard, SleepInv, Full
<1>8. CASE Fetch(s)
  BY <1>1, <1>8, StreamInvFrame DEF Fetch, SleepInv
<1> QED
  BY <1>4, <1>5, <1>6, <1>7, <1>8

(* What a step of the reader of stream s has to show: the rest is untouched. *)
LEMMA ReaderStepFrame ==
    ASSUME OneReader, RingInv, NEW s \in Streams, NEW r \in Readers,
           \A x \in Streams \ {s} :
             UNCHANGED <<opened[x], wp[x], rp[x], used[x], lock[x], rpc[x],
                         copying[x]>>,
           UNCHANGED <<opened[s], wp[s], lock[s]>>,
           used'[s] <= ChunkSize,
           ReaderInv(s, r)'
    PROVE  \A x \in Streams : StreamInv(x)'
<1>1. \A x \in Streams : StreamInv(x)
  BY RingInvParts
<1>2. ASSUME NEW x \in Streams \ {s}
      PROVE  StreamInv(x)'
  BY <1>1, <1>2 DEF StreamInv, ReaderInv, Empty
<1>3. Readers = {r}
  BY DEF OneReader
<1>4. StreamInv(s)'
  BY <1>1, <1>3 DEF StreamInv
<1> QED
  BY <1>2, <1>4

LEMMA ReaderStepRing ==
    ASSUME OneReader, RingInv, NEW s \in Streams, NEW r \in Readers,
           ReadCall(s, r) \/ ReaderStep(s, r)
    PROVE  SleepInv' /\ \A x \in Streams : StreamInv(x)'
<1> USE DEF streamVars, daemonVars, hwVars, histVars
<1> DEFINE Others ==
      /\ \A x \in Streams \ {s} :
           UNCHANGED <<opened[x], wp[x], rp[x], used[x], lock[x], rpc[x],
                       copying[x]>>
      /\ UNCHANGED <<opened[s], wp[s], lock[s]>>
<1>1. TypeOK /\ SleepInv /\ ReaderInv(s, r) /\ used[s] <= ChunkSize
  BY RingInvParts DEF TypeInv, StreamInv
<1>2. /\ rpc \in [Streams -> [Readers -> ReaderPCs]]
      /\ copying \in [Streams -> [Readers -> [slot : Slots, size : Nat]]]
      /\ resid \in [Streams -> [Readers -> Nat]]
      /\ used \in [Streams -> Nat] /\ ChunkSize \in Nat
      /\ rp \in [Streams -> Slots] /\ wp \in [Streams -> Slots]
  BY <1>1, PtxStreamAssumption DEF TypeOK
<1>3. ASSUME UNCHANGED <<dpc, cur, wp, rp, clean>>
      PROVE  SleepInv'
  BY <1>1, <1>3 DEF SleepInv, Full
<1>4. ASSUME Return(s, r), UNCHANGED <<opened, wp, rp, used, lock>>
      PROVE  \A x \in Streams : StreamInv(x)'
  <2>1. Others
    BY <1>2, <1>4 DEF Return, Goto
  <2>2. ReaderInv(s, r)'
    BY <1>2, <1>4 DEF Return, Goto, ReaderInv, Holding, Waiting, ReadToTheEnd
  <2> QED
    BY <1>1, <1>4, <2>1, <2>2, ReaderStepFrame
<1>5. ASSUME used[s] < ChunkSize, StartCopy(s, r), rpc[s][r] \in {"first", "loop"},
             UNCHANGED <<opened, wp, rp, used, lock>>
      PROVE  \A x \in Streams : StreamInv(x)'
  <2>1. Others
    BY <1>2, <1>5 DEF StartCopy, Goto
  <2>2. ReaderInv(s, r)'
    <3>1. rpc'[s][r] = "copy"
      BY <1>2, <1>5 DEF StartCopy, Goto
    <3>2. copying'[s][r].slot = rp[s]
      BY <1>2, <1>5 DEF StartCopy
    <3>3. used[s] + copying'[s][r].size <= ChunkSize
      BY <1>2, <1>5 DEF StartCopy
    <3> QED
      BY <1>1, <1>5, <3>1, <3>2, <3>3
      DEF ReaderInv, Holding, Waiting, ReadToTheEnd
  <2> QED
    BY <1>1, <1>5, <2>1, <2>2, ReaderStepFrame
<1>6. ASSUME NEW pc \in ReaderPCs \ {"copy"}, Goto(s, r, pc),
             UNCHANGED <<opened, wp, rp, used, lock, copying>>,
             opened[s] /\ ~ lock[s],
             pc \in Holding => rp[s] # wp[s],
             pc \in Waiting => Empty(s),
             pc \in ReadToTheEnd => used[s] = ChunkSize
      PROVE  \A x \in Streams : StreamInv(x)'
  <2>1. Others
    BY <1>2, <1>6 DEF Goto
  <2>2. ReaderInv(s, r)'
    BY <1>2, <1>6 DEF Goto, ReaderInv, Empty
  <2> QED
    BY <1>1, <1>6, <2>1, <2>2, ReaderStepFrame
<1>7. CASE ReadCall(s, r)
  BY <1>3, <1>6, <1>7
  DEF ReadCall, ReaderPCs, Holding, Waiting, ReadToTheEnd
<1>8. CASE EnterOrWait(s, r)
  BY <1>1, <1>3, <1>6, <1>8
  DEF EnterOrWait, ReaderInv, Empty, ReaderPCs, Holding, Waiting, ReadToTheEnd
<1>9. CASE Woken(s, r)
  BY <1>1, <1>3, <1>4, <1>6, <1>9
  DEF Woken, ReaderInv, Empty, ReaderPCs, Holding, Waiting, ReadToTheEnd
<1>10. CASE CopyRest(s, r)
  BY <1>1, <1>3, <1>5, <1>6, <1>10
  DEF CopyRest, ReaderInv, ReaderPCs, Holding, Waiting, ReadToTheEnd
<1>11. CASE CopyDone(s, r)
  <2>1. /\ used' = [used EXCEPT ![s] = used[s] + copying[s][r].size]
        /\ Goto(s, r, "loop")
        /\ UNCHANGED <<opened, wp, rp, lock>>
        /\ rpc[s][r] = "copy"
        /\ \A x \in Streams \ {s} : UNCHANGED copying[x]
    BY <1>2, <1>11 DEF CopyDone
  <2>2. used'[s] <= ChunkSize
    BY <1>1, <1>2, <2>1 DEF ReaderInv
  <2>3. Others
    BY <1>2, <2>1 DEF Goto
  <2>4. ReaderInv(s, r)'
    BY <1>1, <1>2, <2>1
    DEF Goto, ReaderInv, Holding, Waiting, ReadToTheEnd
  <2> QED
    BY <1>3, <1>11, <2>2, <2>3, <2>4, ReaderStepFrame DEF CopyDone
<1>12. CASE CopyFault(s, r)
  BY <1>3, <1>4, <1>12 DEF CopyFault
<1>13. CASE Loop(s, r)
  <2>1. opened[s] /\ ~ lock[s] /\ rp[s] # wp[s]
    BY <1>1, <1>13 DEF Loop, ReaderInv, Holding
  <2>2. CASE Return(s, r)
    BY <1>3, <1>4, <1>13, <2>2 DEF Loop
  <2>3. CASE used[s] < ChunkSize /\ StartCopy(s, r)
    BY <1>3, <1>5, <1>13, <2>3 DEF Loop
  <2>4. CASE used[s] >= ChunkSize /\ Goto(s, r, "advance") /\ UNCHANGED copying
    <3>1. used[s] = ChunkSize
      <4>1. used[s] \in Nat /\ ChunkSize \in Nat /\ used[s] <= ChunkSize
        BY <1>1, <1>2
      <4>2. used[s] >= ChunkSize
        BY <2>4
      <4> QED
        BY <4>1, <4>2
    <3>2. \A x \in Streams : StreamInv(x)'
      BY <1>6, <1>13, <2>1, <2>4, <3>1
      DEF Loop, ReaderPCs, Holding, Waiting, ReadToTheEnd
    <3> QED
      BY <1>3, <1>13, <3>2 DEF Loop
  <2> QED
    BY <1>13, <2>2, <2>3, <2>4 DEF Loop
<1>14. CASE Advance(s, r)
  <2>1. /\ rp' = [rp EXCEPT ![s] = NextSlot(rp[s])]
        /\ SignalNotFull(s)
        /\ UNCHANGED <<opened, wp, used, lock, copying, cur, clean>>
        /\ rpc[s][r] = "advance"
        /\ Goto(s, r, IF NextSlot(rp[s]) = wp[s] THEN "emptyNext" ELSE "clear")
    BY <1>14 DEF Advance
  <2>2. Others
    BY <1>2, <2>1 DEF Goto
  <2>3. ReaderInv(s, r)'
    BY <1>1, <1>2, <2>1
    DEF Goto, ReaderInv, Empty, Holding, Waiting, ReadToTheEnd
  <2>4. SleepInv'
    BY <1>1, <1>2, <2>1 DEF SleepInv, SignalNotFull, Full
  <2> QED
    BY <1>1, <2>1, <2>2, <2>3, <2>4, ReaderStepFrame
<1>15. CASE ClearUsed(s, r)
  <2>1. /\ used' = [used EXCEPT ![s] = 0]
        /\ UNCHANGED <<opened, wp, rp, lock, copying>>
        /\ rpc[s][r] = "clear"
        /\ Goto(s, r, "loop")
    BY <1>15 DEF ClearUsed
  <2>2. Others
    BY <1>2, <2>1 DEF Goto
  <2>3. ReaderInv(s, r)' /\ used'[s] <= ChunkSize
    BY <1>1, <1>2, <2>1
    DEF Goto, ReaderInv, Empty, Holding, Waiting, ReadToTheEnd
  <2> QED
    BY <1>3, <1>15, <2>2, <2>1, <2>3, ReaderStepFrame DEF ClearUsed
<1> QED
  BY <1>7, <1>8, <1>9, <1>10, <1>11, <1>12, <1>13, <1>14, <1>15 DEF ReaderStep

(* Every step keeps the invariant of the ring.                               *)
LEMMA RingInvNext ==
    ASSUME OneReader, RingInv, [Next]_vars
    PROVE  RingInv'
<1>1. TypeInv'
  BY TypeInvNext DEF RingInv
<1>2. CASE UNCHANGED vars
  <2>1. SleepInv' /\ \A s \in Streams : StreamInv(s)'
    BY <1>2, StreamInvFrame, RingInvParts
    DEF vars, streamVars, daemonVars, readerVars, histVars, SleepInv, Full
  <2> QED
    BY <1>1, <2>1 DEF RingInv, StreamInv, SleepInv
<1>3. CASE MicroPacketError
  <2>1. SleepInv' /\ \A s \in Streams : StreamInv(s)'
    BY <1>3, StreamInvFrame, RingInvParts
    DEF MicroPacketError, streamVars, daemonVars, readerVars, histVars,
        SleepInv, Full
  <2> QED
    BY <1>1, <2>1 DEF RingInv, StreamInv, SleepInv
<1>4. CASE DaemonStep \/ Timeout
  BY <1>1, <1>4, DaemonStepRing DEF RingInv, StreamInv, SleepInv
<1>5. ASSUME NEW s \in Streams,
             \/ OpenBegin(s) \/ OpenReset(s) \/ Close(s)
             \/ Discard(s) \/ Fetch(s)
             \/ \E r \in Readers : ReadCall(s, r) \/ ReaderStep(s, r)
      PROVE  RingInv'
  BY <1>1, <1>5, OtherStepRing, ReaderStepRing DEF RingInv, StreamInv, SleepInv
<1> QED
  BY <1>2, <1>3, <1>4, <1>5 DEF Next

(* So it holds in every state.                                               *)
LEMMA RingInvAlways ==
    ASSUME OneReader
    PROVE  Spec => []RingInv
<1>1. RingInv /\ [Next]_vars => RingInv'
  BY RingInvNext
<1> QED
  BY <1>1, RingInvInit, PTL DEF Spec

(* With one reader, the chunk that is being copied to user space is the one  *)
(* at rp and never the one the daemon is filling.                            *)
THEOREM CopiedChunkIsStableAlways ==
    ASSUME OneReader
    PROVE  Spec => []CopiedChunkIsStable
<1>1. RingInv => CopiedChunkIsStable
  BY DEF RingInv, ReaderInv, Holding, CopiedChunkIsStable
<1> QED
  BY <1>1, RingInvAlways, PTL

-----------------------------------------------------------------------------
(* A revoke.  It ends the exclusion that RingInv rests on: the reset of the  *)
(* next open may come under a reader.  Signals are still not lost, for a     *)
(* reason of their own: who makes a condition true signals it in the same    *)
(* critical section, and no more than one thread sleeps on it.               *)

OneThread == \A r, q \in Readers : r = q

(* What is asked for of the readers, and of the daemon. *)
ReadersAwake == \A s \in Streams, r \in Readers : rpc[s][r] \in Waiting => Empty(s)

DaemonAwake == dpc = "wait" => Full(cur) \/ ~ clean[cur]

WakeInv == TypeInv /\ ReadersAwake /\ DaemonAwake

LEMMA WakeFrame ==
    ASSUME WakeInv, UNCHANGED <<wp, rp, rpc>>,
           dpc' = "wait" => UNCHANGED <<dpc, cur, clean>>
    PROVE  ReadersAwake' /\ DaemonAwake'
BY DEF WakeInv, ReadersAwake, DaemonAwake, Empty, Full

LEMMA WakePublish ==
    ASSUME OneThread, WakeInv, cur \in Streams, Publish(cur)
    PROVE  ReadersAwake' /\ DaemonAwake'
<1>1. DaemonAwake'
  BY DEF DaemonAwake, Publish
<1>2. rpc \in [Streams -> [Readers -> ReaderPCs]] /\ wp \in [Streams -> Slots]
  BY DEF WakeInv, TypeInv, TypeOK
<1>3. SignalNotEmpty(cur) /\ UNCHANGED rp /\ wp' = [wp EXCEPT ![cur] = NextSlot(@)]
  BY DEF Publish
<1>4. ASSUME NEW s \in Streams, NEW r \in Readers, rpc'[s][r] \in Waiting
      PROVE  Empty(s)'
  <2>1. CASE s = cur
    <3>1. rpc'[cur][r] \notin Waiting
      <4>1. Readers = {r}
        BY DEF OneThread
      <4>2. CASE rpc[cur][r] \in Waiting
        BY <1>2, <1>3, <4>1, <4>2 DEF SignalNotEmpty, Waiting
      <4>3. CASE rpc[cur][r] \notin Waiting
        BY <1>3, <4>1, <4>3 DEF SignalNotEmpty
      <4> QED
        BY <4>2, <4>3
    <3> QED
      BY <1>4, <2>1, <3>1
  <2>2. CASE s # cur
    <3>1. rpc'[s][r] = rpc[s][r] /\ wp'[s] = wp[s]
      BY <1>2, <1>3, <2>2 DEF SignalNotEmpty
    <3> QED
      BY <1>3, <1>4, <3>1 DEF WakeInv, ReadersAwake, Empty
  <2> QED
    BY <2>1, <2>2
<1> QED
  BY <1>1, <1>4 DEF ReadersAwake

LEMMA WakeDaemonStep ==
    ASSUME OneThread, WakeInv, DaemonStep \/ Timeout \/ MicroPacketError
    PROVE  ReadersAwake' /\ DaemonAwake'
<1> USE DEF streamVars, daemonVars, readerVars
<1>1. CASE Truncate
  BY <1>1, WakeFrame DEF Truncate
<1>2. CASE TruncateStore
  BY <1>2, WakeFrame DEF TruncateStore
<1>3. CASE CheckFilled
  BY <1>3, WakeFrame DEF CheckFilled
<1>4. CASE PublishOrWait
  <2>1. cur \in Streams
    BY <1>4 DEF WakeInv, TypeInv, PublishOrWait
  <2>2. CASE Publish(cur)
    BY <2>1, <2>2, WakePublish
  <2>3. CASE Full(cur) /\ UNCHANGED <<wp, rp, rpc, cur>>
    BY <2>3 DEF WakeInv, ReadersAwake, DaemonAwake, Empty, Full
  <2> QED
    BY <1>4, <2>2, <2>3 DEF PublishOrWait
<1>5. CASE PublishOrDrop
  <2>1. cur \in Streams
    BY <1>5 DEF WakeInv, TypeInv, PublishOrDrop
  <2>2. CASE Publish(cur)
    BY <2>1, <2>2, WakePublish
  <2>3. CASE dpc' = "fetch" /\ UNCHANGED <<wp, rp, rpc>>
    BY <2>3, WakeFrame
  <2> QED
    BY <1>5, <2>2, <2>3 DEF PublishOrDrop
<1>6. CASE ClearFilled
  BY <1>6, WakeFrame DEF ClearFilled
<1>7. CASE Store
  BY <1>7, WakeFrame DEF Store
<1>8. CASE IncLoad
  BY <1>8, WakeFrame DEF IncLoad
<1>9. CASE IncStore
  BY <1>9, WakeFrame DEF IncStore
<1>10. CASE Timeout
  BY <1>10, WakeFrame DEF Timeout
<1>11. CASE MicroPacketError
  BY <1>11, WakeFrame DEF MicroPacketError, histVars
<1> QED
  BY <1>1, <1>2, <1>3, <1>4, <1>5, <1>6, <1>7, <1>8, <1>9, <1>10, <1>11
  DEF DaemonStep

(* Open and close change indices without a signal to the readers: open       *)
(* leaves the stream empty, and close leaves the indices alone.              *)
LEMMA WakeOtherStep ==
    ASSUME WakeInv, NEW s \in Streams,
           \/ OpenBegin(s) \/ OpenReset(s) \/ Close(s)
           \/ Discard(s) \/ Fetch(s)
    PROVE  ReadersAwake' /\ DaemonAwake'
<1> USE DEF streamVars, daemonVars, readerVars, histVars
<1>1. CASE OpenBegin(s)
  BY <1>1, WakeFrame DEF OpenBegin
<1>2. CASE OpenReset(s)
  <2>1. /\ wp \in [Streams -> Slots] /\ rp \in [Streams -> Slots]
        /\ clean \in [Streams -> BOOLEAN]
        /\ dpc = "wait" => cur \in Streams
    BY DEF WakeInv, TypeInv, TypeOK
  <2>2. ReadersAwake'
    BY <1>2, <2>1 DEF OpenReset, WakeInv, ReadersAwake, Empty
  <2>3. ASSUME dpc = "wait" PROVE (Full(cur) \/ ~ clean[cur])'
    BY <1>2, <2>1, <2>3 DEF OpenReset, WakeInv, DaemonAwake, Full
  <2> QED
    BY <1>2, <2>2, <2>3 DEF OpenReset, DaemonAwake
<1>3. CASE Close(s)
  BY <1>3, WakeFrame DEF Close, SignalNotFull
<1>4. CASE Discard(s)
  BY <1>4, WakeFrame DEF Discard
<1>5. CASE Fetch(s)
  BY <1>5, WakeFrame DEF Fetch
<1> QED
  BY <1>1, <1>2, <1>3, <1>4, <1>5

(* A thread waits only where it has found the stream empty, under the lock.  *)
LEMMA WakeReaderStep ==
    ASSUME OneThread, WakeInv, NEW s \in Streams, NEW r \in Readers,
           ReadCall(s, r) \/ ReaderStep(s, r)
    PROVE  ReadersAwake' /\ DaemonAwake'
<1> USE DEF streamVars, daemonVars, readerVars, histVars
<1>1. /\ rpc \in [Streams -> [Readers -> ReaderPCs]]
      /\ wp \in [Streams -> Slots] /\ rp \in [Streams -> Slots]
      /\ dpc = "wait" => cur \in Streams
  BY DEF WakeInv, TypeInv, TypeOK
<1>2. ASSUME rpc' = [rpc EXCEPT ![s][r] = rpc'[s][r]], rpc'[s][r] \in Waiting => Empty(s),
             UNCHANGED <<wp, rp, dpc, cur, clean>>
      PROVE  ReadersAwake' /\ DaemonAwake'
  BY <1>1, <1>2 DEF WakeInv, ReadersAwake, DaemonAwake, Empty, Full
<1> DEFINE To(pc) == rpc' = [rpc EXCEPT ![s][r] = pc]
<1>a. ASSUME NEW pc, To(pc) PROVE rpc'[s][r] = pc
  BY <1>1, <1>a
<1> USE DEF Goto, Return, StartCopy, Waiting
<1>3. CASE ReadCall(s, r)
  <2>1. UNCHANGED <<wp, rp, dpc, cur, clean>>
    BY <1>3 DEF ReadCall
  <2>2. To("enter")
    BY <1>3 DEF ReadCall
  <2> QED
    BY <1>2, <1>a, <2>1, <2>2
<1>4. CASE EnterOrWait(s, r)
  <2>1. UNCHANGED <<wp, rp, dpc, cur, clean>>
    BY <1>4 DEF EnterOrWait
  <2>2. To(IF Empty(s) THEN "emptyFirst" ELSE "first")
    BY <1>4 DEF EnterOrWait
  <2> QED
    BY <1>2, <1>a, <2>1, <2>2
<1>5. CASE Woken(s, r)
  <2>1. UNCHANGED <<wp, rp, dpc, cur, clean>>
    BY <1>5 DEF Woken
  <2>2. ASSUME NEW pc \in {"idle", "first", "clear"}, To(pc)
        PROVE  ReadersAwake' /\ DaemonAwake'
    BY <1>2, <1>a, <2>1, <2>2
  <2>3. ASSUME NEW pc \in {"emptyFirst", "emptyNext"}, To(pc), Empty(s)
        PROVE  ReadersAwake' /\ DaemonAwake'
    BY <1>2, <1>a, <2>1, <2>3
  <2>4. CASE To("idle")
    BY <2>2, <2>4
  <2>5. CASE ~ To("idle") /\ rpc[s][r] = "wokenFirst"
    <3>1. CASE Empty(s)
      <4>1. To("emptyFirst")
        BY <1>5, <2>5, <3>1 DEF Woken
      <4> QED
        BY <2>3, <3>1, <4>1
    <3>2. CASE ~ Empty(s)
      <4>1. To("first")
        BY <1>5, <2>5, <3>2 DEF Woken
      <4> QED
        BY <2>2, <4>1
    <3> QED
      BY <3>1, <3>2
  <2>6. CASE ~ To("idle") /\ rpc[s][r] # "wokenFirst"
    <3>1. CASE Empty(s)
      <4>1. To("emptyNext")
        BY <1>5, <2>6, <3>1 DEF Woken
      <4> QED
        BY <2>3, <3>1, <4>1
    <3>2. CASE ~ Empty(s)
      <4>1. To("clear")
        BY <1>5, <2>6, <3>2 DEF Woken
      <4> QED
        BY <2>2, <4>1
    <3> QED
      BY <3>1, <3>2
  <2> QED
    BY <2>4, <2>5, <2>6
<1>6. CASE CopyRest(s, r)
  <2>1. UNCHANGED <<wp, rp, dpc, cur, clean>>
    BY <1>6 DEF CopyRest
  <2>2. CASE To("copy")
    BY <1>2, <1>a, <2>1, <2>2
  <2>3. CASE To("loop")
    BY <1>2, <1>a, <2>1, <2>3
  <2> QED
    BY <1>6, <2>2, <2>3 DEF CopyRest
<1>7. CASE CopyDone(s, r)
  <2>1. UNCHANGED <<wp, rp, dpc, cur, clean>>
    BY <1>7 DEF CopyDone
  <2>2. To("loop")
    BY <1>7 DEF CopyDone
  <2> QED
    BY <1>2, <1>a, <2>1, <2>2
<1>8. CASE CopyFault(s, r)
  <2>1. UNCHANGED <<wp, rp, dpc, cur, clean>>
    BY <1>8 DEF CopyFault
  <2>2. To("idle")
    BY <1>8 DEF CopyFault
  <2> QED
    BY <1>2, <1>a, <2>1, <2>2
<1>9. CASE Loop(s, r)
  <2>1. UNCHANGED <<wp, rp, dpc, cur, clean>>
    BY <1>9 DEF Loop
  <2>2. CASE To("idle")
    BY <1>2, <1>a, <2>1, <2>2
  <2>3. CASE To("copy")
    BY <1>2, <1>a, <2>1, <2>3
  <2>4. CASE To("advance")
    BY <1>2, <1>a, <2>1, <2>4
  <2> QED
    BY <1>9, <2>2, <2>3, <2>4 DEF Loop
<1>10. CASE ClearUsed(s, r)
  <2>1. UNCHANGED <<wp, rp, dpc, cur, clean>>
    BY <1>10 DEF ClearUsed
  <2>2. To("loop")
    BY <1>10 DEF ClearUsed
  <2> QED
    BY <1>2, <1>a, <2>1, <2>2
<1>11. CASE Advance(s, r)
  <2>1. ReadersAwake'
    <3>1. Readers = {r}
      BY DEF OneThread
    <3> QED
      BY <1>1, <1>11, <3>1 DEF Advance, WakeInv, ReadersAwake, Empty
  <2>2. DaemonAwake'
    BY <1>1, <1>11 DEF Advance, SignalNotFull, WakeInv, DaemonAwake, Full
  <2> QED
    BY <2>1, <2>2
<1> QED
  BY <1>3, <1>4, <1>5, <1>6, <1>7, <1>8, <1>9, <1>10, <1>11 DEF ReaderStep

(* With one thread to a stream no signal is lost, revoked files or not:      *)
(* neither the reader nor the daemon sleeps while what it waits for is there *)
(* (cv_wait, cv_timedwait, cv_signal).                                       *)
THEOREM NoLostWakeupEver ==
    ASSUME OneThread
    PROVE  Spec => []NoLostWakeup
<1>1. Init => WakeInv
  BY TypeInvInit DEF Init, WakeInv, ReadersAwake, DaemonAwake, Waiting
<1>2. WakeInv /\ [Next]_vars => WakeInv'
  <2> SUFFICES ASSUME WakeInv, [Next]_vars PROVE WakeInv'
    OBVIOUS
  <2>1. TypeInv'
    BY TypeInvNext DEF WakeInv
  <2>2. CASE UNCHANGED vars
    BY <2>1, <2>2, WakeFrame
    DEF WakeInv, vars, streamVars, daemonVars, readerVars, histVars
  <2>3. CASE Next
    BY <2>1, <2>3, WakeDaemonStep, WakeOtherStep, WakeReaderStep DEF Next, WakeInv
  <2> QED
    BY <2>2, <2>3
<1>3. WakeInv => NoLostWakeup
  BY DEF WakeInv, ReadersAwake, DaemonAwake, NoLostWakeup
<1> QED
  BY <1>1, <1>2, <1>3, PTL DEF Spec

-----------------------------------------------------------------------------
(* With one reader, the two assertions in ptxread hold (ptx_tuner.c:393,     *)
(* 430).                                                                     *)
THEOREM ReaderAssertionsHold ==
    ASSUME OneReader
    PROVE  Spec => []ReaderAssertions
<1>1. RingInv => ReaderAssertions
  BY DEF RingInv, ReaderAssertions
<1> QED
  BY <1>1, RingInvAlways, PTL

(* With one reader, a chunk goes back to the daemon only when the reader has *)
(* had all of it.                                                            *)
THEOREM ChunksAreReadToTheEndAlways ==
    ASSUME OneReader
    PROVE  Spec => ChunksAreReadToTheEnd
<1> DEFINE A == \A s \in Streams :
                  rp'[s] # rp[s] /\ ~ lock[s] => used[s] = ChunkSize
<1>1. RingInv /\ [Next]_vars => [A]_vars
  <2> SUFFICES ASSUME RingInv, Next, NEW s \in Streams, rp'[s] # rp[s],
                      ~ lock[s]
               PROVE  used[s] = ChunkSize
    OBVIOUS
  <2>1. TypeOK
    BY DEF RingInv, TypeInv
  <2>2. rp \in [Streams -> Slots]
    BY <2>1 DEF TypeOK
  <2>3. \E r \in Readers : Advance(s, r)
    BY <2>2, SMTT(30)
    DEF Next, DaemonStep, ReaderStep, OpenBegin, OpenReset, Close, Discard,
        Fetch, MicroPacketError, Timeout, Truncate, TruncateStore, CheckFilled,
        PublishOrWait, PublishOrDrop, Publish, ClearFilled, Store, IncLoad,
        IncStore, ReadCall, EnterOrWait, Woken, CopyRest, CopyDone, CopyFault,
        Loop, Advance, ClearUsed, streamVars
  <2> QED
    BY <2>3 DEF RingInv, ReaderInv, ReadToTheEnd, Advance
<1> QED
  BY <1>1, RingInvAlways, PTL DEF Spec, ChunksAreReadToTheEnd

-----------------------------------------------------------------------------
(***************************************************************************)
(* What is in the chunks, and in which order they leave: the ring          *)
(* implements ChunkFifo, the daemon stores only into the chunk at wp, and  *)
(* the chunks that wait are whole, all with one reader to a stream.        *)
(*                                                                         *)
(* RingInv says where wp and rp are.  FillInv adds where chunk_filled is   *)
(* at each place of the daemon: a number of whole packets and of whole     *)
(* micropackets, so that the end of a chunk is never inside a micropacket; *)
(* and QueueInv, what is in the slots between rp and wp.                   *)
(***************************************************************************)

-----------------------------------------------------------------------------
(* Remainders.                                                               *)

(* A quotient and a remainder are unique.                                    *)
LEMMA DivisionIsUnique ==
    ASSUME NEW m \in Nat \ {0}, NEW x \in Int, NEW k \in Int, NEW r \in 0 .. m - 1,
           x = k * m + r
    PROVE  x % m = r /\ x \div m = k
OBVIOUS

LEMMA Division ==
    ASSUME NEW m \in Nat \ {0}, NEW x \in Int
    PROVE  /\ x % m \in 0 .. m - 1
           /\ x \div m \in Int
           /\ x = (x \div m) * m + (x % m)
OBVIOUS

(* The next number has the next remainder. *)
LEMMA NextRemainder ==
    ASSUME NEW m \in Nat \ {0}, NEW x \in Int
    PROVE  (x + 1) % m = IF x % m = m - 1 THEN 0 ELSE (x % m) + 1
<1> DEFINE k == x \div m
           r == x % m
<1>1. k \in Int /\ r \in 0 .. m - 1 /\ x = k * m + r
  BY Division
<1> HIDE DEF k, r
<1>2. CASE r = m - 1
  <2>1. x + 1 = (k + 1) * m + 0
    BY <1>1, <1>2
  <2>2. (x + 1) % m = 0
    BY <1>1, <2>1, DivisionIsUnique
  <2> QED
    BY <1>2, <2>2 DEF r
<1>3. CASE r # m - 1
  <2>1. x + 1 = k * m + (r + 1) /\ r + 1 \in 0 .. m - 1
    BY <1>1, <1>3
  <2>2. (x + 1) % m = r + 1
    BY <1>1, <2>1, DivisionIsUnique
  <2> QED
    BY <1>3, <2>2 DEF r
<1> QED
  BY <1>2, <1>3

LEMMA Sizes ==
    /\ PacketSize \in Nat \ {0} /\ ChunkSize \in Nat \ {0} /\ ChunkNum \in Nat \ {0}
    /\ 0 % PacketSize = 0 /\ ChunkSize % PacketSize = 0
    /\ (PacketSize - 1) % 3 = 1
BY PtxStreamAssumption

(* A byte of the chunk in slot w is in slot w. *)
LEMMA AddressIsInSlot ==
    ASSUME NEW w \in Slots, NEW o \in Offsets
    PROVE  (w * ChunkSize + o) \div ChunkSize = w
<1>1. w \in Int /\ o \in 0 .. ChunkSize - 1 /\ w * ChunkSize + o \in Int
  BY Sizes DEF Slots, Offsets
<1> QED
  BY <1>1, Sizes, DivisionIsUnique

-----------------------------------------------------------------------------
(* Slots.                                                                    *)

LEMMA BacklogValue ==
    ASSUME NEW w \in Slots, NEW r \in Slots
    PROVE  /\ (w - r) % ChunkNum = IF w >= r THEN w - r ELSE w - r + ChunkNum
           /\ (w - r) % ChunkNum \in 0 .. ChunkNum - 1
BY Sizes DEF Slots

LEMMA SlotValue ==
    ASSUME NEW r \in Slots, NEW i \in 1 .. ChunkNum
    PROVE  /\ (r + i - 1) % ChunkNum =
                IF r + i - 1 < ChunkNum THEN r + i - 1 ELSE r + i - 1 - ChunkNum
           /\ (r + i - 1) % ChunkNum \in Slots
BY Sizes DEF Slots

(* The slot at wp is none of those that wait. *)
LEMMA WriterIsApart ==
    ASSUME NEW w \in Slots, NEW r \in Slots, NEW i \in 1 .. ((w - r) % ChunkNum)
    PROVE  /\ (r + i - 1) % ChunkNum # w
           /\ (r + i - 1) % ChunkNum \in Slots
<1>1. i \in 1 .. ChunkNum
  BY BacklogValue, Sizes
<1> QED
  BY <1>1, BacklogValue, SlotValue, Sizes DEF Slots

(* wp++ adds the slot at wp to those that wait, at the end. *)
LEMMA PublishAdds ==
    ASSUME NEW w \in Slots, NEW r \in Slots, (w + 1) % ChunkNum # r
    PROVE  /\ (NextSlot(w) - r) % ChunkNum = ((w - r) % ChunkNum) + 1
           /\ (w - r) % ChunkNum < ChunkNum - 1
           /\ (r + (((w - r) % ChunkNum) + 1) - 1) % ChunkNum = w
<1>1. NextSlot(w) \in Slots /\ NextSlot(w) # r
  BY NextSlotType, NextSlotIsRemainder
<1>2. /\ (NextSlot(w) - r) % ChunkNum = ((w - r) % ChunkNum) + 1
      /\ (w - r) % ChunkNum < ChunkNum - 1
  BY <1>1, BacklogValue, Sizes DEF Slots, NextSlot
<1>3. ((w - r) % ChunkNum) + 1 \in 1 .. ChunkNum
  BY <1>2, BacklogValue, Sizes
<1>4. (r + (((w - r) % ChunkNum) + 1) - 1) % ChunkNum = w
  <2> DEFINE i == ((w - r) % ChunkNum) + 1
  <2>1. i \in 1 .. ChunkNum /\ i = IF w >= r THEN w - r + 1 ELSE w - r + ChunkNum + 1
    BY <1>3, BacklogValue, Sizes DEF Slots
  <2> HIDE DEF i
  <2>2. (r + i - 1) % ChunkNum = w
    BY <2>1, SlotValue, Sizes DEF Slots
  <2> QED
    BY <2>2 DEF i
<1> QED
  BY <1>2, <1>4

(* rp++ takes the first of them away. *)
LEMMA AdvanceRemoves ==
    ASSUME NEW w \in Slots, NEW r \in Slots, w # r
    PROVE  /\ (w - NextSlot(r)) % ChunkNum = ((w - r) % ChunkNum) - 1
           /\ (w - r) % ChunkNum > 0
           /\ \A i \in 1 .. ((w - r) % ChunkNum) - 1 :
                (NextSlot(r) + i - 1) % ChunkNum = (r + (i + 1) - 1) % ChunkNum
<1>1. NextSlot(r) \in Slots
  BY NextSlotType
<1>2. /\ (w - NextSlot(r)) % ChunkNum = ((w - r) % ChunkNum) - 1
      /\ (w - r) % ChunkNum > 0
  BY <1>1, BacklogValue, Sizes DEF Slots, NextSlot
<1>3. ASSUME NEW i \in 1 .. ((w - r) % ChunkNum) - 1
      PROVE  (NextSlot(r) + i - 1) % ChunkNum = (r + (i + 1) - 1) % ChunkNum
  <2>1. i \in 1 .. ChunkNum /\ i + 1 \in 1 .. ChunkNum
    BY BacklogValue, Sizes
  <2>2. (NextSlot(r) + i - 1) % ChunkNum =
          IF NextSlot(r) + i - 1 < ChunkNum THEN NextSlot(r) + i - 1
          ELSE NextSlot(r) + i - 1 - ChunkNum
    BY <1>1, <2>1, SlotValue
  <2>3. (r + (i + 1) - 1) % ChunkNum =
          IF r + (i + 1) - 1 < ChunkNum THEN r + (i + 1) - 1
          ELSE r + (i + 1) - 1 - ChunkNum
    BY <2>1, SlotValue
  <2> QED
    BY <2>1, <2>2, <2>3, Sizes DEF Slots, NextSlot
<1> QED
  BY <1>2, <1>3

-----------------------------------------------------------------------------
(* What the daemon has of the chunk at wp.                                   *)

(* Whole packets, whole micropackets of the next one, and k bytes. *)
Aligned(f, k) == f \in 0 .. ChunkSize /\ (f % PacketSize) % 3 = k

(* One byte more. *)
LEMMA NextByte ==
    ASSUME NEW f, NEW k \in 0 .. 2, Aligned(f, k), f < ChunkSize
    PROVE  /\ k = 0 => Aligned(f + 1, 1) /\ f + 1 < ChunkSize
           /\ k = 1 /\ (f + 1) % PacketSize = 0 => Aligned(f + 1, 0)
           /\ k = 1 /\ (f + 1) % PacketSize # 0 => Aligned(f + 1, 2) /\ f + 1 < ChunkSize
           /\ k = 2 => Aligned(f + 1, 0)
<1> DEFINE r == f % PacketSize
           q == (f + 1) % PacketSize
<1>1. f \in Int /\ f + 1 \in 0 .. ChunkSize /\ r % 3 = k
  BY Sizes DEF Aligned
<1>2. r \in 0 .. PacketSize - 1 /\ q = IF r = PacketSize - 1 THEN 0 ELSE r + 1
  BY <1>1, Sizes, Division, NextRemainder
<1>3. q # 0 => f + 1 # ChunkSize
  BY Sizes
<1> HIDE DEF r, q
<1>4. (PacketSize - 1) % 3 = 1 /\ PacketSize \in Nat /\ ChunkSize \in Nat
  BY Sizes
<1>5. k # 1 => q # 0 /\ q = r + 1
  BY <1>1, <1>2, <1>4
<1>6. q % 3 = IF q = 0 THEN 0 ELSE (k + 1) % 3
  <2>1. ASSUME q # 0 PROVE q = r + 1 /\ r \in Nat
    BY <1>2, <1>4, <2>1
  <2>2. ASSUME NEW x \in Nat, x % 3 = k PROVE (x + 1) % 3 = (k + 1) % 3
    BY <2>2
  <2>3. 0 % 3 = 0
    OBVIOUS
  <2> QED
    BY <1>1, <2>1, <2>2, <2>3
<1> QED
  BY <1>1, <1>3, <1>4, <1>5, <1>6 DEF Aligned, q

(* chunk_filled -= mod leaves whole packets. *)
LEMMA TruncatedIsAligned ==
    ASSUME NEW f, Aligned(f, 0)
    PROVE  /\ PacketRem(f) \in 0 .. f
           /\ Aligned(f - PacketRem(f), 0)
<1> DEFINE r == f % PacketSize
           k == f \div PacketSize
<1>1. f \in 0 .. ChunkSize /\ f \in Int /\ PacketRem(f) = r
  BY Sizes DEF Aligned, PacketRem
<1>2. r \in 0 .. PacketSize - 1 /\ k \in Int /\ f = k * PacketSize + r
  BY <1>1, Sizes, Division
<1> HIDE DEF r, k
<1>3. k >= 0
  BY <1>1, <1>2, Sizes
<1>4. r <= f
  BY <1>1, <1>2, <1>3, Sizes
<1>5. f - r = k * PacketSize + 0 /\ f - r \in Int
  BY <1>1, <1>2, Sizes
<1>6. (f - r) % PacketSize = 0
  <2>1. 0 \in 0 .. PacketSize - 1 /\ PacketSize \in Nat \ {0}
    BY Sizes
  <2> QED
    BY <1>2, <1>5, <2>1, DivisionIsUnique
<1>7. f - r \in 0 .. ChunkSize
  BY <1>1, <1>2, <1>4, Sizes
<1> QED
  BY <1>1, <1>2, <1>4, <1>6, <1>7 DEF Aligned

(* Where the daemon is with stream s; away from it is as good as fetching.   *)
At(s) == IF cur = s THEN dpc ELSE "fetch"

Before  == {"fetch", "trunc", "truncStore", "full"}
Ending  == {"lock", "wait", "woken"}
Storing == {"store", "incLoad", "incStore"}

(* Nothing is known of a stream reset under the daemon's hands. *)
FillInv(s) ==
    clean[s] =>
        /\ At(s) \in Before => /\ Aligned(filled[s], 0)
                               /\ have[s] = 0 .. filled[s] - 1
        /\ At(s) \in Ending => filled[s] = ChunkSize /\ have[s] = Offsets
        /\ At(s) = "clear"  => have[s] = {}
        /\ At(s) \in Storing =>
             /\ Aligned(filled[s], nb - 1) /\ filled[s] < ChunkSize
             /\ have[s] = 0 .. IF dpc = "store" THEN filled[s] - 1 ELSE filled[s]
        /\ At(s) \in {"truncStore", "incStore"} => reg = filled[s]

FirstByte == dpc \notin Storing => nb = 1

(* What waits is whole, and of a stream reset under the daemon's hands       *)
(* nothing waits.                                                            *)
QueueInv(s) ==
    /\ ~ clean[s] => Empty(s)
    /\ \A i \in 1 .. Backlog(s) : chunk[s][WaitingSlot(s, i)].kind # "torn"

FifoInv ==
    /\ RingInv
    /\ FirstByte
    /\ \A s \in Streams : FillInv(s) /\ QueueInv(s)

LEMMA EmptyBacklog ==
    ASSUME TypeOK, NEW s \in Streams
    PROVE  Empty(s) <=> Backlog(s) = 0
<1>1. wp[s] \in Slots /\ rp[s] \in Slots
  BY DEF TypeOK
<1> QED
  BY <1>1, BacklogValue, Sizes DEF Empty, Backlog, Slots

LEMMA FifoInvInit == Init => FifoInv
<1> SUFFICES ASSUME Init PROVE FifoInv
  OBVIOUS
<1>1. RingInv /\ TypeOK
  BY RingInvInit DEF RingInv, TypeInv
<1>2. FirstByte
  BY DEF Init, FirstByte
<1>3. ASSUME NEW s \in Streams PROVE FillInv(s) /\ QueueInv(s)
  <2>1. At(s) = "fetch" /\ Empty(s) /\ filled[s] = 0 /\ have[s] = {} /\ clean[s]
    BY DEF Init, At, Empty
  <2>2. Backlog(s) = 0
    BY <1>1, <2>1, EmptyBacklog
  <2>3. Aligned(0, 0) /\ 0 .. 0 - 1 = {}
    BY Sizes DEF Aligned
  <2> QED
    BY <2>1, <2>2, <2>3 DEF FillInv, QueueInv, Before, Ending, Storing
<1> QED
  BY <1>1, <1>2, <1>3 DEF FifoInv

(* A step that leaves alone what FillInv is about. *)
LEMMA FillFrame ==
    ASSUME NEW s \in Streams, FillInv(s),
           UNCHANGED <<filled[s], have[s], clean[s]>>,
           IF cur = s THEN UNCHANGED <<dpc, cur, nb, reg>> ELSE cur' # s
    PROVE  FillInv(s)'
BY DEF FillInv, At, Storing

(* The daemon's own steps. *)
LEMMA DaemonFill ==
    ASSUME FifoInv, DaemonStep \/ Timeout
    PROVE  FirstByte' /\ \A s \in Streams : FillInv(s)'
<1>1. /\ TypeOK /\ dpc # "fetch" /\ cur \in Streams /\ FirstByte
      /\ \A s \in Streams : FillInv(s)
  BY DEF FifoInv, RingInv, TypeInv, DaemonStep, Timeout, Truncate, TruncateStore,
         CheckFilled, PublishOrWait, PublishOrDrop, ClearFilled, Store, IncLoad, IncStore
<1>2. /\ filled \in [Streams -> Int] /\ have \in [Streams -> SUBSET Offsets]
      /\ clean \in [Streams -> BOOLEAN] /\ nb \in 1 .. 3
      /\ At(cur) = dpc /\ FillInv(cur)
  BY <1>1 DEF TypeOK, At
(* The other streams stay as they are; for the one in hand there is a proof. *)
<1>3. ASSUME cur' \in {cur, NoStream}, cur' # cur => dpc' = "fetch",
             \A s \in Streams \ {cur} : UNCHANGED <<filled[s], have[s], clean[s]>>
      PROVE  \A s \in Streams \ {cur} : FillInv(s)'
  <2> SUFFICES ASSUME NEW s \in Streams \ {cur} PROVE FillInv(s)'
    OBVIOUS
  <2>1. FillInv(s) /\ UNCHANGED <<filled[s], have[s], clean[s]>> /\ At(s) = "fetch"
    BY <1>1, <1>3 DEF At
  <2>2. At(s)' = "fetch"
    BY <1>3 DEF At
  <2> QED
    BY <2>1, <2>2 DEF FillInv, Before, Ending, Storing
<1> USE DEF streamVars, daemonVars, readerVars, hwVars, histVars
<1>4. CASE Truncate
  <2>1. /\ UNCHANGED <<filled, have, clean, cur, nb>>
        /\ dpc = "trunc" /\ dpc' \in {"full", "truncStore"}
        /\ dpc' = "truncStore" => reg' = filled[cur]
    BY <1>4 DEF Truncate
  <2>2. FillInv(cur)'
    BY <1>1, <1>2, <2>1 DEF FillInv, At, Before, Ending, Storing
  <2> QED
    BY <1>1, <1>3, <2>1, <2>2 DEF FirstByte, Storing
<1>5. CASE TruncateStore
  <2>1. PICK x \in {reg, filled[cur]} :
          /\ filled' = [filled EXCEPT ![cur] = x - PacketRem(reg)]
          /\ have' = [have EXCEPT ![cur] = {o \in @ : o < x - PacketRem(reg)}]
    BY <1>5 DEF TruncateStore
  <2>2. UNCHANGED <<clean, cur, nb>> /\ dpc = "truncStore" /\ dpc' = "full"
    BY <1>5 DEF TruncateStore
  <2>3. FillInv(cur)'
    <3> SUFFICES ASSUME clean[cur]
                 PROVE  Aligned(filled'[cur], 0) /\ have'[cur] = 0 .. filled'[cur] - 1
      BY <1>1, <2>2 DEF FillInv, At, Before, Ending, Storing, Aligned
    <3>1. /\ Aligned(filled[cur], 0) /\ have[cur] = 0 .. filled[cur] - 1
          /\ reg = filled[cur]
      BY <1>1, <1>2, <2>2 DEF FillInv, Before
    <3> DEFINE g == filled[cur] - PacketRem(filled[cur])
    <3>2. Aligned(g, 0) /\ PacketRem(filled[cur]) \in 0 .. filled[cur]
      BY <3>1, TruncatedIsAligned
    <3>3. filled'[cur] = g /\ have'[cur] = {o \in have[cur] : o < g}
      BY <1>1, <1>2, <2>1, <3>1
    <3>4. filled[cur] \in Nat
      BY <3>1, Sizes DEF Aligned
    <3>5. {o \in 0 .. filled[cur] - 1 : o < g} = 0 .. g - 1
      BY <3>2, <3>4
    <3> HIDE DEF g
    <3> QED
      BY <3>1, <3>2, <3>3, <3>5
  <2> QED
    BY <1>1, <1>3, <2>1, <2>2, <2>3 DEF FirstByte, Storing
<1>6. CASE CheckFilled
  <2>1. /\ UNCHANGED <<filled, have, clean, cur, nb, reg>> /\ dpc = "full"
        /\ dpc' = IF filled[cur] >= ChunkSize THEN "lock" ELSE "store"
    BY <1>6 DEF CheckFilled
  <2>2. FillInv(cur)'
    <3> SUFFICES ASSUME clean[cur] PROVE FillInv(cur)'
      BY <1>1, <2>1 DEF FillInv
    <3>1. /\ Aligned(filled[cur], 0) /\ have[cur] = 0 .. filled[cur] - 1 /\ nb = 1
          /\ filled[cur] \in 0 .. ChunkSize
      BY <1>1, <1>2, <2>1 DEF FillInv, FirstByte, Storing, Before, Aligned
    <3>2. CASE filled[cur] >= ChunkSize
      <4>1. filled[cur] = ChunkSize /\ have[cur] = Offsets
        BY <3>1, <3>2, Sizes DEF Offsets
      <4>2. dpc' = "lock" /\ At(cur)' = "lock"
        BY <2>1, <3>2 DEF At
      <4> QED
        BY <2>1, <4>1, <4>2 DEF FillInv, Before, Ending, Storing
    <3>3. CASE ~ (filled[cur] >= ChunkSize)
      <4>1. dpc' = "store" /\ At(cur)' = "store" /\ filled[cur] < ChunkSize /\ nb' - 1 = 0
        BY <2>1, <3>1, <3>3, Sizes DEF At
      <4> QED
        BY <2>1, <3>1, <4>1 DEF FillInv, Before, Ending, Storing, Aligned
    <3> QED
      BY <3>2, <3>3
  <2>3. FirstByte'
    BY <1>1, <2>1 DEF FirstByte, Storing
  <2> QED
    BY <1>1, <1>3, <2>1, <2>2, <2>3
<1>7. ASSUME Publish(cur), dpc \in Ending
      PROVE  FirstByte' /\ \A s \in Streams : FillInv(s)'
  <2>1. /\ UNCHANGED <<filled, cur, nb>> /\ dpc' = "clear" /\ dpc \in Ending
        /\ have' = [have EXCEPT ![cur] = {}] /\ clean' = [clean EXCEPT ![cur] = TRUE]
    BY <1>7 DEF Publish
  <2>2. FillInv(cur)'
    BY <1>1, <1>2, <2>1 DEF FillInv, At, Before, Ending, Storing
  <2> QED
    BY <1>1, <1>2, <1>3, <2>1, <2>2 DEF FirstByte, Storing, Ending
<1>8. CASE PublishOrWait
  <2>1. CASE Publish(cur)
    BY <1>7, <1>8, <2>1 DEF PublishOrWait, Ending
  <2>2. CASE dpc' = "wait" /\ UNCHANGED <<filled, have, clean, cur, nb, reg>>
    <3>1. FillInv(cur)'
      BY <1>1, <1>2, <1>8, <2>2 DEF PublishOrWait, FillInv, At, Before, Ending, Storing
    <3> QED
      BY <1>1, <1>3, <1>8, <2>2, <3>1 DEF PublishOrWait, FirstByte, Storing
  <2> QED
    BY <1>8, <2>1, <2>2 DEF PublishOrWait
<1>9. CASE Timeout
  <2>1. /\ UNCHANGED <<filled, have, clean, cur, nb, reg>>
        /\ dpc = "wait" /\ dpc' = "woken"
    BY <1>9 DEF Timeout
  <2>2. FillInv(cur)'
    BY <1>1, <1>2, <2>1 DEF FillInv, At, Before, Ending, Storing
  <2> QED
    BY <1>1, <1>3, <2>1, <2>2 DEF FirstByte, Storing
<1>10. CASE PublishOrDrop
  <2>1. CASE Publish(cur)
    BY <1>7, <1>10, <2>1 DEF PublishOrDrop, Ending
  <2>2. CASE dpc' = "fetch" /\ cur' = NoStream /\ UNCHANGED <<filled, have, clean, nb, reg>>
    <3>1. dpc = "woken"
      BY <1>10 DEF PublishOrDrop
    <3>2. FillInv(cur)
      BY <1>2
    <3>3. Aligned(ChunkSize, 0) /\ Offsets = 0 .. ChunkSize - 1
      BY Sizes DEF Aligned, Offsets
    <3>4. \A s \in Streams : At(s)' = "fetch"
      BY <2>2 DEF At
    <3>5. clean[cur] => filled[cur] = ChunkSize /\ have[cur] = Offsets
      BY <1>2, <3>1 DEF FillInv, Ending
    <3>6. clean[cur] => Aligned(filled'[cur], 0) /\ have'[cur] = 0 .. filled'[cur] - 1
      BY <2>2, <3>3, <3>5
    <3>7. \A s \in Streams : s = cur => FillInv(s)'
      BY <2>2, <3>4, <3>6 DEF FillInv, Before, Ending, Storing, Aligned
    <3>8. FirstByte'
      BY <1>1, <2>2, <3>1 DEF FirstByte, Storing
    <3> QED
      BY <1>3, <2>2, <3>6, <3>7, <3>8
  <2> QED
    BY <1>10, <2>1, <2>2 DEF PublishOrDrop
<1>11. CASE ClearFilled
  <2>1. /\ filled' = [filled EXCEPT ![cur] = 0] /\ UNCHANGED <<have, clean, cur, nb, reg>>
        /\ dpc = "clear" /\ dpc' = "store"
    BY <1>11 DEF ClearFilled
  <2>2. FillInv(cur)'
    <3> SUFFICES ASSUME clean[cur] PROVE FillInv(cur)'
      BY <1>1, <2>1 DEF FillInv
    <3>1. have'[cur] = {} /\ filled'[cur] = 0 /\ nb' = 1 /\ At(cur)' = "store"
      BY <1>1, <1>2, <2>1 DEF FillInv, FirstByte, Storing, At
    <3>2. Aligned(0, 0) /\ 0 < ChunkSize /\ 0 .. 0 - 1 = {} /\ nb' - 1 = 0
      BY <3>1, Sizes DEF Aligned
    <3> QED
      BY <2>1, <3>1, <3>2 DEF FillInv, Before, Ending, Storing, Aligned
  <2> QED
    BY <1>1, <1>2, <1>3, <2>1, <2>2 DEF FirstByte, Storing
<1>12. CASE Store
  <2>1. /\ UNCHANGED <<filled, clean, cur, nb, reg>>
        /\ have' = [have EXCEPT ![cur] = @ \cup ({filled[cur]} \cap Offsets)]
        /\ dpc = "store" /\ dpc' = "incLoad"
    BY <1>12 DEF Store
  <2>2. FillInv(cur)'
    <3> SUFFICES ASSUME clean[cur] PROVE FillInv(cur)'
      BY <1>1, <2>1 DEF FillInv
    <3>1. /\ Aligned(filled[cur], nb - 1) /\ filled[cur] < ChunkSize
          /\ have[cur] = 0 .. filled[cur] - 1
      BY <1>1, <1>2, <2>1 DEF FillInv, Storing
    <3>2. filled[cur] \in Nat /\ filled[cur] \in Offsets
      BY <3>1, Sizes DEF Aligned, Offsets
    <3>3. have'[cur] = (0 .. filled[cur] - 1) \cup {filled[cur]}
      BY <1>1, <1>2, <2>1, <3>1, <3>2
    <3>4. have'[cur] = 0 .. filled[cur]
      BY <3>2, <3>3
    <3> QED
      BY <2>1, <3>1, <3>4 DEF FillInv, At, Before, Ending, Storing, Aligned
  <2>3. FirstByte'
    BY <2>1 DEF FirstByte, Storing
  <2> QED
    BY <1>1, <1>2, <1>3, <2>1, <2>2, <2>3
<1>13. CASE IncLoad
  <2>1. /\ UNCHANGED <<filled, have, clean, cur, nb>> /\ reg' = filled[cur]
        /\ dpc = "incLoad" /\ dpc' = "incStore"
    BY <1>13 DEF IncLoad
  <2>2. FillInv(cur)'
    BY <1>1, <1>2, <2>1 DEF FillInv, At, Before, Ending, Storing, Aligned
  <2>3. FirstByte'
    BY <2>1 DEF FirstByte, Storing
  <2> QED
    BY <1>1, <1>3, <2>1, <2>2, <2>3
<1>14. CASE IncStore
  <2> DEFINE Ends == nb = 3 \/ (nb = 2 /\ PacketRem(reg + 1) = 0)
  <2>1. /\ UNCHANGED <<have, clean>> /\ filled' = [filled EXCEPT ![cur] = reg + 1]
        /\ dpc = "incStore"
        /\ Ends => dpc' = "fetch" /\ cur' = NoStream /\ nb' = 1
        /\ ~ Ends => dpc' = "store" /\ cur' = cur /\ nb' = nb + 1
    BY <1>14 DEF IncStore
  <2>2. ASSUME clean[cur]
        PROVE  /\ have'[cur] = 0 .. filled'[cur] - 1
               /\ Ends => Aligned(filled'[cur], 0)
               /\ ~ Ends => Aligned(filled'[cur], nb) /\ filled'[cur] < ChunkSize
    <3>1. /\ Aligned(filled[cur], nb - 1) /\ filled[cur] < ChunkSize
          /\ have[cur] = 0 .. filled[cur] /\ reg = filled[cur]
      BY <1>1, <1>2, <2>1, <2>2 DEF FillInv, Storing
    <3>2. filled'[cur] = filled[cur] + 1 /\ filled[cur] \in Nat
      BY <1>1, <1>2, <2>1, <3>1, Sizes DEF Aligned
    <3>3. have'[cur] = 0 .. filled'[cur] - 1
      BY <2>1, <3>1, <3>2
    <3>4. PacketRem(reg + 1) = (filled[cur] + 1) % PacketSize
      BY <3>1, <3>2 DEF PacketRem
    <3>5. CASE nb = 1
      BY <3>1, <3>2, <3>3, <3>5, NextByte
    <3>6. CASE nb = 2
      BY <3>1, <3>2, <3>3, <3>4, <3>6, NextByte
    <3>7. CASE nb = 3
      BY <3>1, <3>2, <3>3, <3>7, NextByte
    <3> QED
      BY <1>2, <3>5, <3>6, <3>7
  <2>3. CASE Ends
    <3>1. \A s \in Streams : At(s)' = "fetch"
      BY <2>1, <2>3 DEF At
    <3>2. \A s \in Streams : s = cur => FillInv(s)'
      BY <2>1, <2>2, <2>3, <3>1 DEF FillInv, Before, Ending, Storing, Aligned
    <3>3. FirstByte'
      BY <2>1, <2>3 DEF FirstByte
    <3> QED
      BY <1>2, <1>3, <2>1, <2>3, <3>2, <3>3
  <2>4. CASE ~ Ends
    <3>1. At(cur)' = "store" /\ nb' - 1 = nb /\ dpc' = "store" /\ cur' = cur
      BY <1>2, <2>1, <2>4 DEF At
    <3>2. FillInv(cur)'
      BY <2>1, <2>2, <2>4, <3>1 DEF FillInv, Before, Ending, Storing, Aligned
    <3>3. FirstByte'
      BY <3>1 DEF FirstByte, Storing
    <3> QED
      BY <1>2, <1>3, <2>1, <3>1, <3>2, <3>3
  <2> QED
    BY <2>3, <2>4
<1> QED
  BY <1>4, <1>5, <1>6, <1>8, <1>9, <1>10, <1>11, <1>12, <1>13, <1>14 DEF DaemonStep

(* Everybody else's.  SignalNotFull moves the daemon from one place where    *)
(* the chunk is complete to another.                                         *)
LEMMA SignalFill ==
    ASSUME FifoInv, NEW x \in Streams, SignalNotFull(x),
           UNCHANGED <<filled, have, clean, cur, nb, reg>>
    PROVE  FirstByte' /\ \A s \in Streams : FillInv(s)'
<1>1. dpc' = dpc \/ (dpc = "wait" /\ dpc' = "woken")
  BY DEF SignalNotFull
<1>2. FirstByte'
  BY <1>1 DEF FifoInv, FirstByte, Storing
<1>3. ASSUME NEW s \in Streams PROVE FillInv(s)'
  <2>1. FillInv(s)
    BY DEF FifoInv
  <2>2. CASE dpc' = dpc
    BY <2>1, <2>2 DEF FillInv, At, Storing
  <2>3. CASE dpc = "wait" /\ dpc' = "woken"
    BY <2>1, <2>3 DEF FillInv, At, Before, Ending, Storing
  <2> QED
    BY <1>1, <2>2, <2>3
<1> QED
  BY <1>2, <1>3

LEMMA OtherFill ==
    ASSUME FifoInv, NEW x \in Streams,
           \/ OpenBegin(x) \/ OpenReset(x) \/ Close(x)
           \/ Discard(x) \/ Fetch(x) \/ MicroPacketError
           \/ \E r \in Readers : ReadCall(x, r) \/ ReaderStep(x, r)
    PROVE  FirstByte' /\ \A s \in Streams : FillInv(s)'
<1> USE DEF streamVars, daemonVars, readerVars, hwVars, histVars
<1>1. /\ TypeOK /\ FirstByte
      /\ \A s \in Streams : FillInv(s)
  BY DEF FifoInv, RingInv, TypeInv
<1>2. ASSUME UNCHANGED <<filled, have, clean, dpc, cur, nb, reg>>
      PROVE  FirstByte' /\ \A s \in Streams : FillInv(s)'
  BY <1>1, <1>2, FillFrame DEF FirstByte
<1>3. CASE OpenBegin(x)
  BY <1>2, <1>3 DEF OpenBegin
<1>4. CASE OpenReset(x)
  <2>1. /\ filled' = [filled EXCEPT ![x] = 0] /\ have' = [have EXCEPT ![x] = {}]
        /\ clean' = [clean EXCEPT ![x] = (cur # x)]
        /\ UNCHANGED <<dpc, cur, nb, reg>>
    BY <1>4 DEF OpenReset
  <2>2. /\ filled \in [Streams -> Int] /\ have \in [Streams -> SUBSET Offsets]
        /\ clean \in [Streams -> BOOLEAN]
    BY <1>1 DEF TypeOK
  <2>3. FillInv(x)'
    <3> SUFFICES ASSUME cur # x PROVE FillInv(x)'
      BY <2>1, <2>2 DEF FillInv
    <3>1. At(x)' = "fetch" /\ filled'[x] = 0 /\ have'[x] = {}
      BY <2>1, <2>2 DEF At
    <3>2. Aligned(0, 0) /\ 0 .. 0 - 1 = {}
      BY Sizes DEF Aligned
    <3> QED
      BY <3>1, <3>2 DEF FillInv, Before, Ending, Storing, Aligned
  <2>4. ASSUME NEW s \in Streams \ {x} PROVE FillInv(s)'
    <3>1. FillInv(s) /\ UNCHANGED <<filled[s], have[s], clean[s]>>
      BY <1>1, <2>1, <2>2
    <3> QED
      BY <2>1, <3>1, FillFrame
  <2> QED
    BY <1>1, <2>1, <2>3, <2>4 DEF FirstByte
<1>5. CASE Close(x)
  BY <1>5, SignalFill DEF Close
<1>6. CASE Discard(x)
  BY <1>2, <1>6 DEF Discard
<1>7. CASE MicroPacketError
  BY <1>2, <1>7 DEF MicroPacketError
<1>8. CASE Fetch(x)
  <2>1. /\ UNCHANGED <<filled, have, clean, nb, reg>>
        /\ dpc = "fetch" /\ dpc' \in {"trunc", "full"} /\ cur' = x
    BY <1>8 DEF Fetch
  <2>2. FirstByte'
    BY <1>1, <2>1 DEF FirstByte, Storing
  <2>3. ASSUME NEW s \in Streams PROVE FillInv(s)'
    <3>1. FillInv(s) /\ At(s) = "fetch" /\ At(s)' \in {"fetch", "trunc", "full"}
      BY <1>1, <2>1 DEF At
    <3> QED
      BY <2>1, <3>1 DEF FillInv, Before, Ending, Storing
  <2> QED
    BY <2>2, <2>3
<1>9. ASSUME NEW r \in Readers, ReadCall(x, r) \/ ReaderStep(x, r)
      PROVE  FirstByte' /\ \A s \in Streams : FillInv(s)'
  <2>1. CASE Advance(x, r)
    BY <2>1, SignalFill DEF Advance
  <2>2. CASE ~ Advance(x, r)
    BY <1>2, <1>9, <2>2
    DEF ReaderStep, ReadCall, EnterOrWait, Woken, CopyRest, CopyDone, CopyFault,
        Loop, ClearUsed
  <2> QED
    BY <2>1, <2>2
<1> QED
  BY <1>3, <1>4, <1>5, <1>6, <1>7, <1>8, <1>9

-----------------------------------------------------------------------------
(* What waits.                                                               *)

(* The numbers of the chunks of stream s that wait. *)
Queue(s) == [i \in 1 .. Backlog(s) |-> chunk[s][WaitingSlot(s, i)].no]

LEMMA QueueTypes ==
    ASSUME TypeOK, NEW s \in Streams
    PROVE  /\ wp[s] \in Slots /\ rp[s] \in Slots
           /\ Backlog(s) \in 0 .. ChunkNum - 1
           /\ \A i \in 1 .. Backlog(s) :
                WaitingSlot(s, i) \in Slots /\ WaitingSlot(s, i) # wp[s]
           /\ Queue(s) \in [1 .. Backlog(s) -> 0 .. Numbers - 1]
<1>1. wp[s] \in Slots /\ rp[s] \in Slots
  BY DEF TypeOK
<1>2. Backlog(s) \in 0 .. ChunkNum - 1
  BY <1>1, BacklogValue DEF Backlog
<1>3. ASSUME NEW i \in 1 .. Backlog(s)
      PROVE  WaitingSlot(s, i) \in Slots /\ WaitingSlot(s, i) # wp[s]
  BY <1>1, <1>3, WriterIsApart DEF Backlog, WaitingSlot
<1>4. \A j \in Slots : chunk[s][j].no \in 0 .. Numbers - 1
  BY DEF TypeOK
<1> QED
  BY <1>1, <1>2, <1>3, <1>4 DEF Queue

(* A store does not touch what waits: of a clean stream it falls into the    *)
(* slot at wp, and of another one nothing waits.                             *)
LEMMA StoreKeepsQueue ==
    ASSUME FifoInv, Store, NEW s \in Streams
    PROVE  /\ \A i \in 1 .. Backlog(s) :
                chunk'[s][WaitingSlot(s, i)] = chunk[s][WaitingSlot(s, i)]
           /\ UNCHANGED <<wp, rp, clean, number>>
<1> DEFINE addr == wp[cur] * ChunkSize + filled[cur]
<1>1. TypeOK /\ dpc = "store" /\ FillInv(cur) /\ QueueInv(cur) /\ cur \in Streams
  BY DEF FifoInv, RingInv, TypeInv, Store
<1>2. UNCHANGED <<wp, rp, clean, number>>
  BY DEF Store, streamVars
<1>3. \/ chunk' = chunk
      \/ chunk' = [chunk EXCEPT ![cur][addr \div ChunkSize].no = number[cur]]
  BY DEF Store
<1>4. CASE s # cur \/ chunk' = chunk
  BY <1>1, <1>2, <1>3, <1>4 DEF TypeOK
<1>5. CASE s = cur /\ ~ clean[cur]
  <2>1. Backlog(s) = 0
    BY <1>1, <1>5, EmptyBacklog DEF QueueInv
  <2> QED
    BY <1>2, <2>1
<1>6. CASE s = cur /\ clean[cur] /\ chunk' # chunk
  <2>1. filled[cur] \in Offsets
    BY <1>1, <1>6, Sizes DEF FillInv, At, Storing, Aligned, Offsets
  <2>2. addr \div ChunkSize = wp[cur]
    BY <1>1, <2>1, QueueTypes, AddressIsInSlot
  <2>3. chunk' = [chunk EXCEPT ![cur][wp[cur]].no = number[cur]]
    BY <1>3, <1>6, <2>2
  <2>4. \A i \in 1 .. Backlog(s) :
          WaitingSlot(s, i) \in Slots /\ WaitingSlot(s, i) # wp[s]
    BY <1>1, QueueTypes
  <2>5. \A j \in Slots \ {wp[s]} : chunk'[s][j] = chunk[s][j]
    BY <1>1, <1>6, <2>3 DEF TypeOK
  <2> QED
    BY <1>2, <2>4, <2>5
<1> QED
  BY <1>4, <1>5, <1>6

(* Publish puts the chunk at the end. *)
LEMMA PublishExtendsQueue ==
    ASSUME FifoInv, cur \in Streams, ~ Full(cur), Publish(cur)
    PROVE  /\ Backlog(cur)' = Backlog(cur) + 1
           /\ Backlog(cur) < ChunkNum - 1
           /\ WaitingSlot(cur, Backlog(cur))' = wp[cur]
           /\ chunk'[cur][wp[cur]].no = number[cur]
           /\ \A i \in 1 .. Backlog(cur) :
                /\ WaitingSlot(cur, i)' = WaitingSlot(cur, i)
                /\ chunk'[cur][WaitingSlot(cur, i)] = chunk[cur][WaitingSlot(cur, i)]
<1>1. TypeOK
  BY DEF FifoInv, RingInv, TypeInv
<1>2. /\ wp[cur] \in Slots /\ rp[cur] \in Slots
      /\ \A i \in 1 .. Backlog(cur) :
           WaitingSlot(cur, i) \in Slots /\ WaitingSlot(cur, i) # wp[cur]
  BY <1>1, QueueTypes
<1>3. wp'[cur] = NextSlot(wp[cur]) /\ UNCHANGED <<rp, cur>>
  BY <1>1 DEF Publish, TypeOK
<1>4. /\ Backlog(cur)' = Backlog(cur) + 1
      /\ Backlog(cur) < ChunkNum - 1
      /\ WaitingSlot(cur, Backlog(cur))' = wp[cur]
  <2>1. (wp[cur] + 1) % ChunkNum # rp[cur]
    BY DEF Full
  <2>2. Backlog(cur)' = (NextSlot(wp[cur]) - rp[cur]) % ChunkNum
    BY <1>3 DEF Backlog
  <2>3. Backlog(cur)' = Backlog(cur) + 1 /\ Backlog(cur) < ChunkNum - 1
    BY <1>2, <2>1, <2>2, PublishAdds DEF Backlog
  <2>4. (rp[cur] + (Backlog(cur) + 1) - 1) % ChunkNum = wp[cur]
    BY <1>2, <2>1, PublishAdds DEF Backlog
  <2> QED
    BY <1>3, <2>3, <2>4 DEF WaitingSlot
<1>5. /\ \A j \in Slots \ {wp[cur]} : chunk'[cur][j] = chunk[cur][j]
      /\ chunk'[cur][wp[cur]].no = number[cur]
  BY <1>1, <1>2 DEF Publish, TypeOK
<1> QED
  BY <1>2, <1>3, <1>4, <1>5 DEF WaitingSlot

(* Advance takes the first one away. *)
LEMMA AdvanceShortensQueue ==
    ASSUME FifoInv, NEW s \in Streams, NEW r \in Readers, Advance(s, r)
    PROVE  /\ Backlog(s)' = Backlog(s) - 1
           /\ Backlog(s) > 0
           /\ \A i \in 1 .. Backlog(s) - 1 : WaitingSlot(s, i)' = WaitingSlot(s, i + 1)
           /\ UNCHANGED <<wp, chunk, clean, number>>
           /\ \A x \in Streams \ {s} : rp'[x] = rp[x]
<1>1. TypeOK /\ rp[s] # wp[s]
  BY DEF FifoInv, RingInv, TypeInv, ReaderInv, Holding, Advance
<1>2. /\ wp[s] \in Slots /\ rp[s] \in Slots
      /\ rp'[s] = NextSlot(rp[s]) /\ UNCHANGED <<wp, chunk, clean, number>>
      /\ \A x \in Streams \ {s} : rp'[x] = rp[x]
  BY <1>1 DEF Advance, TypeOK, histVars
<1>3. Backlog(s)' = Backlog(s) - 1 /\ Backlog(s) > 0
  BY <1>1, <1>2, AdvanceRemoves DEF Backlog
<1>4. \A i \in 1 .. Backlog(s) - 1 : WaitingSlot(s, i)' = WaitingSlot(s, i + 1)
  BY <1>1, <1>2, AdvanceRemoves DEF Backlog, WaitingSlot
<1> QED
  BY <1>2, <1>3, <1>4

(* A step that leaves the indices alone and the chunks that wait. *)
LEMMA QueueFrame ==
    ASSUME FifoInv, UNCHANGED <<wp, rp, clean, chunk>>
    PROVE  \A s \in Streams : QueueInv(s)'
BY DEF FifoInv, QueueInv, Empty, Backlog, WaitingSlot

LEMMA PublishQueue ==
    ASSUME FifoInv, cur \in Streams, dpc \in Ending, ~ Full(cur), Publish(cur)
    PROVE  \A s \in Streams : QueueInv(s)'
<1>1. TypeOK /\ FillInv(cur) /\ \A s \in Streams : QueueInv(s)
  BY DEF FifoInv, RingInv, TypeInv
<1>2. /\ wp' = [wp EXCEPT ![cur] = NextSlot(@)]
      /\ chunk' = [chunk EXCEPT ![cur][wp[cur]] =
                     [no |-> number[cur],
                      kind |-> IF have[cur] = Offsets THEN "whole"
                               ELSE IF clean[cur] THEN "torn" ELSE "raced"]]
      /\ clean' = [clean EXCEPT ![cur] = TRUE] /\ UNCHANGED <<rp, cur>>
  BY DEF Publish
<1>3. ASSUME NEW s \in Streams, s # cur PROVE QueueInv(s)'
  <2>1. UNCHANGED <<wp[s], rp[s], clean[s], chunk[s]>>
    BY <1>1, <1>2, <1>3 DEF TypeOK
  <2>2. QueueInv(s)
    BY <1>1
  <2> QED
    BY <2>1, <2>2 DEF QueueInv, Empty, Backlog, WaitingSlot
<1>4. QueueInv(cur)'
  <2>1. clean'[cur]
    BY <1>1, <1>2 DEF TypeOK
  <2>2. chunk'[cur][wp[cur]].kind # "torn"
    <3>1. clean[cur] => have[cur] = Offsets
      BY <1>1 DEF FillInv, At, Ending
    <3>2. wp[cur] \in Slots
      BY <1>1 DEF TypeOK
    <3>3. chunk'[cur][wp[cur]].kind = IF have[cur] = Offsets THEN "whole"
                                      ELSE IF clean[cur] THEN "torn" ELSE "raced"
      BY <1>1, <1>2, <3>2 DEF TypeOK
    <3> QED
      BY <3>1, <3>3
  <2>3. ASSUME NEW i \in 1 .. Backlog(cur)'
        PROVE  chunk'[cur][WaitingSlot(cur, i)'].kind # "torn"
    <3>1. /\ Backlog(cur)' = Backlog(cur) + 1 /\ Backlog(cur) \in Nat
          /\ WaitingSlot(cur, Backlog(cur))' = wp[cur]
      BY <1>1, PublishExtendsQueue, QueueTypes
    <3>2. CASE i = Backlog(cur)'
      <4>1. WaitingSlot(cur, i)' = WaitingSlot(cur, Backlog(cur))'
        BY <3>2 DEF WaitingSlot
      <4> QED
        BY <2>2, <3>1, <4>1
    <3>3. CASE i # Backlog(cur)'
      <4>1. i \in 1 .. Backlog(cur)
        BY <3>1, <3>3
      <4> QED
        BY <1>1, <4>1, PublishExtendsQueue DEF QueueInv
    <3> QED
      BY <3>2, <3>3
  <2> QED
    BY <1>2, <2>1, <2>3 DEF QueueInv
<1> QED
  BY <1>2, <1>3, <1>4

LEMMA StoreQueue ==
    ASSUME FifoInv, Store
    PROVE  \A s \in Streams : QueueInv(s)'
<1> SUFFICES ASSUME NEW s \in Streams PROVE QueueInv(s)'
  OBVIOUS
<1>1. QueueInv(s)
  BY DEF FifoInv
<1> QED
  BY <1>1, StoreKeepsQueue DEF QueueInv, Empty, Backlog, WaitingSlot

LEMMA AdvanceQueue ==
    ASSUME FifoInv, NEW x \in Streams, NEW r \in Readers, Advance(x, r)
    PROVE  \A s \in Streams : QueueInv(s)'
<1>1. TypeOK /\ \A s \in Streams : QueueInv(s)
  BY DEF FifoInv, RingInv, TypeInv
<1>2. /\ Backlog(x)' = Backlog(x) - 1 /\ Backlog(x) > 0
      /\ \A i \in 1 .. Backlog(x) - 1 : WaitingSlot(x, i)' = WaitingSlot(x, i + 1)
      /\ UNCHANGED <<wp, chunk, clean, number>>
      /\ \A s \in Streams \ {x} : rp'[s] = rp[s]
  BY AdvanceShortensQueue
<1>3. ASSUME NEW s \in Streams \ {x} PROVE QueueInv(s)'
  BY <1>1, <1>2, <1>3 DEF QueueInv, Empty, Backlog, WaitingSlot
<1>4. QueueInv(x)'
  <2>1. clean[x] /\ Backlog(x) \in Nat
    BY <1>1, <1>2, EmptyBacklog, QueueTypes DEF QueueInv
  <2>2. ASSUME NEW i \in 1 .. Backlog(x)'
        PROVE  chunk'[x][WaitingSlot(x, i)'].kind # "torn"
    <3>1. i + 1 \in 1 .. Backlog(x) /\ i \in 1 .. Backlog(x) - 1
      BY <1>2, <2>1
    <3>2. chunk[x][WaitingSlot(x, i + 1)].kind # "torn"
      BY <1>1, <3>1 DEF QueueInv
    <3> QED
      BY <1>2, <3>1, <3>2
  <2> QED
    BY <1>2, <2>1, <2>2 DEF QueueInv
<1> QED
  BY <1>3, <1>4

LEMMA OpenQueue ==
    ASSUME FifoInv, NEW x \in Streams, OpenReset(x)
    PROVE  \A s \in Streams : QueueInv(s)'
<1>1. TypeOK /\ \A s \in Streams : QueueInv(s)
  BY DEF FifoInv, RingInv, TypeInv
<1>2. /\ wp' = [wp EXCEPT ![x] = 0] /\ rp' = [rp EXCEPT ![x] = 0]
      /\ clean' = [clean EXCEPT ![x] = (cur # x)] /\ UNCHANGED chunk
  BY DEF OpenReset
<1>3. ASSUME NEW s \in Streams \ {x} PROVE QueueInv(s)'
  <2>1. UNCHANGED <<wp[s], rp[s], clean[s], chunk[s]>> /\ QueueInv(s)
    BY <1>1, <1>2 DEF TypeOK
  <2> QED
    BY <2>1 DEF QueueInv, Empty, Backlog, WaitingSlot
<1>4. QueueInv(x)'
  <2>1. wp'[x] = 0 /\ rp'[x] = 0
    BY <1>1, <1>2 DEF TypeOK
  <2>2. Backlog(x)' = 0
    BY <2>1, SlotZero, BacklogValue DEF Backlog
  <2> QED
    BY <2>1, <2>2 DEF QueueInv, Empty
<1> QED
  BY <1>3, <1>4

(* Every step keeps what is in the chunks.                                   *)
LEMMA FifoInvNext ==
    ASSUME OneReader, FifoInv, [Next]_vars
    PROVE  FifoInv'
<1>1. RingInv'
  BY RingInvNext DEF FifoInv
<1> USE DEF streamVars, daemonVars, readerVars, hwVars, histVars
<1>2. FirstByte' /\ \A s \in Streams : FillInv(s)'
  <2>1. CASE UNCHANGED vars
    <3>1. \A s \in Streams : FillInv(s)'
      BY <2>1, FillFrame DEF vars, FifoInv
    <3> QED
      BY <2>1, <3>1 DEF vars, FifoInv, FirstByte
  <2>2. CASE DaemonStep \/ Timeout
    BY <2>2, DaemonFill
  <2>3. ASSUME NEW x \in Streams,
               \/ OpenBegin(x) \/ OpenReset(x) \/ Close(x)
               \/ Discard(x) \/ Fetch(x) \/ MicroPacketError
               \/ \E r \in Readers : ReadCall(x, r) \/ ReaderStep(x, r)
        PROVE  FirstByte' /\ \A s \in Streams : FillInv(s)'
    BY <2>3, OtherFill
  <2>4. CASE MicroPacketError
    <3>1. \A s \in Streams : FillInv(s)'
      BY <2>4, FillFrame DEF MicroPacketError, FifoInv
    <3> QED
      BY <2>4, <3>1 DEF MicroPacketError, FifoInv, FirstByte
  <2> QED
    BY <2>1, <2>2, <2>3, <2>4 DEF Next
<1>3. \A s \in Streams : QueueInv(s)'
  <2>1. CASE UNCHANGED <<wp, rp, clean, chunk>>
    BY <2>1, QueueFrame
  <2>2. CASE Store
    BY <2>2, StoreQueue
  <2>3. ASSUME NEW x \in Streams, OpenReset(x) PROVE \A s \in Streams : QueueInv(s)'
    BY <2>3, OpenQueue
  <2>4. ASSUME NEW x \in Streams, NEW r \in Readers, Advance(x, r)
        PROVE  \A s \in Streams : QueueInv(s)'
    BY <2>4, AdvanceQueue
  <2>5. CASE PublishOrWait \/ PublishOrDrop
    <3>1. cur \in Streams /\ dpc \in Ending
      BY <2>5 DEF FifoInv, RingInv, TypeInv, PublishOrWait, PublishOrDrop, Ending
    <3>2. CASE ~ Full(cur) /\ Publish(cur)
      BY <3>1, <3>2, PublishQueue
    <3> QED
      BY <2>1, <2>5, <3>2 DEF PublishOrWait, PublishOrDrop
  <2>6. CASE \/ UNCHANGED vars \/ MicroPacketError \/ Timeout
             \/ Truncate \/ TruncateStore \/ CheckFilled \/ ClearFilled
             \/ IncLoad \/ IncStore
    BY <2>1, <2>6
    DEF vars, MicroPacketError, Timeout, Truncate, TruncateStore, CheckFilled,
        ClearFilled, IncLoad, IncStore
  <2>7. ASSUME NEW x \in Streams,
               OpenBegin(x) \/ Close(x) \/ Discard(x) \/ Fetch(x)
        PROVE  \A s \in Streams : QueueInv(s)'
    BY <2>1, <2>7 DEF OpenBegin, Close, Discard, Fetch
  <2>8. ASSUME NEW x \in Streams, NEW r \in Readers,
               ReadCall(x, r) \/ ReaderStep(x, r), ~ Advance(x, r)
        PROVE  \A s \in Streams : QueueInv(s)'
    BY <2>1, <2>8
    DEF ReaderStep, ReadCall, EnterOrWait, Woken, CopyRest, CopyDone, CopyFault,
        Loop, ClearUsed
  <2> QED
    BY <2>2, <2>3, <2>4, <2>5, <2>6, <2>7, <2>8 DEF Next, DaemonStep, ReaderStep
<1> QED
  BY <1>1, <1>2, <1>3 DEF FifoInv

(* So it holds in every state.                                               *)
LEMMA FifoInvAlways ==
    ASSUME OneReader
    PROVE  Spec => []FifoInv
<1>1. FifoInv /\ [Next]_vars => FifoInv'
  BY FifoInvNext
<1> QED
  BY <1>1, FifoInvInit, PTL DEF Spec

(* With one reader, every byte the daemon stores falls into the chunk at wp, *)
(* wherever errors cut packets short and whenever the stream is opened, but  *)
(* for a session opened under the daemon's hands (ptx_proc.c:190-204).       *)
THEOREM StoresAlwaysStayInChunk ==
    ASSUME OneReader
    PROVE  Spec => []StoresStayInChunk
<1>1. FifoInv => StoresStayInChunk
  <2> SUFFICES ASSUME FifoInv, dpc = "store", clean[cur] PROVE filled[cur] \in Offsets
    BY DEF StoresStayInChunk
  <2>1. cur \in Streams /\ FillInv(cur)
    BY DEF FifoInv, RingInv, TypeInv
  <2> QED
    BY <2>1, Sizes DEF FillInv, At, Storing, Aligned, Offsets
<1> QED
  BY <1>1, FifoInvAlways, PTL

(* With one reader, no chunk that waits for it has a byte nobody wrote, with *)
(* the same exception.                                                       *)
THEOREM WaitingChunksAreAlwaysWhole ==
    ASSUME OneReader
    PROVE  Spec => []WaitingChunksAreWhole
<1>1. FifoInv => WaitingChunksAreWhole
  BY DEF FifoInv, QueueInv, WaitingChunksAreWhole
<1> QED
  BY <1>1, FifoInvAlways, PTL

-----------------------------------------------------------------------------
(* The refinement.                                                           *)

(* Sequences given as functions. *)
LEMMA SeqType ==
    ASSUME NEW S, NEW n \in Nat, NEW q \in [1 .. n -> S]
    PROVE  q \in Seq(S) /\ Len(q) = n /\ DOMAIN q = 1 .. n
OBVIOUS

LEMMA SeqAppend ==
    ASSUME NEW S, NEW n \in Nat, NEW q \in [1 .. n -> S], NEW e \in S,
           NEW p \in [1 .. n + 1 -> S], p[n + 1] = e, \A i \in 1 .. n : p[i] = q[i]
    PROVE  p = Append(q, e)
<1>1. q \in Seq(S) /\ Len(q) = n
  BY SeqType
<1>2. /\ Append(q, e) \in Seq(S) /\ Len(Append(q, e)) = n + 1
      /\ Append(q, e)[n + 1] = e
      /\ \A i \in 1 .. n : Append(q, e)[i] = q[i]
  BY <1>1
<1>3. p \in Seq(S) /\ Len(p) = n + 1
  BY SeqType
<1> QED
  BY <1>2, <1>3

LEMMA SeqTail ==
    ASSUME NEW S, NEW n \in Nat \ {0}, NEW q \in [1 .. n -> S],
           NEW p \in [1 .. n - 1 -> S], \A i \in 1 .. n - 1 : p[i] = q[i + 1]
    PROVE  p = Tail(q) /\ q # <<>>
<1>1. q \in Seq(S) /\ Len(q) = n
  BY SeqType
<1>2. /\ Tail(q) \in Seq(S) /\ Len(Tail(q)) = n - 1
      /\ \A i \in 1 .. n - 1 : Tail(q)[i] = q[i + 1]
  BY <1>1
<1>3. p \in Seq(S) /\ Len(p) = n - 1
  BY SeqType
<1> QED
  BY <1>1, <1>2, <1>3

LEMMA EmptyQueue ==
    ASSUME NEW s, Backlog(s) = 0
    PROVE  Queue(s) = <<>>
<1>1. 1 .. Backlog(s) = {}
  BY Sizes
<1> QED
  BY <1>1 DEF Queue

(* What ChunkFifo's queue stands for. *)
Queues == [s \in Streams |-> Queue(s)]

LEMMA FifoNextDef ==
    ASSUME NEW s \in Streams,
           \/ Queues' = [Queues EXCEPT ![s] = <<>>]
              /\ number' = [number EXCEPT ![s] = 0]
           \/ /\ Len(Queues[s]) < ChunkNum - 1
              /\ Queues' = [Queues EXCEPT ![s] = Append(@, number[s])]
              /\ number' = [number EXCEPT ![s] = (@ + 1) % Numbers]
           \/ /\ Queues[s] # <<>>
              /\ Queues' = [Queues EXCEPT ![s] = Tail(@)]
              /\ UNCHANGED number
    PROVE  Fifo!Next
BY DEF Fifo!Next, Fifo!Open, Fifo!Put, Fifo!Release, Queues, Queue

LEMMA FifoStutter ==
    ASSUME UNCHANGED <<Queues, number>>
    PROVE  UNCHANGED Fifo!vars
BY DEF Fifo!vars, Queues, Queue

(* A step that touches the queue of one stream only. *)
LEMMA OneQueue ==
    ASSUME NEW s \in Streams, NEW q, Queue(s)' = q,
           \A x \in Streams \ {s} : Queue(x)' = Queue(x)
    PROVE  Queues' = [Queues EXCEPT ![s] = q]
BY DEF Queues

LEMMA SameQueue ==
    ASSUME NEW s \in Streams, UNCHANGED <<wp[s], rp[s], chunk[s]>>
    PROVE  Queue(s)' = Queue(s)
BY DEF Queue, Backlog, WaitingSlot

LEMMA OpenRefines ==
    ASSUME FifoInv, NEW x \in Streams, OpenReset(x)
    PROVE  Fifo!Next
<1>1. TypeOK
  BY DEF FifoInv, RingInv, TypeInv
<1>2. /\ wp' = [wp EXCEPT ![x] = 0] /\ rp' = [rp EXCEPT ![x] = 0]
      /\ number' = [number EXCEPT ![x] = 0] /\ UNCHANGED chunk
  BY DEF OpenReset
<1>3. Queue(x)' = <<>>
  <2>1. Backlog(x)' = 0
    BY <1>1, <1>2, SlotZero, BacklogValue DEF Backlog, TypeOK
  <2>2. (1 .. Backlog(x))' = {}
    BY <2>1
  <2> QED
    BY <2>2 DEF Queue
<1>4. ASSUME NEW s \in Streams \ {x} PROVE Queue(s)' = Queue(s)
  BY <1>1, <1>2, SameQueue DEF TypeOK
<1>5. Queues' = [Queues EXCEPT ![x] = <<>>]
  BY <1>3, <1>4, OneQueue
<1> QED
  BY <1>2, <1>5, FifoNextDef

LEMMA PublishRefines ==
    ASSUME FifoInv, cur \in Streams, ~ Full(cur), Publish(cur)
    PROVE  Fifo!Next
<1>1. TypeOK
  BY DEF FifoInv, RingInv, TypeInv
<1>2. /\ wp' = [wp EXCEPT ![cur] = NextSlot(@)] /\ UNCHANGED <<rp, cur>>
      /\ number' = [number EXCEPT ![cur] = (@ + 1) % Numbers]
      /\ \A s \in Streams \ {cur} : chunk'[s] = chunk[s]
  BY <1>1 DEF Publish, TypeOK
<1>3. ASSUME NEW s \in Streams \ {cur} PROVE Queue(s)' = Queue(s)
  BY <1>1, <1>2, SameQueue DEF TypeOK
<1> DEFINE n == Backlog(cur)
           N == 0 .. Numbers - 1
           p == Queue(cur)'
<1>4. /\ n \in Nat /\ Queue(cur) \in [1 .. n -> N] /\ number[cur] \in N
      /\ \A i \in 1 .. n : Queue(cur)[i] = chunk[cur][WaitingSlot(cur, i)].no
  BY <1>1, QueueTypes DEF TypeOK, Queue
<1>5. /\ Backlog(cur)' = n + 1
      /\ WaitingSlot(cur, Backlog(cur))' = wp[cur]
      /\ chunk'[cur][wp[cur]].no = number[cur]
      /\ \A i \in 1 .. n :
           /\ WaitingSlot(cur, i)' = WaitingSlot(cur, i)
           /\ chunk'[cur][WaitingSlot(cur, i)] = chunk[cur][WaitingSlot(cur, i)]
      /\ n < ChunkNum - 1
  BY PublishExtendsQueue
<1> DEFINE at(i) == (rp[cur] + i - 1) % ChunkNum
<1>6. p = [i \in 1 .. n + 1 |-> chunk'[cur][at(i)].no]
  BY <1>2, <1>5 DEF Queue, WaitingSlot
<1>7. at(n + 1) = wp[cur]
  <2>1. WaitingSlot(cur, Backlog(cur))' = (rp[cur] + Backlog(cur)' - 1) % ChunkNum
    BY <1>2 DEF WaitingSlot
  <2> QED
    BY <1>5, <2>1
<1>8. /\ p[n + 1] = number[cur]
      /\ \A i \in 1 .. n : p[i] = Queue(cur)[i]
  <2>1. \A i \in 1 .. n : at(i) = WaitingSlot(cur, i)
    BY DEF WaitingSlot
  <2>2. n + 1 \in 1 .. n + 1 /\ \A i \in 1 .. n : i \in 1 .. n + 1
    BY <1>4
  <2> HIDE DEF at, n, p
  <2> QED
    BY <1>4, <1>5, <1>6, <1>7, <2>1, <2>2
<1>9. p \in [1 .. n + 1 -> N]
  <2>1. \A i \in 1 .. n + 1 : i = n + 1 \/ i \in 1 .. n
    BY <1>4
  <2>2. \A i \in 1 .. n + 1 : p[i] \in N
    BY <1>4, <1>8, <2>1
  <2> HIDE DEF at, n, p
  <2> QED
    BY <1>6, <2>2
<1> HIDE DEF n, p
<1>10. p = Append(Queue(cur), number[cur])
  BY <1>4, <1>8, <1>9, SeqAppend
<1>11. Queues' = [Queues EXCEPT ![cur] = Append(@, number[cur])]
  BY <1>2, <1>3, <1>10, OneQueue DEF p, Queues
<1>12. Len(Queues[cur]) < ChunkNum - 1
  BY <1>4, <1>5, SeqType DEF Queues
<1> QED
  BY <1>2, <1>11, <1>12, FifoNextDef

LEMMA AdvanceRefines ==
    ASSUME FifoInv, NEW x \in Streams, NEW r \in Readers, Advance(x, r)
    PROVE  Fifo!Next
<1>1. TypeOK
  BY DEF FifoInv, RingInv, TypeInv
<1> DEFINE n == Backlog(x)
           N == 0 .. Numbers - 1
           p == Queue(x)'
<1>2. /\ Backlog(x)' = n - 1 /\ n > 0
      /\ \A i \in 1 .. n - 1 : WaitingSlot(x, i)' = WaitingSlot(x, i + 1)
      /\ UNCHANGED <<wp, chunk, clean, number>>
      /\ \A s \in Streams \ {x} : rp'[s] = rp[s]
  BY AdvanceShortensQueue
<1>3. ASSUME NEW s \in Streams \ {x} PROVE Queue(s)' = Queue(s)
  BY <1>2, SameQueue
<1>4. /\ n \in Nat \ {0} /\ Queue(x) \in [1 .. n -> N]
      /\ \A i \in 1 .. n : Queue(x)[i] = chunk[x][WaitingSlot(x, i)].no
  BY <1>1, <1>2, QueueTypes DEF Queue
<1>5. p = [i \in 1 .. n - 1 |-> chunk'[x][WaitingSlot(x, i)'].no]
  BY <1>2 DEF Queue
<1>6. \A i \in 1 .. n - 1 : i + 1 \in 1 .. n
  BY <1>4
<1>7. \A i \in 1 .. n - 1 : p[i] = Queue(x)[i + 1]
  BY <1>2, <1>4, <1>5, <1>6
<1>8. p \in [1 .. n - 1 -> N]
  BY <1>4, <1>5, <1>6, <1>7
<1> HIDE DEF n, p
<1>9. p = Tail(Queue(x)) /\ Queue(x) # <<>>
  BY <1>4, <1>7, <1>8, SeqTail
<1>10. Queues' = [Queues EXCEPT ![x] = Tail(@)] /\ Queues[x] # <<>>
  BY <1>3, <1>9, OneQueue DEF p, Queues
<1> QED
  BY <1>2, <1>10, FifoNextDef

LEMMA StutterRefines ==
    ASSUME UNCHANGED <<wp, rp, chunk, number>>
    PROVE  UNCHANGED Fifo!vars
<1>1. \A s \in Streams : Queue(s)' = Queue(s)
  BY SameQueue
<1> QED
  BY <1>1, FifoStutter DEF Queues

LEMMA StoreRefines ==
    ASSUME FifoInv, Store
    PROVE  UNCHANGED Fifo!vars
<1>1. ASSUME NEW s \in Streams PROVE Queue(s)' = Queue(s)
  BY StoreKeepsQueue DEF Queue, Backlog, WaitingSlot
<1>2. number' = number
  BY DEF Store, histVars
<1>3. Queues' = Queues
  BY <1>1 DEF Queues
<1> QED
  BY <1>2, <1>3, FifoStutter

(* The ring begins as an empty queue.                                        *)
LEMMA InitRefines == Init => Fifo!Init
<1> SUFFICES ASSUME Init PROVE Fifo!Init
  OBVIOUS
<1>1. ASSUME NEW s \in Streams PROVE Queue(s) = <<>>
  <2>1. Backlog(s) = 0
    BY SlotZero, BacklogValue DEF Init, Backlog
  <2> QED
    BY <2>1, EmptyQueue
<1>2. Queues = [s \in Streams |-> <<>>]
  BY <1>1 DEF Queues
<1> QED
  BY <1>2 DEF Init, Fifo!Init, Queues, Queue

(* Every step of the ring is one of the queue, or none.                      *)
LEMMA NextRefines ==
    ASSUME FifoInv, [Next]_vars
    PROVE  Fifo!Next \/ UNCHANGED Fifo!vars
<1> USE DEF streamVars, daemonVars, readerVars, hwVars, histVars
<1>1. CASE UNCHANGED <<wp, rp, chunk, number>>
  BY <1>1, StutterRefines
<1>2. CASE Store
  BY <1>2, StoreRefines
<1>3. ASSUME NEW x \in Streams, OpenReset(x)
      PROVE  Fifo!Next \/ UNCHANGED Fifo!vars
  BY <1>3, OpenRefines
<1>4. ASSUME NEW x \in Streams, NEW r \in Readers, Advance(x, r)
      PROVE  Fifo!Next \/ UNCHANGED Fifo!vars
  BY <1>4, AdvanceRefines
<1>5. CASE PublishOrWait \/ PublishOrDrop
  <2>1. cur \in Streams
    BY <1>5 DEF FifoInv, RingInv, TypeInv, PublishOrWait, PublishOrDrop
  <2>2. CASE ~ Full(cur) /\ Publish(cur)
    BY <2>1, <2>2, PublishRefines
  <2> QED
    BY <1>1, <1>5, <2>2 DEF PublishOrWait, PublishOrDrop
<1>6. CASE \/ UNCHANGED vars \/ MicroPacketError \/ Timeout
           \/ Truncate \/ TruncateStore \/ CheckFilled \/ ClearFilled
           \/ IncLoad \/ IncStore
  BY <1>1, <1>6
  DEF vars, MicroPacketError, Timeout, Truncate, TruncateStore, CheckFilled,
      ClearFilled, IncLoad, IncStore
<1>7. ASSUME NEW x \in Streams, OpenBegin(x) \/ Close(x) \/ Discard(x) \/ Fetch(x)
      PROVE  Fifo!Next \/ UNCHANGED Fifo!vars
  BY <1>1, <1>7 DEF OpenBegin, Close, Discard, Fetch
<1>8. ASSUME NEW x \in Streams, NEW r \in Readers,
             ReadCall(x, r) \/ ReaderStep(x, r), ~ Advance(x, r)
      PROVE  Fifo!Next \/ UNCHANGED Fifo!vars
  BY <1>1, <1>8
  DEF ReaderStep, ReadCall, EnterOrWait, Woken, CopyRest, CopyDone, CopyFault,
      Loop, ClearUsed
<1> QED
  BY <1>2, <1>3, <1>4, <1>5, <1>6, <1>7, <1>8 DEF Next, DaemonStep, ReaderStep

(* With one reader to a stream, its ring is the queue ChunkFifo promises:    *)
(* chunks come out in the order in which they were finished, each once, no   *)
(* more than ChunkNum - 1 wait, and an open empties it.  Opening is the      *)
(* reset, putting is wp++ and releasing is rp++; nothing else the daemon or  *)
(* the reader does shows (ptx_proc.c:166-204, ptx_tuner.c:316-446).          *)
THEOREM ChunkFifoIsImplemented ==
    ASSUME OneReader
    PROVE  Spec => ImplementsChunkFifo
<1>1. FifoInv /\ [Next]_vars => [Fifo!Next]_(Fifo!vars)
  BY NextRefines
<1> QED
  BY <1>1, InitRefines, FifoInvAlways, PTL DEF Spec, Fifo!Spec, ImplementsChunkFifo

=============================================================================
