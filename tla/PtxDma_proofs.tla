--------------------------- MODULE PtxDma_proofs ---------------------------
(***************************************************************************)
(* Proofs about PtxDma, for a board that does not write while the driver   *)
(* resets it.                                                              *)
(*                                                                         *)
(* That no page is overwritten follows from where the flags are: the rings *)
(* the board has taken a credit for are the Used ones from ring_pos on; in *)
(* them every page is flagged but those the board has yet to fill, in the  *)
(* last one, and those the daemon has emptied, in the first.               *)
(***************************************************************************)
EXTENDS PtxDma, Functions, FiniteSetTheorems, TLAPS

(* The board does not write between the start of reset_dma and the moment    *)
(* the daemon leaves the page in hand.                                       *)
QuietBoard == BusyDuring = {}

(* How many rings after the daemon's one r comes. *)
Ahead(r) == IF r >= ring_pos THEN r - ring_pos ELSE r - ring_pos + Rings

(* Rings the board has taken a credit for and not got it back. *)
Used == Rings - credits

(* Pages of the daemon's ring that it has emptied. *)
Emptied == IF dpc \in {"read", "clear"} THEN data_pos - 1 ELSE data_pos

(* Where the board is. *)
BoardInv ==
    /\ hdata = 0 => Ahead(hring) = IF Used = Rings THEN 0 ELSE Used
    /\ hdata # 0 => Ahead(hring) = Used - 1

(* The daemon is not in front of the board. *)
DaemonInv ==
    /\ data_pos # 0 => Used >= 1
    /\ data_pos # 0 /\ Used = 1 /\ hdata # 0 => data_pos <= hdata

(* Which pages hold data. *)
Holds(r, p) ==
    /\ Ahead(r) < Used
    /\ hdata # 0 /\ Ahead(r) = Used - 1 => p < hdata
    /\ r = ring_pos => p >= Emptied

FlagInv == \A r \in RingIdx, p \in PageIdx : flag[r][p] <=> Holds(r, p)

(* Between resets.  The page in hand is the one before data_pos. *)
RunInv ==
    /\ BoardInv /\ DaemonInv /\ FlagInv
    /\ dpc \in {"read", "clear"} => data_pos # 0 /\ page = <<ring_pos, data_pos - 1>>

(* During a reset. *)
NoFlags == \A r \in RingIdx, p \in PageIdx : ~ flag[r][p]

ResetInv ==
    /\ page = NoPage => ring_pos = 0 /\ data_pos = 0
    /\ dpc = "resetFlags" =>
         \A r \in RingIdx, p \in PageIdx :
             r < rpos \/ (r = rpos /\ p < dpos) => ~ flag[r][p]
    /\ dpc # "resetFlags" => NoFlags /\ dpos = 0
    /\ dpc = "resetCounter" => rpos = 0
    /\ dpc = "resetCredits" => credits = rpos
    /\ dpc = "restart" => credits = Rings /\ rpos = 0

(* After it, until the page in hand is left. *)
LateInv ==
    /\ NoFlags
    /\ credits = Rings
    /\ hring = 0 /\ hdata = 0 /\ ring_pos = 0 /\ data_pos = 0
    /\ page # NoPage

DmaInv ==
    /\ TypeOK
    /\ dpc \notin Resetting \cup {"lateClear"} => RunInv
    /\ dpc \in Resetting => ResetInv
    /\ dpc = "lateClear" => LateInv
    /\ dpc \notin Resetting => rpos = 0 /\ dpos = 0

-----------------------------------------------------------------------------
(* Distances round the rings.                                                *)

(* Ahead is a number below Rings. *)
LEMMA AheadRange ==
    ASSUME TypeOK, NEW r \in RingIdx
    PROVE  Ahead(r) \in 0 .. Rings - 1
BY PtxDmaAssumption DEF TypeOK, Ahead, RingIdx

(* No two rings are equally far ahead. *)
LEMMA AheadInjective ==
    ASSUME TypeOK, NEW r \in RingIdx, NEW s \in RingIdx, Ahead(r) = Ahead(s)
    PROVE  r = s
BY PtxDmaAssumption, SMTT(30) DEF TypeOK, Ahead, RingIdx

(* The next table is one further ahead, or the daemon's own. *)
LEMMA AheadNextTable ==
    ASSUME TypeOK, NEW r \in RingIdx
    PROVE  /\ NextTable(r) \in RingIdx
           /\ Ahead(NextTable(r)) =
                IF Ahead(r) = Rings - 1 THEN 0 ELSE Ahead(r) + 1
BY PtxDmaAssumption DEF TypeOK, Ahead, RingIdx, NextTable

(* Only the daemon's own ring is not ahead. *)
LEMMA AheadZero ==
    ASSUME TypeOK, NEW r \in RingIdx
    PROVE  Ahead(r) = 0 <=> r = ring_pos
BY PtxDmaAssumption DEF TypeOK, Ahead, RingIdx

-----------------------------------------------------------------------------
(* The invariant.                                                            *)

(* There is a number for a filling. *)
LEMMA SomeNumber == Numbers \in Nat \ {0}
<1>1. \A m, n \in Nat : m * n \in Nat
  OBVIOUS
<1> QED
  BY <1>1, PtxDmaAssumption

(* The invariant holds at first.                                             *)
LEMMA DmaInit == Init => DmaInv
<1> SUFFICES ASSUME Init PROVE DmaInv
  OBVIOUS
<1>1. 0 \in RingIdx /\ 0 \in PageIdx /\ 0 \in 0 .. Numbers - 1
  BY PtxDmaAssumption, SomeNumber DEF RingIdx, PageIdx
<1>2. TypeOK
  <2>1. flag \in [RingIdx -> [PageIdx -> BOOLEAN]]
    BY DEF Init
  <2>2. content \in [RingIdx -> [PageIdx -> 0 .. Numbers - 1]]
    BY <1>1 DEF Init
  <2>3. dpc \in DaemonPCs /\ dpc \notin {"poll", "pause", "exited"}
    BY DEF Init, DaemonPCs, Resetting
  <2>4. running \in BOOLEAN /\ procrun \in BOOLEAN
    BY DEF Init
  <2>5. /\ hring \in RingIdx /\ hdata \in PageIdx
        /\ credits \in 0 .. Rings
        /\ written \in 0 .. Numbers - 1 /\ expected \in 0 .. Numbers - 1
        /\ ring_pos \in RingIdx /\ data_pos \in 0 .. Pages
        /\ rpos \in RingIdx /\ dpos \in PageIdx /\ errs \in 0 .. MaxErrors
    BY <1>1, PtxDmaAssumption DEF Init
  <2>6. page \in (RingIdx \X PageIdx) \cup {NoPage}
    BY DEF Init
  <2> QED
    BY <2>1, <2>2, <2>3, <2>4, <2>5, <2>6 DEF TypeOK
<1>3. ResetInv
  BY <1>1 DEF Init, ResetInv, RingIdx, PageIdx
<1> QED
  BY <1>2, <1>3 DEF Init, DmaInv, Resetting

(* Nothing the invariant talks about changes. *)
LEMMA DmaStutter == ASSUME DmaInv, UNCHANGED vars PROVE DmaInv'
BY DEF DmaInv, TypeOK, RunInv, BoardInv, DaemonInv, FlagInv, Holds, Ahead, Used,
       Emptied, ResetInv, LateInv, NoFlags, vars, pageVars, boardVars,
       daemonVars, loopVars

LEMMA DmaStop == ASSUME DmaInv, Stop PROVE DmaInv'
<1>1. TypeOK'
  BY DEF DmaInv, TypeOK, Stop, pageVars, boardVars, daemonVars, loopVars
<1>2. RunInv' = RunInv /\ ResetInv' = ResetInv /\ LateInv' = LateInv
  BY DEF Stop, RunInv, BoardInv, DaemonInv, FlagInv, Holds, Ahead, Used, Emptied,
         ResetInv, LateInv, NoFlags, pageVars, boardVars, daemonVars, loopVars
<1> QED
  BY <1>1, <1>2 DEF DmaInv, Stop, daemonVars, loopVars

(* The board fills its page: that page, and no other, becomes one that holds *)
(* data.                                                                     *)
LEMMA DmaFill == ASSUME DmaInv, QuietBoard, Fill PROVE DmaInv'
<1>1. dpc \notin Resetting \cup {"lateClear"}
  BY DEF Fill, CanFill, Window, QuietBoard
<1>2. TypeOK /\ RunInv /\ rpos = 0 /\ dpos = 0
  BY <1>1 DEF DmaInv
<1>3. /\ hring \in RingIdx /\ hdata \in PageIdx
      /\ credits \in 0 .. Rings /\ ring_pos \in RingIdx
      /\ hdata = 0 => credits > 0
  BY <1>2 DEF TypeOK, Fill, CanFill
<1>4. TypeOK'
  <2>1. flag' \in [RingIdx -> [PageIdx -> BOOLEAN]]
    BY <1>2, <1>3 DEF Fill, TypeOK
  <2>2. content' \in [RingIdx -> [PageIdx -> 0 .. Numbers - 1]]
    BY <1>2, <1>3 DEF Fill, TypeOK
  <2>3. hring' \in RingIdx
    BY <1>2, <1>3, AheadNextTable DEF Fill
  <2>4. hdata' \in PageIdx
    BY <1>3, PtxDmaAssumption DEF Fill, PageIdx
  <2>5. written' \in 0 .. Numbers - 1
    BY <1>2, SomeNumber DEF Fill, TypeOK
  <2>6. credits' \in 0 .. Rings
    BY <1>3, PtxDmaAssumption DEF Fill
  <2> QED
    BY <1>2, <2>1, <2>2, <2>3, <2>4, <2>5, <2>6
    DEF Fill, TypeOK, daemonVars, loopVars
<1>5. \A r \in RingIdx : /\ Ahead(r)' = Ahead(r)
                         /\ Ahead(r) \in 0 .. Rings - 1
                         /\ Ahead(r) = 0 <=> r = ring_pos
  BY <1>2, AheadRange, AheadZero DEF Fill, daemonVars, Ahead
<1>6. /\ hdata' = IF hdata + 1 = Pages THEN 0 ELSE hdata + 1
      /\ Used' = IF hdata = 0 THEN Used + 1 ELSE Used
      /\ Used \in 0 .. Rings
      /\ hdata = 0 => Used < Rings
      /\ Emptied' = Emptied /\ ring_pos' = ring_pos
  <2>1. hdata' = IF hdata + 1 = Pages THEN 0 ELSE hdata + 1
    <3>1. hdata' = (hdata + 1) % Pages
      BY DEF Fill
    <3> QED
      BY <3>1, <1>3, PtxDmaAssumption DEF PageIdx
  <2>2. credits' = IF hdata = 0 THEN credits - 1 ELSE credits
    BY DEF Fill
  <2>3. Emptied' = Emptied /\ ring_pos' = ring_pos
    BY DEF Fill, Emptied, daemonVars
  <2> QED
    BY <2>1, <2>2, <2>3, <1>3, PtxDmaAssumption DEF Used
<1>7. Ahead(hring) = Used' - 1
  BY <1>2, <1>3, <1>6, PtxDmaAssumption DEF RunInv, BoardInv, Used
<1>8. BoardInv'
  <2>1. CASE hdata + 1 = Pages
    <3>1. /\ hring' = NextTable(hring) /\ hdata' = 0
          /\ Ahead(hring)' = Ahead(NextTable(hring))
      BY <2>1, <1>3, <1>5, <1>6, <1>2, AheadNextTable DEF Fill, daemonVars, Ahead
    <3>2. Ahead(NextTable(hring)) = IF Used' = Rings THEN 0 ELSE Used'
      BY <1>2, <1>3, <1>6, <1>7, AheadNextTable, PtxDmaAssumption
    <3> QED
      BY <3>1, <3>2 DEF BoardInv, Ahead
  <2>2. CASE hdata + 1 # Pages
    <3>1. hring' = hring /\ hdata' # 0
      BY <2>2, <1>3, <1>6 DEF Fill, PageIdx
    <3> QED
      BY <3>1, <1>3, <1>5, <1>7 DEF BoardInv
  <2> QED
    BY <2>1, <2>2
<1>9. DaemonInv'
  BY <1>2, <1>3, <1>6, PtxDmaAssumption
  DEF RunInv, DaemonInv, Fill, daemonVars, PageIdx, TypeOK
<1>10. FlagInv'
  <2> SUFFICES ASSUME NEW r \in RingIdx, NEW p \in PageIdx
               PROVE  flag'[r][p] <=> Holds(r, p)'
    BY DEF FlagInv
  <2>1. CASE r = hring /\ p = hdata
    <3>1. flag'[r][p]
      BY <2>1, <1>2 DEF Fill, TypeOK
    <3>2. r = ring_pos => p >= Emptied
      BY <2>1, <1>2, <1>3, <1>5, <1>6, <1>7
      DEF RunInv, DaemonInv, Emptied, TypeOK, PageIdx
    <3> QED
      BY <2>1, <3>1, <3>2, <1>3, <1>5, <1>6, <1>7
      DEF Holds, Fill, daemonVars, PageIdx
  <2>2. CASE ~ (r = hring /\ p = hdata)
    <3>1. flag'[r][p] = flag[r][p]
      BY <2>2, <1>2 DEF Fill, TypeOK
    <3>2. flag[r][p] <=> Holds(r, p)
      BY <1>2 DEF RunInv, FlagInv
    <3>3. Ahead(r) = Ahead(hring) => r = hring
      BY <1>2, <1>3, AheadInjective
    <3>4. Holds(r, p)' <=> Holds(r, p)
      <4>1. CASE hdata = 0
        BY <4>1, <2>2, <3>3, <1>3, <1>5, <1>6, <1>7, PtxDmaAssumption
        DEF Holds, PageIdx
      <4>2. CASE hdata # 0
        BY <4>2, <2>2, <3>3, <1>3, <1>5, <1>6, <1>7, PtxDmaAssumption
        DEF Holds, PageIdx
      <4> QED
        BY <4>1, <4>2
    <3> QED
      BY <3>1, <3>2, <3>4
  <2> QED
    BY <2>1, <2>2
<1> QED
  BY <1>1, <1>2, <1>4, <1>8, <1>9, <1>10
  DEF DmaInv, RunInv, Fill, daemonVars, loopVars

(* A step that leaves board, pages and position alone, between resets. *)
LEMMA RingKept ==
    ASSUME UNCHANGED <<pageVars, boardVars, ring_pos, data_pos>>,
           Emptied' = Emptied
    PROVE  (BoardInv /\ DaemonInv /\ FlagInv) = (BoardInv /\ DaemonInv /\ FlagInv)'
BY DEF BoardInv, DaemonInv, FlagInv, Holds, Ahead, Used, pageVars, boardVars

LEMMA DmaPoll == ASSUME DmaInv, Poll PROVE DmaInv'
<1>1. TypeOK /\ RunInv /\ rpos = 0 /\ dpos = 0
  BY DEF DmaInv, Poll, Resetting
<1>2. data_pos \in PageIdx /\ ring_pos \in RingIdx
  BY <1>1, PtxDmaAssumption DEF TypeOK, Poll, PageIdx
<1>3. CASE UNCHANGED <<data_pos, page>> /\ dpc' \in {"exited", "pause"}
  <2>1. TypeOK'
    BY <1>1, <1>2, <1>3, PtxDmaAssumption
    DEF Poll, TypeOK, DaemonPCs, pageVars, boardVars, loopVars, PageIdx
  <2>2. Emptied' = Emptied
    BY <1>3 DEF Poll, Emptied
  <2> QED
    BY <1>1, <1>3, <2>1, <2>2, RingKept
    DEF Poll, DmaInv, RunInv, Resetting, loopVars, pageVars, boardVars
<1>4. CASE /\ flag[ring_pos][data_pos]
           /\ data_pos' = data_pos + 1
           /\ page' = <<ring_pos, data_pos>>
           /\ dpc' = "read"
  <2>1. TypeOK'
    <3>1. page' \in (RingIdx \X PageIdx) \cup {NoPage}
      BY <1>2, <1>4
    <3>2. data_pos' \in 0 .. Pages
      BY <1>2, <1>4, PtxDmaAssumption DEF PageIdx
    <3>3. dpc' \in DaemonPCs /\ dpc' \notin {"poll", "pause", "exited"}
      BY <1>4 DEF DaemonPCs
    <3> QED
      BY <1>1, <3>1, <3>2, <3>3
      DEF Poll, TypeOK, pageVars, boardVars, loopVars
  <2>2. Holds(ring_pos, data_pos) /\ Ahead(ring_pos) = 0
    BY <1>1, <1>2, <1>4, AheadZero DEF RunInv, FlagInv
  <2>3. Emptied = data_pos /\ Emptied' = data_pos
    BY <1>2, <1>4 DEF Poll, Emptied, PageIdx
  <2>4. UNCHANGED <<pageVars, boardVars, ring_pos, loopVars>>
    BY DEF Poll
  <2>5. BoardInv'
    BY <1>1, <2>4 DEF RunInv, BoardInv, Ahead, Used, boardVars
  <2>6. DaemonInv'
    BY <1>1, <1>2, <1>4, <2>2, <2>4, PtxDmaAssumption
    DEF DaemonInv, Holds, Used, boardVars, TypeOK, PageIdx
  <2>7. FlagInv'
    BY <1>1, <2>3, <2>4 DEF RunInv, FlagInv, Holds, Ahead, Used, boardVars, pageVars
  <2>8. data_pos' # 0 /\ page' = <<ring_pos', data_pos' - 1>>
    BY <1>2, <1>4, <2>4 DEF PageIdx
  <2> QED
    BY <1>1, <1>4, <2>1, <2>4, <2>5, <2>6, <2>7, <2>8
    DEF DmaInv, RunInv, Resetting, loopVars
<1> QED
  BY <1>3, <1>4 DEF Poll

LEMMA DmaWake == ASSUME DmaInv, Wake PROVE DmaInv'
<1>1. TypeOK /\ RunInv /\ rpos = 0 /\ dpos = 0
  BY DEF DmaInv, Wake, Resetting
<1>2. TypeOK'
  BY <1>1 DEF Wake, TypeOK, DaemonPCs, pageVars, boardVars, loopVars
<1>3. Emptied' = Emptied
  BY DEF Wake, Emptied
<1> QED
  BY <1>1, <1>2, <1>3, RingKept DEF Wake, DmaInv, RunInv, Resetting, loopVars

LEMMA DmaReadPage == ASSUME DmaInv, ReadPage PROVE DmaInv'
<1>1. TypeOK /\ RunInv /\ rpos = 0 /\ dpos = 0
  BY DEF DmaInv, ReadPage, Resetting
<1>2. expected' \in 0 .. Numbers - 1
  BY <1>1, SomeNumber DEF ReadPage, TypeOK
<1>3. TypeOK'
  BY <1>1, <1>2 DEF ReadPage, TypeOK, DaemonPCs, pageVars, boardVars, loopVars
<1>4. Emptied' = Emptied
  BY DEF ReadPage, Emptied
<1> QED
  BY <1>1, <1>3, <1>4, RingKept DEF ReadPage, DmaInv, RunInv, Resetting, loopVars

LEMMA DmaReadError == ASSUME DmaInv, ReadError PROVE DmaInv'
<1>1. TypeOK /\ RunInv /\ rpos = 0 /\ dpos = 0
  BY DEF DmaInv, ReadError, Resetting
<1>2. errs' \in 0 .. MaxErrors
  BY <1>1, PtxDmaAssumption DEF ReadError, TypeOK
<1>3. TypeOK'
  BY <1>1, <1>2
  DEF ReadError, TypeOK, DaemonPCs, Resetting, pageVars, boardVars, loopVars
<1>4. page # NoPage
  BY <1>1, PtxDmaAssumption DEF RunInv, ReadError, TypeOK, NoPage, RingIdx
<1>5. ResetInv'
  BY <1>1, <1>4 DEF ReadError, ResetInv, loopVars, RingIdx, PageIdx, pageVars, NoPage
<1> QED
  BY <1>3, <1>5 DEF ReadError, DmaInv, Resetting

(* The page in hand is the first of the daemon's ring that was not emptied;  *)
(* after a reset no page is flagged anyway.                                  *)
LEMMA DmaClear == ASSUME DmaInv, Clear PROVE DmaInv'
<1>1. TypeOK /\ rpos = 0 /\ dpos = 0 /\ UNCHANGED loopVars
  BY DEF DmaInv, Clear, Resetting
<1>2. /\ flag' \in [RingIdx -> [PageIdx -> BOOLEAN]]
      /\ page # NoPage =>
           \A r \in RingIdx, p \in PageIdx :
             flag'[r][p] <=> flag[r][p] /\ page # <<r, p>>
  <2>1. CASE page = NoPage
    BY <1>1, <2>1 DEF Clear, TypeOK
  <2>2. CASE page # NoPage
    <3>0. page \in RingIdx \X PageIdx
      BY <2>2, <1>1 DEF TypeOK
    <3>1. PICK a \in RingIdx, b \in PageIdx : page = <<a, b>>
      BY <3>0
    <3>2. flag' = [flag EXCEPT ![a][b] = FALSE]
      BY <3>1 DEF Clear
    <3> QED
      BY <1>1, <3>1, <3>2 DEF TypeOK
  <2> QED
    BY <2>1, <2>2
<1>3. TypeOK'
  BY <1>1, <1>2 DEF Clear, TypeOK, DaemonPCs, boardVars, loopVars
<1>4. CASE dpc = "clear"
  <2>1. RunInv
    BY <1>4 DEF DmaInv, Resetting
  <2>2. /\ data_pos # 0 /\ page = <<ring_pos, data_pos - 1>>
        /\ ring_pos \in RingIdx /\ data_pos \in 0 .. Pages
        /\ Emptied = data_pos - 1 /\ Emptied' = data_pos
    BY <1>1, <1>4, <2>1 DEF RunInv, TypeOK, Clear, Emptied
  <2>3. data_pos - 1 \in PageIdx
    BY <2>2, PtxDmaAssumption DEF PageIdx
  <2>4. page # NoPage
    BY <2>2, PtxDmaAssumption DEF NoPage, RingIdx
  <2>5. FlagInv'
    <3> SUFFICES ASSUME NEW r \in RingIdx, NEW p \in PageIdx
                 PROVE  flag'[r][p] <=> Holds(r, p)'
      BY DEF FlagInv
    <3>1. flag'[r][p] <=> Holds(r, p) /\ ~ (r = ring_pos /\ p = data_pos - 1)
      <4>1. page = <<r, p>> <=> r = ring_pos /\ p = data_pos - 1
        BY <2>2
      <4>2. flag'[r][p] <=> flag[r][p] /\ page # <<r, p>>
        BY <1>2, <2>4
      <4>3. flag[r][p] <=> Holds(r, p)
        BY <2>1 DEF RunInv, FlagInv
      <4> QED
        BY <4>1, <4>2, <4>3
    <3>2. Holds(r, p)' <=> Holds(r, p) /\ ~ (r = ring_pos /\ p = data_pos - 1)
      BY <2>2 DEF Holds, Clear, Ahead, Used, boardVars, PageIdx
    <3> QED
      BY <3>1, <3>2
  <2>6. BoardInv' /\ DaemonInv'
    BY <2>1 DEF RunInv, BoardInv, DaemonInv, Clear, Ahead, Used, boardVars
  <2> QED
    BY <1>1, <1>3, <2>5, <2>6 DEF DmaInv, RunInv, Clear, Resetting, loopVars
<1>5. CASE dpc = "lateClear"
  <2>1. LateInv
    BY <1>5 DEF DmaInv
  <2>2. Used = 0 /\ Used' = 0 /\ Emptied' = 0
    BY <1>5, <2>1, PtxDmaAssumption DEF LateInv, Used, Clear, Emptied, boardVars
  <2>3. \A r \in RingIdx : Ahead(r)' \in 0 .. Rings - 1
    BY <1>3, <1>1, AheadRange DEF Ahead, Clear
  <2>4. FlagInv'
    BY <1>2, <2>1, <2>2, <2>3 DEF FlagInv, Holds, LateInv, NoFlags
  <2>5. BoardInv' /\ DaemonInv'
    BY <2>1, <2>2, PtxDmaAssumption
    DEF LateInv, BoardInv, DaemonInv, Ahead, Clear, boardVars
  <2> QED
    BY <1>1, <1>3, <2>4, <2>5 DEF DmaInv, RunInv, Clear, Resetting, loopVars
<1> QED
  BY <1>4, <1>5 DEF Clear

(* At the end of a ring the daemon gives a credit and goes on to the next    *)
(* one: every ring is one less ahead, and its own, emptied, is the farthest. *)
LEMMA DmaAdvance == ASSUME DmaInv, Advance PROVE DmaInv'
<1>1. TypeOK /\ RunInv /\ rpos = 0 /\ dpos = 0 /\ Emptied = data_pos
  BY DEF DmaInv, Advance, Resetting, Emptied
<1>2. /\ ring_pos \in RingIdx /\ data_pos \in 0 .. Pages
      /\ credits \in 0 .. Rings /\ hring \in RingIdx /\ hdata \in PageIdx
  BY <1>1 DEF TypeOK
<1>3. CASE data_pos < Pages
  <2>1. UNCHANGED <<data_pos, credits, ring_pos>> /\ Emptied' = Emptied
    BY <1>2, <1>3, PtxDmaAssumption DEF Advance, Emptied
  <2>2. TypeOK'
    BY <1>1, <1>3, <2>1, PtxDmaAssumption
    DEF Advance, TypeOK, DaemonPCs, pageVars, loopVars
  <2>3. BoardInv' /\ DaemonInv' /\ FlagInv'
    BY <1>1, <2>1, RingKept DEF RunInv, Advance, boardVars
  <2> QED
    BY <1>1, <2>2, <2>3 DEF DmaInv, RunInv, Advance, Resetting, loopVars
<1>4. CASE data_pos = Pages
  <2>1. /\ data_pos' = 0 /\ credits' = credits + 1
        /\ ring_pos' = IF ring_pos + 1 >= Rings THEN 0 ELSE ring_pos + 1
        /\ UNCHANGED <<flag, hring, hdata>>
    BY <1>4, PtxDmaAssumption DEF Advance, pageVars
  <2>2. /\ Used \in 1 .. Rings /\ Used' = Used - 1 /\ Emptied' = 0
        /\ Used = 1 => hdata = 0
    BY <1>1, <1>2, <1>4, <2>1, PtxDmaAssumption
    DEF RunInv, DaemonInv, Used, PageIdx, Advance, Emptied
  <2>3. ring_pos' \in RingIdx /\ credits' \in 0 .. Rings
    BY <1>2, <2>1, <2>2, PtxDmaAssumption DEF RingIdx, Used
  <2>4. TypeOK'
    BY <1>1, <2>1, <2>3, PtxDmaAssumption
    DEF Advance, TypeOK, DaemonPCs, pageVars, loopVars
  <2>5. \A r \in RingIdx :
          /\ Ahead(r) \in 0 .. Rings - 1
          /\ Ahead(r)' = IF Ahead(r) = 0 THEN Rings - 1 ELSE Ahead(r) - 1
          /\ r = ring_pos <=> Ahead(r) = 0
          /\ r = ring_pos' <=> Ahead(r)' = 0
    BY <1>2, <2>1, PtxDmaAssumption DEF Ahead, RingIdx
  <2>6. BoardInv'
    BY <1>1, <1>2, <2>1, <2>2, <2>5, PtxDmaAssumption DEF RunInv, BoardInv
  <2>7. DaemonInv'
    BY <2>1 DEF DaemonInv
  <2>8. FlagInv'
    <3> SUFFICES ASSUME NEW r \in RingIdx, NEW p \in PageIdx
                 PROVE  flag[r][p] <=> Holds(r, p)'
      BY <2>1 DEF FlagInv
    <3>1. flag[r][p] <=> Holds(r, p)
      BY <1>1 DEF RunInv, FlagInv
    <3>2. p \in Nat /\ p < Pages
      BY PtxDmaAssumption DEF PageIdx
    <3>3. CASE Ahead(r) = 0
      BY <1>1, <1>4, <2>2, <2>5, <3>1, <3>2, <3>3, PtxDmaAssumption DEF Holds
    <3>4. CASE Ahead(r) # 0
      BY <2>1, <2>2, <2>5, <3>1, <3>2, <3>4, PtxDmaAssumption DEF Holds
    <3> QED
      BY <3>3, <3>4
  <2> QED
    BY <1>1, <2>4, <2>6, <2>7, <2>8
    DEF DmaInv, RunInv, Advance, Resetting, loopVars
<1> QED
  BY <1>2, <1>3, <1>4, PtxDmaAssumption

-----------------------------------------------------------------------------
(* The reset.                                                                *)

LEMMA DmaResetFlags == ASSUME DmaInv, ResetFlags PROVE DmaInv'
<1>1. TypeOK /\ ResetInv
  BY DEF DmaInv, ResetFlags, Resetting
<1>2. /\ rpos \in RingIdx /\ dpos \in PageIdx
      /\ flag \in [RingIdx -> [PageIdx -> BOOLEAN]]
      /\ dpc = "resetFlags"
  BY <1>1 DEF TypeOK, ResetFlags
<1>3. /\ flag' \in [RingIdx -> [PageIdx -> BOOLEAN]]
      /\ \A r \in RingIdx, p \in PageIdx :
           flag'[r][p] <=> flag[r][p] /\ ~ (r = rpos /\ p = dpos)
  BY <1>2 DEF ResetFlags
<1>4. \A r \in RingIdx, p \in PageIdx :
        r < rpos \/ (r = rpos /\ p <= dpos) => ~ flag'[r][p]
  BY <1>1, <1>2, <1>3 DEF ResetInv, RingIdx, PageIdx
<1>5. rpos' \in RingIdx /\ dpos' \in PageIdx
  BY <1>2, PtxDmaAssumption DEF ResetFlags, RingIdx, PageIdx
<1>6. dpc' \in {"resetFlags", "resetCounter"}
  BY <1>2 DEF ResetFlags
<1>7. TypeOK'
  BY <1>1, <1>3, <1>5, <1>6
  DEF ResetFlags, TypeOK, DaemonPCs, Resetting, boardVars
<1>8. ResetInv'
  <2>1. CASE dpc' = "resetCounter"
    <3>1. rpos + 1 = Rings /\ dpos + 1 = Pages
      BY <1>2, <2>1 DEF ResetFlags
    <3>2. NoFlags'
      BY <1>2, <1>4, <3>1, PtxDmaAssumption DEF NoFlags, RingIdx, PageIdx
    <3>3. rpos' = 0 /\ dpos' = 0
      BY <1>2, <3>1, PtxDmaAssumption DEF ResetFlags, RingIdx, PageIdx
    <3> QED
      BY <1>1, <2>1, <3>2, <3>3 DEF ResetInv, ResetFlags
  <2>2. CASE dpc' = "resetFlags"
    <3> SUFFICES ASSUME NEW r \in RingIdx, NEW p \in PageIdx,
                        r < rpos' \/ (r = rpos' /\ p < dpos')
                 PROVE  ~ flag'[r][p]
      BY <1>1, <2>2 DEF ResetInv, ResetFlags
    <3>1. r < rpos \/ (r = rpos /\ p <= dpos)
      BY <1>2, <2>2, PtxDmaAssumption DEF ResetFlags, RingIdx, PageIdx
    <3> QED
      BY <1>4, <3>1
  <2> QED
    BY <1>6, <2>1, <2>2
<1> QED
  BY <1>6, <1>7, <1>8 DEF DmaInv, Resetting

LEMMA DmaResetCounter == ASSUME DmaInv, ResetCounter PROVE DmaInv'
<1>1. TypeOK /\ ResetInv
  BY DEF DmaInv, ResetCounter, Resetting
<1>2. TypeOK'
  BY <1>1, PtxDmaAssumption
  DEF ResetCounter, TypeOK, DaemonPCs, Resetting, pageVars, loopVars
<1>3. ResetInv'
  BY <1>1 DEF ResetCounter, ResetInv, NoFlags, pageVars, loopVars
<1> QED
  BY <1>2, <1>3 DEF ResetCounter, DmaInv, Resetting

LEMMA DmaResetCredits == ASSUME DmaInv, ResetCredits PROVE DmaInv'
<1>1. TypeOK /\ ResetInv /\ rpos \in RingIdx /\ credits = rpos
  BY DEF DmaInv, ResetCredits, Resetting, ResetInv, TypeOK
<1>2. /\ credits' \in 0 .. Rings /\ rpos' \in RingIdx
      /\ dpc' = "restart" => credits' = Rings /\ rpos' = 0
      /\ dpc' = "resetCredits" => credits' = rpos'
      /\ dpc' \in {"resetCredits", "restart"}
  BY <1>1, PtxDmaAssumption DEF ResetCredits, RingIdx
<1>3. TypeOK'
  BY <1>1, <1>2 DEF ResetCredits, TypeOK, DaemonPCs, Resetting, pageVars
<1>4. ResetInv'
  BY <1>1, <1>2 DEF ResetCredits, ResetInv, NoFlags, pageVars
<1> QED
  BY <1>2, <1>3, <1>4 DEF DmaInv, Resetting

(* Board and daemon are at the first page of the first ring, and no page     *)
(* holds data.                                                               *)
LEMMA DmaRestart == ASSUME DmaInv, Restart PROVE DmaInv'
<1>1. TypeOK /\ ResetInv /\ NoFlags
  BY DEF DmaInv, Restart, Resetting, ResetInv
<1>2. /\ hring' = 0 /\ hdata' = 0 /\ ring_pos' = 0 /\ data_pos' = 0
      /\ credits' = Rings /\ rpos' = 0 /\ dpos' = 0 /\ page' = page
      /\ running' = TRUE
      /\ dpc' = IF page = NoPage THEN "poll" ELSE "lateClear"
  BY <1>1 DEF Restart, ResetInv, loopVars
<1>3. 0 \in RingIdx /\ 0 \in PageIdx /\ 0 # Pages
  BY PtxDmaAssumption DEF RingIdx, PageIdx
<1>4. TypeOK'
  <2>1. dpc' \in DaemonPCs
    BY <1>2 DEF DaemonPCs
  <2>2. running' \in BOOLEAN
    BY <1>2
  <2>3. /\ credits' \in 0 .. Rings /\ data_pos' \in 0 .. Pages
        /\ hring' \in RingIdx /\ hdata' \in PageIdx /\ ring_pos' \in RingIdx
        /\ rpos' \in RingIdx /\ dpos' \in PageIdx /\ data_pos' # Pages
    BY <1>2, <1>3, PtxDmaAssumption
  <2>4. expected' \in 0 .. Numbers - 1
    BY <1>1 DEF TypeOK, Restart
  <2> QED
    BY <1>1, <2>1, <2>2, <2>3, <2>4 DEF Restart, TypeOK, pageVars
<1>5. NoFlags'
  BY <1>1 DEF NoFlags, Restart, pageVars
<1>6. CASE page = NoPage
  <2>1. Used' = 0 /\ Emptied' = 0
    BY <1>2, <1>6, PtxDmaAssumption DEF Used, Emptied
  <2>2. \A r \in RingIdx : Ahead(r)' = r
    BY <1>2, PtxDmaAssumption DEF Ahead, RingIdx
  <2>3. FlagInv'
    BY <1>5, <2>1, <2>2 DEF FlagInv, Holds, NoFlags, RingIdx
  <2>4. BoardInv' /\ DaemonInv'
    BY <1>2, <1>3, <2>1, <2>2, PtxDmaAssumption DEF BoardInv, DaemonInv
  <2> QED
    BY <1>2, <1>4, <1>6, <2>3, <2>4 DEF DmaInv, RunInv, Resetting
<1>7. CASE page # NoPage
  BY <1>2, <1>4, <1>5, <1>7 DEF DmaInv, LateInv, Resetting
<1> QED
  BY <1>6, <1>7

-----------------------------------------------------------------------------
(* Theorems.                                                                 *)

(* Every step keeps it.                                                      *)
LEMMA DmaStep == ASSUME QuietBoard, DmaInv, [Next]_vars PROVE DmaInv'
BY DmaFill, DmaStop, DmaStutter, DmaPoll, DmaWake, DmaReadPage, DmaReadError,
   DmaClear, DmaAdvance, DmaResetFlags, DmaResetCounter, DmaResetCredits,
   DmaRestart DEF Next, Daemon

(* The invariant of the page ring holds in every state, if the board is      *)
(* quiet during a reset (ptx_daemon, reset_dma).                             *)
THEOREM DmaInvariant == QuietBoard => (Spec => []DmaInv)
<1> SUFFICES ASSUME QuietBoard PROVE Spec => []DmaInv
  OBVIOUS
<1>1. Init => DmaInv
  BY DmaInit
<1>2. DmaInv /\ [Next]_vars => DmaInv'
  BY DmaStep
<1> QED
  BY <1>1, <1>2, PTL DEF Spec

(* The variables keep their types; above all the board never has more        *)
(* credits than there are rings (reset_dma, ptx_daemon).                     *)
THEOREM DmaTypeCorrect == QuietBoard => (Spec => []TypeOK)
<1> SUFFICES ASSUME QuietBoard PROVE Spec => []TypeOK
  OBVIOUS
<1>1. DmaInv => TypeOK
  BY DEF DmaInv
<1> QED
  BY <1>1, DmaInvariant, PTL

LEMMA NoOverwrite ==
    ASSUME QuietBoard, DmaInv, CanFill
    PROVE  ~ flag[hring][hdata]
<1>1. TypeOK /\ RunInv
  BY DEF DmaInv, CanFill, Window, QuietBoard
<1>2. hring \in RingIdx /\ hdata \in PageIdx /\ credits \in 0 .. Rings
  BY <1>1 DEF TypeOK
<1>3. hdata = 0 => Ahead(hring) = Used
  BY <1>1, <1>2, PtxDmaAssumption DEF RunInv, BoardInv, CanFill, Used
<1>4. Ahead(hring) \in 0 .. Rings - 1
  BY <1>1, <1>2, AheadRange
<1>5. ~ Holds(hring, hdata)
  BY <1>1, <1>2, <1>3, <1>4, PtxDmaAssumption
  DEF RunInv, BoardInv, Holds, PageIdx, Used
<1> QED
  BY <1>1, <1>2, <1>5 DEF RunInv, FlagInv

(* The board, which looks at credits only, never fills a page whose data the *)
(* daemon has not handled yet, for any number of rings and pages.            *)
THEOREM NoPageIsEverOverwritten == QuietBoard => (Spec => []NoPageIsOverwritten)
<1> SUFFICES ASSUME QuietBoard PROVE Spec => []NoPageIsOverwritten
  OBVIOUS
<1>1. DmaInv => NoPageIsOverwritten
  BY NoOverwrite DEF NoPageIsOverwritten
<1> QED
  BY <1>1, DmaInvariant, PTL

(* The k-th ring after the daemon's. *)
RingAt(k) == IF ring_pos + k < Rings THEN ring_pos + k ELSE ring_pos + k - Rings

(* There are as many rings within a distance as the distance says. *)
LEMMA RingsWithin ==
    ASSUME TypeOK, NEW n \in 0 .. Rings
    PROVE  Cardinality({r \in RingIdx : Ahead(r) < n}) = n
<1> DEFINE f == [k \in 0 .. n - 1 |-> RingAt(k)]
           S == {r \in RingIdx : Ahead(r) < n}
<1>1. ring_pos \in RingIdx
  BY DEF TypeOK
<1>2. ASSUME NEW k \in 0 .. n - 1
      PROVE  RingAt(k) \in RingIdx /\ Ahead(RingAt(k)) = k
  BY <1>1, PtxDmaAssumption DEF RingAt, Ahead, RingIdx
<1>3. ASSUME NEW r \in S PROVE Ahead(r) \in 0 .. n - 1 /\ RingAt(Ahead(r)) = r
  BY <1>1, PtxDmaAssumption DEF RingAt, Ahead, RingIdx
<1>4. f \in [0 .. n - 1 -> S]
  BY <1>2
<1>5. f \in Bijection(0 .. n - 1, S)
  <2>1. \A j, k \in 0 .. n - 1 : f[j] = f[k] => j = k
    BY <1>2
  <2>2. \A r \in S : \E k \in 0 .. n - 1 : f[k] = r
    BY <1>3
  <2> QED
    BY <1>4, <2>1, <2>2 DEF Bijection, Injection, Surjection, IsInjective
<1>6. IsFiniteSet(0 .. n - 1) /\ Cardinality(0 .. n - 1) = n
  BY PtxDmaAssumption, FS_Interval
<1>7. Cardinality(S) = Cardinality(0 .. n - 1)
  BY <1>5, <1>6, FS_Bijection DEF ExistsBijection
<1> QED
  BY <1>6, <1>7

(* Credits are conserved: the rings in use are those the board has taken a   *)
(* credit for and the daemon has not given back (ptx_proc.c:80, 226-230).    *)
THEOREM CreditsAreAlwaysConserved == QuietBoard => (Spec => []CreditsAreConserved)
<1> SUFFICES ASSUME QuietBoard PROVE Spec => []CreditsAreConserved
  OBVIOUS
<1>1. DmaInv => CreditsAreConserved
  <2> SUFFICES ASSUME DmaInv, dpc \in {"poll", "pause", "read", "clear"}
               PROVE  credits + Cardinality(InUse) = Rings
    BY DEF CreditsAreConserved
  <2>1. TypeOK /\ RunInv
    BY DEF DmaInv, Resetting
  <2>2. /\ hring \in RingIdx /\ hdata \in PageIdx
        /\ credits \in 0 .. Rings /\ ring_pos \in RingIdx
        /\ data_pos \in 0 .. Pages /\ Used \in 0 .. Rings
        /\ 0 \in PageIdx
    BY <2>1, PtxDmaAssumption DEF TypeOK, Used, PageIdx
  <2>3. ASSUME NEW r \in RingIdx PROVE r \in InUse <=> Ahead(r) < Used
    <3>1. Ahead(r) \in 0 .. Rings - 1 /\ (r = ring_pos <=> Ahead(r) = 0)
      BY <2>1, AheadRange, AheadZero
    <3>2. r = hring /\ hdata # 0 => Ahead(r) < Used
      BY <2>1, <2>2 DEF RunInv, BoardInv
    <3>3. r = ring_pos /\ data_pos # 0 => Ahead(r) < Used
      BY <2>1, <2>2, <3>1 DEF RunInv, DaemonInv
    <3>4. (\E p \in PageIdx : flag[r][p]) => Ahead(r) < Used
      BY <2>1 DEF RunInv, FlagInv, Holds
    <3>5. ASSUME Ahead(r) < Used,
                 ~ (r = hring /\ hdata # 0), ~ (r = ring_pos /\ data_pos # 0)
          PROVE  flag[r][0]
      <4>1. hdata # 0 /\ Ahead(r) = Used - 1 => r = hring
        BY <2>1, <2>2, AheadInjective DEF RunInv, BoardInv
      <4>2. r = ring_pos => Emptied = 0
        BY <2>1, <2>2, <3>5 DEF RunInv, Emptied
      <4>3. Holds(r, 0)
        BY <2>2, <3>5, <4>1, <4>2 DEF Holds
      <4> QED
        BY <2>1, <2>2, <4>3 DEF RunInv, FlagInv
    <3> QED
      BY <2>2, <3>2, <3>3, <3>4, <3>5 DEF InUse
  <2>4. InUse = {r \in RingIdx : Ahead(r) < Used}
    BY <2>3 DEF InUse
  <2>5. Cardinality(InUse) = Used
    BY <2>1, <2>2, <2>4, RingsWithin
  <2> QED
    BY <2>2, <2>5, PtxDmaAssumption DEF Used
<1> QED
  BY <1>1, DmaInvariant, PTL

-----------------------------------------------------------------------------
(* The order of the pages.                                                   *)

(* The page after page p of ring r. *)
NextR(r, p) == IF p + 1 < Pages THEN r ELSE NextTable(r)
NextP(p)    == IF p + 1 < Pages THEN p + 1 ELSE 0

(* The page whose turn it is: the one in hand until it is read, then the one *)
(* after it.                                                                 *)
PosR == IF dpc # "read" /\ data_pos = Pages THEN NextTable(ring_pos) ELSE ring_pos
PosP == IF dpc = "read" THEN data_pos - 1
        ELSE IF data_pos = Pages THEN 0 ELSE data_pos

AtBoard(r, p) == r = hring /\ p = hdata

(* Pages are numbered in the order of the rings, up to the board's page,     *)
(* which gets the next number.                                               *)
ChainInv ==
    \A r \in RingIdx, p \in PageIdx :
        flag[r][p] =>
            (content[r][p] + 1) % Numbers =
                IF AtBoard(NextR(r, p), NextP(p)) THEN written
                ELSE content[NextR(r, p)][NextP(p)]

(* The daemon expects the number of the page whose turn it is, if it has     *)
(* one.  Until the page in hand is cleared a flag cannot tell that.          *)
TurnInv ==
    /\ dpc \in {"poll", "pause", "read", "advance"} =>
         expected = IF flag[PosR][PosP] THEN content[PosR][PosP] ELSE written
    /\ dpc = "clear" =>
         expected = IF AtBoard(PosR, PosP) THEN written ELSE content[PosR][PosP]
    /\ dpc = "lateClear" => expected = written

LEMMA NextTypes ==
    ASSUME NEW r \in RingIdx, NEW p \in PageIdx
    PROVE  NextR(r, p) \in RingIdx /\ NextP(p) \in PageIdx
BY PtxDmaAssumption DEF NextR, NextP, NextTable, RingIdx, PageIdx

LEMMA NextUnique ==
    ASSUME NEW r \in RingIdx, NEW p \in PageIdx, NEW s \in RingIdx, NEW q \in PageIdx,
           NextR(r, p) = NextR(s, q), NextP(p) = NextP(q)
    PROVE  r = s /\ p = q
BY PtxDmaAssumption DEF NextR, NextP, NextTable, RingIdx, PageIdx

LEMMA TurnTypes ==
    ASSUME DmaInv, dpc \notin Resetting
    PROVE  PosR \in RingIdx /\ PosP \in PageIdx
<1>1. /\ ring_pos \in RingIdx /\ data_pos \in 0 .. Pages
      /\ dpc = "read" => data_pos # 0
  BY DEF DmaInv, TypeOK, RunInv, Resetting
<1> QED
  BY <1>1, PtxDmaAssumption DEF PosR, PosP, NextTable, RingIdx, PageIdx

(* The page in hand is flagged. *)
LEMMA HeldPage ==
    ASSUME DmaInv, dpc \in {"read", "clear"}
    PROVE  /\ data_pos - 1 \in PageIdx /\ ring_pos \in RingIdx
           /\ page = <<ring_pos, data_pos - 1>>
           /\ flag[ring_pos][data_pos - 1]
<1>1. /\ TypeOK /\ RunInv /\ ring_pos \in RingIdx /\ data_pos \in 1 .. Pages
      /\ hdata \in PageIdx /\ credits \in 0 .. Rings
      /\ page = <<ring_pos, data_pos - 1>>
  BY PtxDmaAssumption DEF DmaInv, TypeOK, RunInv, Resetting
<1>2. data_pos - 1 \in PageIdx /\ Ahead(ring_pos) = 0
  BY <1>1, PtxDmaAssumption, AheadZero DEF PageIdx
<1>3. Used \in 0 .. Rings
  BY <1>1, PtxDmaAssumption DEF Used
<1>4. Holds(ring_pos, data_pos - 1)
  BY <1>1, <1>2, <1>3, PtxDmaAssumption DEF RunInv, DaemonInv, Holds, Emptied, PageIdx
<1> QED
  BY <1>1, <1>2, <1>4 DEF RunInv, FlagInv

(* If the page whose turn it is holds no data, the board fills it next. *)
LEMMA EmptyTurn ==
    ASSUME DmaInv, dpc \in {"poll", "pause", "advance"}, ~ flag[PosR][PosP]
    PROVE  AtBoard(PosR, PosP)
<1>1. /\ TypeOK /\ RunInv /\ ring_pos \in RingIdx /\ data_pos \in 0 .. Pages
      /\ hring \in RingIdx /\ hdata \in PageIdx /\ credits \in 0 .. Rings
      /\ Emptied = data_pos
  BY DEF DmaInv, TypeOK, Resetting, Emptied
<1>2. Used \in 0 .. Rings
  BY <1>1, PtxDmaAssumption DEF Used
<1>3. PosR \in RingIdx /\ PosP \in PageIdx
  BY TurnTypes DEF Resetting
<1>4. ~ Holds(PosR, PosP)
  BY <1>1, <1>3 DEF RunInv, FlagInv
<1>5. /\ \A r \in RingIdx : Ahead(r) \in 0 .. Rings - 1 /\ (Ahead(r) = 0 <=> r = ring_pos)
      /\ \A r, s \in RingIdx : Ahead(r) = Ahead(s) => r = s
      /\ Ahead(NextTable(ring_pos)) = IF Rings = 1 THEN 0 ELSE 1
  BY <1>1, AheadRange, AheadZero, AheadInjective, AheadNextTable, PtxDmaAssumption
<1>6. CASE data_pos # Pages
  <2>1. PosR = ring_pos /\ PosP = data_pos /\ Ahead(ring_pos) = 0
    BY <1>1, <1>5, <1>6 DEF PosR, PosP
  <2>2. CASE Used = 0
    BY <1>1, <1>5, <2>1, <2>2, PtxDmaAssumption
    DEF RunInv, BoardInv, DaemonInv, AtBoard
  <2>3. CASE Used # 0
    <3>1. hdata # 0 /\ Used = 1 /\ data_pos >= hdata
      BY <1>1, <1>2, <1>4, <2>1, <2>3, PtxDmaAssumption DEF Holds, PageIdx
    <3>2. Ahead(hring) = 0 /\ data_pos = hdata
      BY <1>1, <3>1, PtxDmaAssumption DEF RunInv, BoardInv, DaemonInv, PageIdx
    <3> QED
      BY <1>1, <1>5, <2>1, <3>2 DEF AtBoard
  <2> QED
    BY <2>2, <2>3
<1>7. CASE data_pos = Pages
  <2>1. PosR = NextTable(ring_pos) /\ PosP = 0 /\ data_pos # 0
    BY <1>1, <1>7, PtxDmaAssumption DEF PosR, PosP
  <2>2. Used >= 1 /\ (Used = 1 => hdata = 0)
    BY <1>1, <1>7, <2>1, PtxDmaAssumption DEF RunInv, DaemonInv, PageIdx
  <2>3. Used = 1
    BY <1>1, <1>2, <1>4, <1>5, <2>1, <2>2, PtxDmaAssumption DEF Holds, PageIdx
  <2>4. Ahead(hring) = IF Rings = 1 THEN 0 ELSE 1
    BY <1>1, <2>2, <2>3, PtxDmaAssumption DEF RunInv, BoardInv
  <2> QED
    BY <1>1, <1>3, <1>5, <2>1, <2>2, <2>3, <2>4 DEF AtBoard
<1> QED
  BY <1>6, <1>7

EmptyTurnHolds ==
    DmaInv /\ dpc \in {"poll", "pause", "advance"} /\ ~ flag[PosR][PosP]
        => AtBoard(PosR, PosP)

(* The page whose turn it is, when empty, is the one the board fills next,   *)
(* also after the step.                                                      *)
LEMMA NextEmptyTurn == EmptyTurnHolds'
<1>1. EmptyTurnHolds
  BY EmptyTurn DEF EmptyTurnHolds
<1> QED
  BY <1>1, PTL

(* Once the page in hand is cleared, the board's page holds no data. *)
LEMMA EmptyBoardsPage ==
    ASSUME DmaInv, dpc = "clear", Clear, AtBoard(PosR, PosP)
    PROVE  ~ flag'[PosR][PosP]
<1>1. /\ TypeOK /\ RunInv /\ ring_pos \in RingIdx /\ data_pos \in 1 .. Pages
      /\ hring \in RingIdx /\ hdata \in PageIdx /\ credits \in 0 .. Rings
      /\ flag \in [RingIdx -> [PageIdx -> BOOLEAN]]
      /\ Emptied = data_pos - 1
  BY PtxDmaAssumption DEF DmaInv, TypeOK, RunInv, Resetting, Emptied
<1>2. PosR \in RingIdx /\ PosP \in PageIdx
  BY TurnTypes DEF Resetting
<1>3. flag' = [flag EXCEPT ![ring_pos][data_pos - 1] = FALSE] /\ data_pos - 1 \in PageIdx
  <2>1. page = <<ring_pos, data_pos - 1>> /\ data_pos - 1 \in PageIdx
    BY HeldPage
  <2>2. page[1] = ring_pos /\ page[2] = data_pos - 1
    BY <2>1
  <2> QED
    BY <2>1, <2>2, Zenon DEF Clear
<1>4. flag'[PosR][PosP] => flag[PosR][PosP]
  BY <1>1, <1>2, <1>3
<1>5. CASE PosR = ring_pos /\ PosP = data_pos - 1
  BY <1>1, <1>3, <1>5
<1>6. CASE ~ (PosR = ring_pos /\ PosP = data_pos - 1)
  <2>1. /\ Used \in 0 .. Rings /\ Ahead(ring_pos) = 0
        /\ Ahead(NextTable(ring_pos)) = IF Rings = 1 THEN 0 ELSE 1
        /\ \A r \in RingIdx : Ahead(r) = 0 <=> r = ring_pos
    BY <1>1, AheadZero, AheadNextTable, PtxDmaAssumption DEF Used
  <2>2. CASE data_pos # Pages
    <3>1. hring = ring_pos /\ hdata = data_pos /\ hdata # 0 /\ Ahead(hring) = 0
      BY <1>1, <2>1, <2>2 DEF AtBoard, PosR, PosP
    <3>2. ~ Holds(PosR, PosP)
      BY <1>1, <3>1 DEF RunInv, BoardInv, Holds, AtBoard
    <3> QED
      BY <1>1, <1>2, <1>4, <3>2 DEF RunInv, FlagInv
  <2>3. CASE data_pos = Pages
    <3>1. hring = NextTable(ring_pos) /\ hdata = 0
      BY <2>3 DEF AtBoard, PosR, PosP
    <3>2. CASE Rings # 1
      <4>1. Ahead(hring) = 1 /\ Used = 1
        BY <1>1, <2>1, <3>1, <3>2, PtxDmaAssumption DEF RunInv, BoardInv
      <4>2. ~ Holds(PosR, PosP)
        BY <4>1 DEF Holds, AtBoard
      <4> QED
        BY <1>1, <1>2, <1>4, <4>2 DEF RunInv, FlagInv
    <3>3. CASE Rings = 1
      <4>1. PosR = ring_pos /\ PosP = 0 /\ data_pos - 1 # 0
        BY <1>1, <1>2, <1>6, <2>1, <2>3, <3>1, <3>3 DEF AtBoard
      <4>2. ~ Holds(PosR, PosP)
        BY <1>1, <4>1 DEF Holds
      <4> QED
        BY <1>1, <1>2, <1>4, <4>2 DEF RunInv, FlagInv
    <3> QED
      BY <3>2, <3>3
  <2> QED
    BY <2>2, <2>3
<1> QED
  BY <1>5, <1>6

OrderInv == DmaInv /\ ChainInv /\ TurnInv

LEMMA OrderFill ==
    ASSUME QuietBoard, OrderInv, Fill
    PROVE  ChainInv' /\ TurnInv'
<1>1. /\ DmaInv /\ ChainInv /\ TurnInv /\ TypeOK
      /\ dpc \notin Resetting \cup {"lateClear"}
  BY DEF OrderInv, DmaInv, Fill, CanFill, Window, QuietBoard
<1>2. /\ hring \in RingIdx /\ hdata \in PageIdx /\ written \in 0 .. Numbers - 1
      /\ flag \in [RingIdx -> [PageIdx -> BOOLEAN]]
      /\ content \in [RingIdx -> [PageIdx -> 0 .. Numbers - 1]]
  BY <1>1 DEF TypeOK
<1>3. ~ flag[hring][hdata]
  BY <1>1, NoOverwrite DEF Fill
<1>4. /\ hring' = NextR(hring, hdata) /\ hdata' = NextP(hdata)
      /\ written' = (written + 1) % Numbers
      /\ UNCHANGED <<dpc, ring_pos, data_pos, expected>>
      /\ flag' = [flag EXCEPT ![hring][hdata] = TRUE]
      /\ content' = [content EXCEPT ![hring][hdata] = written]
  <2>1. hdata' = IF hdata + 1 = Pages THEN 0 ELSE hdata + 1
    <3>1. hdata' = (hdata + 1) % Pages
      BY DEF Fill
    <3>2. hdata \in 0 .. Pages - 1 /\ Pages \in Nat \ {0}
      BY <1>2, PtxDmaAssumption DEF PageIdx
    <3> QED
      BY ONLY <3>1, <3>2
  <2> QED
    BY <1>2, <2>1, PtxDmaAssumption DEF Fill, NextR, NextP, PageIdx, daemonVars
<1>5. \A r \in RingIdx, p \in PageIdx :
        /\ flag'[r][p] = (flag[r][p] \/ AtBoard(r, p))
        /\ content'[r][p] = IF AtBoard(r, p) THEN written ELSE content[r][p]
        /\ AtBoard(r, p)' <=> (r = NextR(hring, hdata) /\ p = NextP(hdata))
  BY <1>2, <1>4 DEF AtBoard
<1>6. ChainInv'
  <2> SUFFICES ASSUME NEW r \in RingIdx, NEW p \in PageIdx, flag'[r][p]
               PROVE  (content'[r][p] + 1) % Numbers =
                        IF AtBoard(NextR(r, p), NextP(p))' THEN written'
                        ELSE content'[NextR(r, p)][NextP(p)]
    BY DEF ChainInv
  <2>1. NextR(r, p) \in RingIdx /\ NextP(p) \in PageIdx
    BY NextTypes
  <2>2. CASE AtBoard(r, p)
    <3>1. content'[r][p] = written
      BY <1>5, <2>2
    <3>2. NextR(r, p) = NextR(hring, hdata) /\ NextP(p) = NextP(hdata)
      BY <2>2 DEF AtBoard
    <3>3. AtBoard(NextR(r, p), NextP(p))'
      BY <1>4, <3>2 DEF AtBoard, NextR, NextP, NextTable
    <3> QED
      BY <1>4, <3>1, <3>3
  <2>3. CASE ~ AtBoard(r, p)
    <3>1. flag[r][p] /\ content'[r][p] = content[r][p]
      BY <1>5, <2>3
    <3>2. ~ (NextR(r, p) = NextR(hring, hdata) /\ NextP(p) = NextP(hdata))
      BY <1>2, <2>3, NextUnique DEF AtBoard
    <3>3. (content[r][p] + 1) % Numbers =
            IF AtBoard(NextR(r, p), NextP(p)) THEN written
            ELSE content[NextR(r, p)][NextP(p)]
      BY <1>1, <3>1 DEF ChainInv
    <3> QED
      BY <1>5, <2>1, <3>1, <3>2, <3>3
  <2> QED
    BY <2>2, <2>3
<1>7. TurnInv'
  <2>1. PosR \in RingIdx /\ PosP \in PageIdx
    BY <1>1, TurnTypes
  <2>2. PosR' = PosR /\ PosP' = PosP
    BY <1>4 DEF PosR, PosP
  <2>3. CASE dpc \in {"poll", "pause", "advance", "read"}
    <3>1. expected = IF flag[PosR][PosP] THEN content[PosR][PosP] ELSE written
      BY <1>1, <2>3 DEF TurnInv
    <3>2. CASE flag[PosR][PosP]
      <4>1. ~ AtBoard(PosR, PosP)
        BY <1>3, <3>2 DEF AtBoard
      <4>2. flag'[PosR][PosP] /\ content'[PosR][PosP] = content[PosR][PosP]
        BY <1>5, <2>1, <3>2, <4>1
      <4> QED
        BY <1>4, <2>2, <2>3, <3>1, <3>2, <4>2 DEF TurnInv
    <3>3. CASE ~ flag[PosR][PosP]
      <4>1. AtBoard(PosR, PosP)
        <5>1. CASE dpc = "read"
          <6>1. PosR = ring_pos /\ PosP = data_pos - 1
            BY <5>1 DEF PosR, PosP
          <6> QED
            BY <1>1, <3>3, <5>1, <6>1, HeldPage
        <5> QED
          BY <1>1, <2>3, <3>3, <5>1, EmptyTurn
      <4> QED
        BY <1>4, <1>5, <2>1, <2>2, <2>3, <3>1, <3>3, <4>1 DEF TurnInv
    <3> QED
      BY <3>2, <3>3
  <2>4. CASE dpc = "clear"
    <3>1. expected = IF AtBoard(PosR, PosP) THEN written ELSE content[PosR][PosP]
      BY <1>1, <2>4 DEF TurnInv
    <3>2. ring_pos \in RingIdx /\ data_pos - 1 \in PageIdx /\ flag[ring_pos][data_pos - 1]
      BY <1>1, <2>4, HeldPage
    <3>3. PosR = NextR(ring_pos, data_pos - 1) /\ PosP = NextP(data_pos - 1)
      BY <2>4, <3>2, PtxDmaAssumption, <1>1 DEF PosR, PosP, NextR, NextP, PageIdx, TypeOK
    <3>4. ~ (PosR = NextR(hring, hdata) /\ PosP = NextP(hdata))
      BY <1>2, <1>3, <3>2, <3>3, NextUnique
    <3>5. expected' = content'[PosR][PosP] /\ ~ AtBoard(PosR, PosP)'
      <4>1. ~ (PosR = hring' /\ PosP = hdata')
        BY <1>4, <3>4
      <4>2. content'[PosR][PosP] = IF AtBoard(PosR, PosP) THEN written ELSE content[PosR][PosP]
        BY <1>5, <2>1
      <4> QED
        BY <1>4, <2>2, <3>1, <4>1, <4>2 DEF AtBoard
    <3> QED
      BY <1>4, <2>2, <2>4, <3>5 DEF TurnInv
  <2> QED
    BY <1>1, <1>4, <2>3, <2>4 DEF TypeOK, DaemonPCs, TurnInv, Resetting
<1> QED
  BY <1>6, <1>7

(* The board and the contents stay; flags are only cleared. *)
LEMMA ChainKept ==
    ASSUME ChainInv, UNCHANGED <<content, hring, hdata, written>>,
           \A r \in RingIdx, p \in PageIdx : flag'[r][p] => flag[r][p]
    PROVE  ChainInv'
BY DEF ChainInv, AtBoard

LEMMA OrderReset ==
    ASSUME OrderInv, ResetFlags \/ ResetCounter \/ ResetCredits \/ Restart
    PROVE  ChainInv' /\ TurnInv'
<1>1. DmaInv /\ TypeOK /\ ChainInv /\ ResetInv /\ dpc \in Resetting
  BY DEF OrderInv, DmaInv, Resetting, ResetFlags, ResetCounter, ResetCredits, Restart
<1>2. CASE ResetFlags
  <2>1. \A r \in RingIdx, p \in PageIdx : flag'[r][p] => flag[r][p]
    BY <1>1, <1>2 DEF TypeOK, ResetFlags
  <2>2. dpc' \in {"resetFlags", "resetCounter"}
    BY <1>2 DEF ResetFlags
  <2> QED
    BY <1>1, <1>2, <2>1, <2>2, ChainKept DEF ResetFlags, TurnInv, boardVars
<1>3. CASE ResetCounter \/ ResetCredits
  <2>1. dpc' \in {"resetCredits", "restart"}
    BY <1>3 DEF ResetCounter, ResetCredits
  <2>2. ChainInv'
    BY <1>1, <1>3, ChainKept DEF ResetCounter, ResetCredits, pageVars
  <2> QED
    BY <2>1, <2>2 DEF TurnInv
<1>4. CASE Restart
  <2>1. /\ \A r \in RingIdx, p \in PageIdx : ~ flag'[r][p]
        /\ expected' = written' /\ dpc' \in {"poll", "lateClear"}
    BY <1>1, <1>4 DEF Restart, ResetInv, NoFlags, pageVars
  <2>2. ChainInv'
    BY <2>1 DEF ChainInv
  <2>3. CASE dpc' = "poll"
    <3>1. ring_pos' = 0 /\ data_pos' = 0
      BY <1>1, <1>4, <2>3 DEF Restart, ResetInv
    <3>2. PosR' = 0 /\ PosP' = 0
      BY <2>3, <3>1, PtxDmaAssumption DEF PosR, PosP
    <3>3. 0 \in RingIdx /\ 0 \in PageIdx
      BY PtxDmaAssumption DEF RingIdx, PageIdx
    <3> QED
      BY <2>1, <2>2, <2>3, <3>2, <3>3 DEF TurnInv
  <2> QED
    BY <2>1, <2>2, <2>3 DEF TurnInv
<1> QED
  BY <1>2, <1>3, <1>4

LEMMA OrderClear ==
    ASSUME OrderInv, Clear, DmaInv'
    PROVE  ChainInv' /\ TurnInv'
<1>1. /\ DmaInv /\ TypeOK /\ ChainInv /\ TurnInv
      /\ dpc' = "advance" /\ dpc \in {"clear", "lateClear"}
      /\ UNCHANGED <<content, hring, hdata, written, ring_pos, data_pos, expected>>
  BY DEF OrderInv, DmaInv, Clear, boardVars
<1>2. \A r \in RingIdx, p \in PageIdx : flag'[r][p] => flag[r][p]
  <2>1. flag' = [flag EXCEPT ![page[1]][page[2]] = FALSE]
    BY DEF Clear
  <2> QED
    BY <1>1, <2>1 DEF TypeOK
<1>3. ChainInv'
  BY <1>1, <1>2, ChainKept
<1>4. PosR' = PosR /\ PosP' = PosP /\ PosR \in RingIdx /\ PosP \in PageIdx
  <2>1. PosR' = PosR /\ PosP' = PosP
    BY <1>1 DEF PosR, PosP
  <2>2. dpc \notin Resetting
    BY <1>1 DEF Resetting
  <2> QED
    BY <1>1, <2>1, <2>2, TurnTypes
<1>5. CASE dpc = "clear"
  <2>1. expected = IF AtBoard(PosR, PosP) THEN written ELSE content[PosR][PosP]
    BY <1>1, <1>5 DEF TurnInv
  <2>2. AtBoard(PosR, PosP) => ~ flag'[PosR][PosP]
    BY <1>1, <1>5, EmptyBoardsPage
  <2>3. ~ flag'[PosR][PosP] => AtBoard(PosR, PosP)
    <3>1. ~ flag'[PosR'][PosP'] => AtBoard(PosR, PosP)'
      BY <1>1, NextEmptyTurn DEF EmptyTurnHolds
    <3> QED
      BY <1>1, <1>4, <3>1 DEF AtBoard
  <2> QED
    BY <1>1, <1>3, <1>4, <2>1, <2>2, <2>3 DEF TurnInv
<1>6. CASE dpc = "lateClear"
  <2>1. ~ flag'[PosR][PosP]
    BY <1>1, <1>2, <1>4, <1>6 DEF DmaInv, LateInv, NoFlags
  <2> QED
    BY <1>1, <1>3, <1>4, <1>6, <2>1 DEF TurnInv
<1> QED
  BY <1>1, <1>5, <1>6

LEMMA OrderRead ==
    ASSUME OrderInv, ReadPage
    PROVE  ChainInv' /\ TurnInv'
<1>1. /\ DmaInv /\ TypeOK /\ ChainInv /\ TurnInv /\ dpc = "read" /\ dpc' = "clear"
      /\ UNCHANGED <<flag, content, hring, hdata, written, ring_pos, data_pos>>
      /\ expected' = (expected + 1) % Numbers
  BY DEF OrderInv, DmaInv, ReadPage, pageVars, boardVars
<1>2. ChainInv'
  BY <1>1, ChainKept
<1>3. ring_pos \in RingIdx /\ data_pos - 1 \in PageIdx /\ flag[ring_pos][data_pos - 1]
  BY <1>1, HeldPage
<1>4. PosR = ring_pos /\ PosP = data_pos - 1
  BY <1>1 DEF PosR, PosP
<1>5. PosR' = NextR(ring_pos, data_pos - 1) /\ PosP' = NextP(data_pos - 1)
  BY <1>1, <1>3, PtxDmaAssumption DEF PosR, PosP, NextR, NextP, PageIdx, TypeOK
<1>6. expected = content[ring_pos][data_pos - 1]
  BY <1>1, <1>3, <1>4 DEF TurnInv
<1>7. expected' = IF AtBoard(NextR(ring_pos, data_pos - 1), NextP(data_pos - 1)) THEN written
                  ELSE content[NextR(ring_pos, data_pos - 1)][NextP(data_pos - 1)]
  BY <1>1, <1>3, <1>6 DEF ChainInv
<1>8. AtBoard(PosR, PosP)' <=> AtBoard(NextR(ring_pos, data_pos - 1), NextP(data_pos - 1))
  BY <1>1, <1>5 DEF AtBoard
<1> QED
  BY <1>1, <1>2, <1>5, <1>7, <1>8 DEF TurnInv

(* The rest of the daemon's loop; the page whose turn it is stays the same. *)
LEMMA OrderLoop ==
    ASSUME OrderInv, Poll \/ Wake \/ ReadError \/ Advance \/ Stop \/ UNCHANGED vars
    PROVE  ChainInv' /\ TurnInv'
<1>1. /\ DmaInv /\ TypeOK /\ ChainInv /\ TurnInv
      /\ UNCHANGED <<flag, content, hring, hdata, written, expected>>
  BY DEF OrderInv, DmaInv, Poll, Wake, ReadError, Advance, Stop, vars, pageVars, boardVars
<1>2. ChainInv'
  BY <1>1, ChainKept
<1>3. CASE UNCHANGED <<dpc, ring_pos, data_pos>>
  BY <1>1, <1>2, <1>3 DEF TurnInv, PosR, PosP, AtBoard
<1>4. CASE Poll \/ Wake \/ Advance
  <2>1. /\ dpc \in {"poll", "pause", "advance"}
        /\ dpc' \in {"poll", "pause", "read", "exited"}
        /\ dpc \in {"poll", "pause"} => data_pos # Pages
        /\ ring_pos \in RingIdx /\ data_pos \in 0 .. Pages
    BY <1>1, <1>4 DEF Poll, Wake, Advance, TypeOK
  <2>2. PosR' = PosR /\ PosP' = PosP
    <3>1. CASE Poll
      BY <2>1, <3>1, PtxDmaAssumption DEF Poll, PosR, PosP
    <3>2. CASE Wake
      BY <3>2, PtxDmaAssumption DEF Wake, PosR, PosP
    <3>3. CASE Advance
      <4>1. CASE data_pos = Pages
        <5>1. ring_pos' = NextTable(ring_pos) /\ data_pos' = 0
          BY <2>1, <3>3, <4>1, PtxDmaAssumption DEF Advance, NextTable, RingIdx
        <5> QED
          BY <3>3, <4>1, <5>1, PtxDmaAssumption DEF Advance, PosR, PosP
      <4>2. CASE data_pos # Pages
        <5>1. ring_pos' = ring_pos /\ data_pos' = data_pos
          BY <2>1, <3>3, <4>2, PtxDmaAssumption DEF Advance
        <5> QED
          BY <3>3, <4>2, <5>1 DEF Advance, PosR, PosP
      <4> QED
        BY <4>1, <4>2
    <3> QED
      BY <1>4, <3>1, <3>2, <3>3
  <2> QED
    BY <1>1, <1>2, <2>1, <2>2 DEF TurnInv
<1>5. CASE ReadError
  BY <1>2, <1>5 DEF ReadError, TurnInv
<1> QED
  BY <1>3, <1>4, <1>5 DEF Stop, vars, daemonVars

(* Every step keeps the order.                                               *)
LEMMA OrderStep == ASSUME QuietBoard, OrderInv, [Next]_vars PROVE OrderInv'
<1>1. DmaInv'
  BY DmaStep DEF OrderInv
<1> QED
  BY <1>1, OrderFill, OrderReset, OrderClear, OrderRead, OrderLoop
  DEF OrderInv, Next, Daemon

(* The page in the daemon's hands is the oldest one the board has filled     *)
(* since it was last started, for any number of rings, pages and errors:     *)
(* none is skipped, read twice or read early (ptx_proc.c:41-84, 211-240).    *)
THEOREM PagesAreAlwaysReadInOrder == QuietBoard => (Spec => []PagesAreReadInOrder)
<1> SUFFICES ASSUME QuietBoard PROVE Spec => []PagesAreReadInOrder
  OBVIOUS
<1>1. Init => OrderInv
  <2> SUFFICES ASSUME Init PROVE OrderInv
    OBVIOUS
  <2>1. DmaInv
    BY DmaInit
  <2>2. ChainInv /\ TurnInv
    BY DEF Init, ChainInv, TurnInv
  <2> QED
    BY <2>1, <2>2 DEF OrderInv
<1>2. OrderInv /\ [Next]_vars => OrderInv'
  BY OrderStep
<1>3. OrderInv => PagesAreReadInOrder
  <2> SUFFICES ASSUME OrderInv, dpc = "read"
               PROVE  content[page[1]][page[2]] = expected
    BY DEF PagesAreReadInOrder
  <2>1. page = <<ring_pos, data_pos - 1>> /\ flag[ring_pos][data_pos - 1]
    BY HeldPage DEF OrderInv
  <2>2. PosR = ring_pos /\ PosP = data_pos - 1
    BY DEF PosR, PosP
  <2>3. expected = content[ring_pos][data_pos - 1]
    BY <2>1, <2>2 DEF OrderInv, TurnInv
  <2>4. page[1] = ring_pos /\ page[2] = data_pos - 1
    BY <2>1
  <2> QED
    BY <2>3, <2>4
<1> QED
  BY <1>1, <1>2, <1>3, PTL DEF Spec

=============================================================================
