------------------------------- MODULE PtxDma -------------------------------
(***************************************************************************)
(* The DMA pages of a PT1/PT2 board and the daemon that empties them.      *)
(*                                                                         *)
(* The memory is Rings rings of Pages pages.  The board fills the pages in *)
(* the order of its address tables and sets the flag word of each; it      *)
(* begins a ring only with a credit.  The daemon polls the flag of the     *)
(* page at (ring_pos, data_pos), has read_dmabuf handle it, clears the     *)
(* flag and gives a credit back for each ring it has emptied.  When a      *)
(* micropacket carries the error bit, reset_dma starts the board afresh.   *)
(*                                                                         *)
(* What a page holds is PtxStream's business; here it is a number that     *)
(* says when the board filled it.  The board is external: Fill and what    *)
(* the register writes do to it are what the driver relies on.             *)
(***************************************************************************)
EXTENDS Naturals, FiniteSets

CONSTANTS
    Rings,          \* rings of pages               (DMA_VIRTUAL_COUNTXSIZE)
    Pages,          \* pages of a ring               (DMA_BUFFER_PAGE_COUNT)
    Numbers,        \* fillings are numbered 0 .. Numbers - 1, round and round
    BusyDuring,     \* windows of a reset in which the board may still write:
                    \* "reset", until the restart, and "late", from then on
                    \* until the daemon leaves the page with the error
    MaxErrors       \* bound: pages with an error bit

ASSUME PtxDmaAssumption ==
    /\ Rings \in Nat \ {0}
    /\ Pages \in Nat \ {0}
    /\ Numbers \in Nat /\ Numbers > Rings * Pages
    /\ BusyDuring \subseteq {"reset", "late"}
    /\ MaxErrors \in Nat

VARIABLES
    flag, content,              \* the pages: flag word set, filling's number
    running, hring, hdata,      \* the board: started, the page it fills next,
    credits, written,           \* the rings it may begin, the next number
    ring_pos, data_pos,         \* struct ptx_softc: the page polled next,
    procrun,                    \* may the daemon go on
    dpc, page, rpos, dpos,      \* the daemon: place, page in hand, loop indices
    errs, expected              \* history: errors, number the daemon must meet

pageVars   == <<flag, content>>
boardVars  == <<running, hring, hdata, credits, written>>
loopVars   == <<rpos, dpos>>
daemonVars == <<ring_pos, data_pos, dpc, page, loopVars>>
vars == <<pageVars, boardVars, daemonVars, procrun, errs, expected>>

RingIdx == 0 .. Rings - 1
PageIdx == 0 .. Pages - 1
NoPage  == <<Rings, Pages>>

(* ptx_dma_init: the first word of each address table names the next table,  *)
(* the last table the first one again.                                       *)
NextTable(r) == IF r < Rings - 1 THEN r + 1 ELSE 0

Resetting == {"resetFlags", "resetCounter", "resetCredits", "restart"}
DaemonPCs == Resetting \cup
             {"poll", "pause", "read", "clear", "lateClear", "advance", "exited"}

TypeOK ==
    /\ flag \in [RingIdx -> [PageIdx -> BOOLEAN]]
    /\ content \in [RingIdx -> [PageIdx -> 0 .. Numbers - 1]]
    /\ running \in BOOLEAN
    /\ hring \in RingIdx /\ hdata \in PageIdx
    /\ credits \in 0 .. Rings
    /\ written \in 0 .. Numbers - 1 /\ expected \in 0 .. Numbers - 1
    /\ ring_pos \in RingIdx /\ data_pos \in 0 .. Pages
    /\ data_pos = Pages => dpc \notin {"poll", "pause", "exited"}
    /\ procrun \in BOOLEAN
    /\ dpc \in DaemonPCs
    /\ page \in (RingIdx \X PageIdx) \cup {NoPage}
    /\ rpos \in RingIdx /\ dpos \in PageIdx
    /\ errs \in 0 .. MaxErrors

(* ptx_proc_start has made the thread, which begins with reset_dma, and has  *)
(* set procrun; the board has not been started.                              *)
Init ==
    /\ flag = [r \in RingIdx |-> [p \in PageIdx |-> FALSE]]
    /\ content = [r \in RingIdx |-> [p \in PageIdx |-> 0]]
    /\ running = FALSE
    /\ hring = 0 /\ hdata = 0 /\ credits = 0 /\ written = 0
    /\ ring_pos = 0 /\ data_pos = 0
    /\ procrun = TRUE
    /\ dpc = "resetFlags" /\ page = NoPage /\ rpos = 0 /\ dpos = 0
    /\ errs = 0 /\ expected = 0

-----------------------------------------------------------------------------
(* The board.                                                                *)

Window == IF dpc \in Resetting THEN "reset"
          ELSE IF dpc = "lateClear" THEN "late" ELSE "normal"

CanFill ==
    /\ running
    /\ hdata = 0 => credits > 0
    /\ Window \in BusyDuring \cup {"normal"}

(* The next page is filled and flagged; the first one of a ring takes a      *)
(* credit.  The board does not look at the flags.                            *)
Fill ==
    /\ CanFill
    /\ flag' = [flag EXCEPT ![hring][hdata] = TRUE]
    /\ content' = [content EXCEPT ![hring][hdata] = written]
    /\ written' = (written + 1) % Numbers
    /\ credits' = IF hdata = 0 THEN credits - 1 ELSE credits
    /\ hdata' = (hdata + 1) % Pages
    /\ hring' = IF hdata + 1 = Pages THEN NextTable(hring) ELSE hring
    /\ UNCHANGED <<running, daemonVars, procrun, errs, expected>>

-----------------------------------------------------------------------------
(* reset_dma.                                                                *)

(* Clear all flags, one after the other ... *)
ResetFlags ==
    /\ dpc = "resetFlags"
    /\ flag' = [flag EXCEPT ![rpos][dpos] = FALSE]
    /\ dpos' = IF dpos + 1 < Pages THEN dpos + 1 ELSE 0
    /\ rpos' = IF dpos + 1 < Pages THEN rpos
               ELSE IF rpos + 1 < Rings THEN rpos + 1 ELSE 0
    /\ dpc' = IF rpos + 1 = Rings /\ dpos + 1 = Pages
              THEN "resetCounter" ELSE dpc
    /\ UNCHANGED <<content, boardVars, ring_pos, data_pos, page, procrun,
                   errs, expected>>

(* Mutant: the credits left over stay. *)
ResetCounterNot ==
    /\ dpc = "resetCounter"
    /\ dpc' = "resetCredits"
    /\ UNCHANGED <<pageVars, boardVars, ring_pos, data_pos, page, loopVars,
                   procrun, errs, expected>>

(* ... take all credits ... *)
ResetCounter ==
    /\ dpc = "resetCounter"
    /\ credits' = 0
    /\ dpc' = "resetCredits"
    /\ UNCHANGED <<pageVars, running, hring, hdata, written, ring_pos,
                   data_pos, page, loopVars, procrun, errs, expected>>

(* ... give one per ring ... *)
ResetCredits ==
    /\ dpc = "resetCredits"
    /\ credits' = credits + 1
    /\ IF rpos + 1 = Rings
         THEN dpc' = "restart" /\ rpos' = 0
         ELSE dpc' = dpc /\ rpos' = rpos + 1
    /\ UNCHANGED <<pageVars, running, hring, hdata, written, ring_pos,
                   data_pos, page, dpos, procrun, errs, expected>>

(* Mutant: the daemon goes on where it was. *)
RestartBoardOnly ==
    /\ dpc = "restart"
    /\ running' = TRUE /\ hring' = 0 /\ hdata' = 0
    /\ expected' = written
    /\ dpc' = IF page = NoPage THEN "poll" ELSE "lateClear"
    /\ UNCHANGED <<pageVars, credits, written, ring_pos, data_pos, page,
                   loopVars, procrun, errs>>

(* ... and start the board at the first page.  read_dmabuf then sets the     *)
(* daemon's position to the first page, too, and leaves the page in hand.    *)
Restart ==
    /\ dpc = "restart"
    /\ running' = TRUE /\ hring' = 0 /\ hdata' = 0
    /\ expected' = written
    /\ IF page = NoPage
         THEN dpc' = "poll" /\ UNCHANGED <<ring_pos, data_pos>>
         ELSE dpc' = "lateClear" /\ ring_pos' = 0 /\ data_pos' = 0
    /\ UNCHANGED <<pageVars, credits, written, page, loopVars, procrun, errs>>

-----------------------------------------------------------------------------
(* ptx_daemon.                                                               *)

(* Mutant: procrun is looked at only when there is no data. *)
PollDataFirst ==
    /\ dpc = "poll"
    /\ \/ /\ ~ flag[ring_pos][data_pos]
          /\ dpc' = IF procrun THEN "pause" ELSE "exited"
          /\ UNCHANGED <<data_pos, page>>
       \/ /\ flag[ring_pos][data_pos]
          /\ data_pos' = data_pos + 1
          /\ page' = <<ring_pos, data_pos>>
          /\ dpc' = "read"
    /\ UNCHANGED <<pageVars, boardVars, ring_pos, loopVars, procrun, errs,
                   expected>>

(* Leave when told to; else look at the flag, and sleep if it is not set.    *)
(* data_pos moves on before the page is read.                                *)
Poll ==
    /\ dpc = "poll"
    /\ \/ /\ ~ procrun
          /\ dpc' = "exited" /\ UNCHANGED <<data_pos, page>>
       \/ /\ procrun /\ ~ flag[ring_pos][data_pos]
          /\ dpc' = "pause" /\ UNCHANGED <<data_pos, page>>
       \/ /\ procrun /\ flag[ring_pos][data_pos]
          /\ data_pos' = data_pos + 1
          /\ page' = <<ring_pos, data_pos>>
          /\ dpc' = "read"
    /\ UNCHANGED <<pageVars, boardVars, ring_pos, loopVars, procrun, errs,
                   expected>>

(* The millisecond is over. *)
Wake ==
    /\ dpc = "pause"
    /\ dpc' = "poll"
    /\ UNCHANGED <<pageVars, boardVars, ring_pos, data_pos, page, loopVars,
                   procrun, errs, expected>>

(* read_dmabuf handles every micropacket of the page ... *)
ReadPage ==
    /\ dpc = "read"
    /\ dpc' = "clear"
    /\ expected' = (expected + 1) % Numbers
    /\ UNCHANGED <<pageVars, boardVars, ring_pos, data_pos, page, loopVars,
                   procrun, errs>>

(* ... or meets the error bit. *)
ReadError ==
    /\ dpc = "read"
    /\ errs < MaxErrors
    /\ errs' = errs + 1
    /\ dpc' = "resetFlags"
    /\ UNCHANGED <<pageVars, boardVars, ring_pos, data_pos, page, loopVars,
                   procrun, expected>>

(* Mutant: the flag stays. *)
ClearNothing ==
    /\ dpc \in {"clear", "lateClear"}
    /\ dpc' = "advance"
    /\ UNCHANGED <<pageVars, boardVars, ring_pos, data_pos, page, loopVars,
                   procrun, errs, expected>>

(* The flag of the page in hand is cleared, also after a reset. *)
Clear ==
    /\ dpc \in {"clear", "lateClear"}
    /\ flag' = [flag EXCEPT ![page[1]][page[2]] = FALSE]
    /\ dpc' = "advance"
    /\ UNCHANGED <<content, boardVars, ring_pos, data_pos, page, loopVars,
                   procrun, errs, expected>>

(* Mutant: the wrap of ring_pos forgotten. *)
AdvanceNoWrap ==
    /\ dpc = "advance"
    /\ IF data_pos >= Pages
         THEN /\ data_pos' = 0
              /\ credits' = credits + 1
              /\ ring_pos' = ring_pos + 1
         ELSE UNCHANGED <<data_pos, credits, ring_pos>>
    /\ page' = NoPage
    /\ dpc' = "poll"
    /\ UNCHANGED <<pageVars, running, hring, hdata, written, loopVars, procrun,
                   errs, expected>>

(* Mutant: no credit for an emptied ring. *)
AdvanceNoCredit ==
    /\ dpc = "advance"
    /\ IF data_pos >= Pages
         THEN /\ data_pos' = 0
              /\ credits' = credits
              /\ ring_pos' = IF ring_pos + 1 >= Rings THEN 0 ELSE ring_pos + 1
         ELSE UNCHANGED <<data_pos, credits, ring_pos>>
    /\ page' = NoPage
    /\ dpc' = "poll"
    /\ UNCHANGED <<pageVars, running, hring, hdata, written, loopVars, procrun,
                   errs, expected>>

(* Mutant: a credit for each page instead of each ring. *)
AdvanceCreditPerPage ==
    /\ dpc = "advance"
    /\ credits' = credits + 1
    /\ IF data_pos >= Pages
         THEN /\ data_pos' = 0
              /\ ring_pos' = IF ring_pos + 1 >= Rings THEN 0 ELSE ring_pos + 1
         ELSE UNCHANGED <<data_pos, ring_pos>>
    /\ page' = NoPage
    /\ dpc' = "poll"
    /\ UNCHANGED <<pageVars, running, hring, hdata, written, loopVars, procrun,
                   errs, expected>>

(* At the end of a ring the board gets a credit and the next ring's turn     *)
(* comes.                                                                    *)
Advance ==
    /\ dpc = "advance"
    /\ IF data_pos >= Pages
         THEN /\ data_pos' = 0
              /\ credits' = credits + 1
              /\ ring_pos' = IF ring_pos + 1 >= Rings THEN 0 ELSE ring_pos + 1
         ELSE UNCHANGED <<data_pos, credits, ring_pos>>
    /\ page' = NoPage
    /\ dpc' = "poll"
    /\ UNCHANGED <<pageVars, running, hring, hdata, written, loopVars,
                   procrun, errs, expected>>

(* ptx_proc_stop; nobody waits for the daemon to leave. *)
Stop ==
    /\ procrun
    /\ procrun' = FALSE
    /\ UNCHANGED <<pageVars, boardVars, daemonVars, errs, expected>>

Daemon ==
    \/ Poll \/ Wake \/ ReadPage \/ ReadError \/ Clear \/ Advance
    \/ ResetFlags \/ ResetCounter \/ ResetCredits \/ Restart

(* The daemon has left and the board has no room: nothing happens any more.  *)
Next == Fill \/ Daemon \/ Stop

Spec == Init /\ [][Next]_vars

(* The kernel runs the daemon; the board fills pages as long as it may.      *)
FairSpec == Spec /\ WF_vars(Daemon) /\ WF_vars(Fill)

-----------------------------------------------------------------------------
(* Safety.                                                                   *)

(* The board, which does not look at the flags, never fills a page that the  *)
(* daemon has not emptied: credits alone keep it behind (ptx_proc.c:74-80).  *)
NoPageIsOverwritten == CanFill => ~ flag[hring][hdata]

(* The page in the daemon's hands is the oldest one the board has filled     *)
(* since it was last started: none is skipped, read twice or read early.     *)
PagesAreReadInOrder == dpc = "read" => content[page[1]][page[2]] = expected

(* No credit is lost or made up: every ring is either free, and counted by   *)
(* the board, or in use, from its first page filled to the credit given for  *)
(* its last page emptied.                                                    *)
InUse ==
    {r \in RingIdx :
        \/ \E p \in PageIdx : flag[r][p]
        \/ r = hring /\ hdata # 0
        \/ r = ring_pos /\ data_pos # 0}

CreditsAreConserved ==
    dpc \in {"poll", "pause", "read", "clear"} =>
        credits + Cardinality(InUse) = Rings

(* "Initialise the data" (ptx_proc.c:217): when the board is started again   *)
(* no page is flagged.                                                       *)
RestartsWithNoData ==
    dpc = "restart" => \A r \in RingIdx, p \in PageIdx : ~ flag[r][p]

-----------------------------------------------------------------------------
(* Liveness.                                                                 *)

(* The daemon does not wait at a page that never comes: after an error it    *)
(* "starts from the head" (ptx_proc.c:146), where the board starts.          *)
PolledPageComes == dpc = "pause" ~> dpc = "read" \/ ~ procrun

(* A filled page is emptied, unless the daemon is stopped. *)
FilledPageIsEmptied ==
    \A r \in RingIdx, p \in PageIdx :
        flag[r][p] ~> ~ flag[r][p] \/ ~ procrun

(* Once stopped, the daemon leaves. *)
StoppedDaemonLeaves == ~ procrun ~> dpc = "exited"
=============================================================================
