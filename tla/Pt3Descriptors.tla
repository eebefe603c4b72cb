--------------------------- MODULE Pt3Descriptors ---------------------------
(***************************************************************************)
(* How create_pt3_dma makes the chain of descriptors that leads the DMA    *)
(* engine of a PT3 through the blocks of a channel: one descriptor per     *)
(* page of data, as many as fit to a descriptor page, the last one linked  *)
(* to the first.                                                           *)
(*                                                                         *)
(* A descriptor lies at <<page, offset>>; link and data are what the one   *)
(* at a place leads to (<<>> is nowhere) and the page of data it is for.   *)
(***************************************************************************)
EXTENDS Integers, Sequences

CONSTANTS
    Amounts,        \* pages of data a buffer may have
    PageSizes       \* sizes of a page of descriptors   (DMA_PAGE_SIZE)

DMA_DESC_SIZE == 20

(* A page is not filled to the last byte (4096 is not a multiple of 20).     *)
ASSUME Pt3DescriptorsAssumption ==
    /\ Amounts \subseteq Nat
    /\ PageSizes \subseteq Nat
    /\ \A s \in PageSizes : s >= DMA_DESC_SIZE /\ s % DMA_DESC_SIZE # 0

VARIABLES
    amount, page_size,  \* pages of data, bytes of a page of descriptors
    count,              \* descriptors written so far
    page, pos,          \* of the next descriptor: desc_info_pos, data_pos
    desc_remain,        \* bytes left in its page
    prev, link, data,   \* the descriptor written last; all of them
    overflown, closed   \* an overflow was printed; the chain is complete

descVars == <<amount, page_size, count, page, pos, desc_remain, prev, link, data,
              overflown, closed>>

(* Pages of descriptors that are allocated. *)
desc_count ==
    LET MAX_DESCS == page_size \div DMA_DESC_SIZE
    IN  (amount + MAX_DESCS - 1) \div MAX_DESCS

(* The first page is begun, and no descriptor written. *)
DescInit ==
    /\ amount \in Amounts /\ page_size \in PageSizes
    /\ count = 0 /\ page = 0 /\ pos = 0 /\ desc_remain = page_size
    /\ prev = <<>> /\ link = <<>> /\ data = <<>>
    /\ overflown = FALSE /\ closed = FALSE

With(f, x, y) == [z \in DOMAIN f \cup {x} |-> IF z = x THEN y ELSE f[z]]

(* Where the next descriptor lies: in the next page if this one is full. *)
Room ==
    IF desc_remain >= DMA_DESC_SIZE THEN [page |-> page, pos |-> pos, remain |-> desc_remain]
    ELSE [page |-> page + 1, pos |-> 0, remain |-> page_size]

Overflow == Room.page >= desc_count

(* Mutant: the descriptor before is led to before there is room. *)
LinkedBeforeRoom(to) == IF prev = <<>> THEN link ELSE With(link, prev, <<page, pos>>)

(* The descriptor before is led to this one. *)
Linked(to) == IF prev = <<>> THEN link ELSE With(link, prev, to)

(* One turn of the loop: the descriptor of the next page of data.  A page    *)
(* that is full to the last byte counts as overflown.                        *)
Write ==
    /\ count < amount /\ ~ overflown
    /\ IF desc_remain < DMA_DESC_SIZE /\ Overflow
       THEN overflown' = TRUE /\ UNCHANGED <<count, page, pos, desc_remain, prev, link, data>>
       ELSE LET here == <<Room.page, Room.pos>>
            IN  /\ link' = With(Linked(here), here, <<>>)
                /\ data' = With(data, here, count + 1)
                /\ prev' = here /\ count' = count + 1
                /\ page' = Room.page /\ pos' = Room.pos + DMA_DESC_SIZE
                /\ desc_remain' = Room.remain - DMA_DESC_SIZE
                /\ overflown' = (page_size <= Room.pos + DMA_DESC_SIZE)
    /\ UNCHANGED <<amount, page_size, closed>>

(* After the loop: the last descriptor leads to the first. *)
CloseRing ==
    /\ count = amount /\ ~ overflown /\ ~ closed
    /\ link' = (IF prev = <<>> THEN link ELSE With(link, prev, <<0, 0>>))
    /\ closed' = TRUE
    /\ UNCHANGED <<amount, page_size, count, page, pos, desc_remain, prev, data, overflown>>

DescNext == Write \/ CloseRing

DescSpec == DescInit /\ [][DescNext]_descVars

-----------------------------------------------------------------------------
(* The engine that follows the links comes by every page of the data, once   *)
(* and in order, and is back at the first descriptor after the last: as      *)
(* Pt3Dma has it (NextBlock); and the pages allocated are enough             *)
(* (pt3_dma_build_page_descriptor).                                          *)
RingIsClosed ==
    LET Follow(d) == IF d \in DOMAIN link THEN link[d] ELSE <<>>
        at[i \in 1 .. amount + 1] == IF i = 1 THEN <<0, 0>> ELSE Follow(at[i - 1])
    IN  /\ ~ overflown
        /\ closed =>
              /\ \A i \in 1 .. amount : at[i] \in DOMAIN data /\ data[at[i]] = i
              /\ at[amount + 1] = <<0, 0>>
=============================================================================
