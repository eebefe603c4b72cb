----------------------------- MODULE ChunkFifo -----------------------------
(***************************************************************************)
(* What the chunk rings of a PT1/PT2 board promise to whoever reads its    *)
(* devices: between two opens the chunks of a stream come out in the order *)
(* in which the daemon finished them, each of them once, and at most       *)
(* Capacity finished chunks wait at any time.  Chunks are numbered as they *)
(* are finished; the numbers go round modulo Numbers.  With Numbers greater *)
(* than Capacity no two waiting chunks share one.                          *)
(*                                                                         *)
(* PtxStream implements this specification with two indices, a lock and    *)
(* two condition variables for each stream.                                *)
(***************************************************************************)
EXTENDS Naturals, Sequences

CONSTANTS
    Streams,    \* the streams of the board
    Capacity,   \* how many finished chunks of a stream can wait
    Numbers     \* chunks are numbered 0 .. Numbers - 1, round and round

VARIABLES
    fifo,       \* the finished chunks that the reader still has to release
    number      \* the number the next finished chunk gets

vars == <<fifo, number>>

Init ==
    /\ fifo = [s \in Streams |-> <<>>]
    /\ number = [s \in Streams |-> 0]

(* Opening a stream empties it and restarts its numbering. *)
Open(s) ==
    /\ fifo' = [fifo EXCEPT ![s] = <<>>]
    /\ number' = [number EXCEPT ![s] = 0]

(* The daemon has finished a chunk and there is room for it. *)
Put(s) ==
    /\ Len(fifo[s]) < Capacity
    /\ fifo' = [fifo EXCEPT ![s] = Append(@, number[s])]
    /\ number' = [number EXCEPT ![s] = (@ + 1) % Numbers]

(* The reader has taken the whole oldest chunk and gives it back. *)
Release(s) ==
    /\ fifo[s] # <<>>
    /\ fifo' = [fifo EXCEPT ![s] = Tail(@)]
    /\ UNCHANGED number

Next == \E s \in Streams : Open(s) \/ Put(s) \/ Release(s)

Spec == Init /\ [][Next]_vars
=============================================================================
