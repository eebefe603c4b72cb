# A TLA+ model of fbsdpt3

fbsdpt3 is a FreeBSD driver for the EARTHSOFT PT1/PT2 and PT3 receiver boards.
Each board has four tuners; each tuner is a character device (`/dev/ptxN.s0`,
`.t0`, `.s1`, `.t1`) that is tuned with a sysctl and delivers an MPEG transport
stream to `read(2)`. This directory holds TLA+ modules that model the driver,
configurations that model-check them with TLC, and proofs that TLAPS checks.

    tlc -config PtxStream_ring.cfg PtxStream.tla
    tlapm PtxStream_proofs.tla

`PROJECT.json` lists components, runs, mutants (a plausible bug for every checked
property, which the property catches), the lines of the source each definition
stands for, the hazards, the findings and the theorems.

## 1. The system

### PT1/PT2 (`ptx*.c`)

| part | state | operations | interacts with |
|---|---|---|---|
| chunk rings (`ptx_proc.c` `read_dmabuf`, `ptx_tuner.c` `ptxopen/ptxclose/ptxread`) | per stream: `opened`, `started`, `wp`, `rp`, `chunk_filled`, `chunk_used`, a mutex, two condition variables, 1024 chunks of 16 packets | the daemon copies micropackets in, readers copy bytes out, open resets, close switches off | shared memory between one daemon and the readers; `wp`/`rp` under the mutex, the rest not |
| DMA page ring (`ptx_proc.c` `ptx_daemon`, `reset_dma`, `ptx_dma.c`) | 64 rings of 511 pages, a flag word in each, `ring_pos`, `data_pos`, credits given to the board | poll a page, hand it to `read_dmabuf`, clear its flag, give a credit per ring, reset after an error bit | the board writes pages at its own pace |
| I2C bus (`ptx_iic.c`) | one mutex, `i2c_progress`, the FIFO program memory, `i2c_state` | acquire, assemble a waveform, run it, poll for its end (100 times), release | every tuner operation of every stream |
| tuning (`ptx_tuner.c`, `ptx_tuner_data.h`) | tuner and demodulator registers, the stream's `freq` | initialise, sleep, set frequency, wait for lock, select the TS, read signal strength | sysctl handlers call it, concurrently with each other and with reads |
| life cycle (`ptx.c`, `ptx_sysctl.c`, `ptx_proc_start/stop`) | `procrun`, `ptxdaemon`, the devices, the memory | attach, detach, the error path of attach | everything above |

### PT3 (`pt3_*.c`)

| part | state | operations | interacts with |
|---|---|---|---|
| channels (`pt3_pci.c`) | per channel `valid`, `rstart`; per tuner `issleep`; one mutex | open (wakes the tuner), close (puts it to sleep), read, sysctl tuning | the two channels of a tuner share it; open, close and sysctl overlap |
| DMA (`pt3_dma.c`) | per channel: blocks of pages, `ts_pos`, descriptors chained in a circle, `enabled` | build the descriptors, reset, switch on and off, copy to user space | the board writes blocks and never waits |
| I2C bus (`pt3_bus.c`, `pt3_i2c.c`) | an instruction buffer with `inst_pos`, the instruction memory of the board, a mutex | assemble start/stop/read/write, copy, run, poll | every tuner operation |
| demodulators and tuners (`pt3_tc.c`, `pt3_qm.c`, `pt3_mx.c`) | register shadows, sleep flags | initialise, power, sleep, set frequency with time-out | I2C bus |

`#if defined(__FreeBSD__)` is the code that is built; the Linux half of
`pt3_pci.c` is not and is not modelled.

### What is hard

* The daemon reads `opened` and writes `chunk_filled` and the buffer without the
  stream's mutex, while `ptxopen` resets them: every order of their accesses
  counts.
* One daemon serves four streams. When a ring is full it waits for that stream's
  reader; the others must not starve.
* Condition variables: a signal is lost when nobody sleeps.
* `ptxread` gives the mutex up around `uiomove`. `wp` moves meanwhile.
* A board that writes memory by itself: flags and data, credits, resets, laps.
* Time-outs that give up on a transfer the board still carries out.
* Detach, and the error path of attach, while threads are inside the driver.

Which of these some property covers is listed under "hazards" in
`PROJECT.json`, each at its line.

### What makes each part correct

* **Chunk rings**: chunks reach the reader whole, in order and once; the chunk
  being copied is not written; nobody sleeps for ever; stores stay in bounds.
* **DMA page ring**: the board never overwrites a page not read; the daemon reads
  each page once, in the board's order; both agree after a reset; credits are
  conserved.
* **I2C buses**: one program at a time on the engine; the program that runs is the
  one that was assembled; the bus is always released; results belong to their
  request.
* **Tuning**: each sequence ends; frequencies are those of the channel table; an
  open device's tuner is awake.
* **PT3 channels and DMA**: one owner per channel; data delivered in order, from
  blocks the board has finished; descriptors form one circle over all pages.
* **Life cycle**: nothing is used after it is freed or before it is made.

## 2. Modules

`ChunkFifo` is what the chunk rings promise: per stream a queue of numbered
chunks with a bound, emptied by open.

`PtxStream` is the detailed model of the chunk rings.

| code | model |
|---|---|
| `struct ptx_stream` | `opened started wp rp filled used`, functions over `Streams`; `tsen` is the bit `SetStream` writes, `lock` whether `ptxopen` is inside its critical section |
| `read_dmabuf`, one micropacket | `Fetch` or `Discard`, then the daemon's program counter `dpc` through `Truncate`, `TruncateStore`, `CheckFilled`, `PublishOrWait`, `Timeout`, `PublishOrDrop`, `ClearFilled` and, byte by byte, `Store`, `IncLoad`, `IncStore` |
| the error bit and `reset_dma` | `MicroPacketError`: every stream continues somewhere else in a packet |
| `ptxopen` | `OpenBegin`, `OpenReset` |
| `ptxclose` | `Close` |
| `ptxread` | `ReadCall`, then `rpc` through `EnterOrWait`, `Woken`, `CopyRest`, `CopyDone` or `CopyFault`, `Loop`, `Advance`, `ClearUsed` |
| `cv_wait`, `cv_timedwait`, `cv_signal` | program counters `emptyFirst`, `emptyNext` and `wait`; `SignalNotEmpty`, `SignalNotFull` |

Granularity: what happens under `s->lock` is one step, because every other access
to that state is under it too; `ptxopen` is two steps, because the daemon reads
`opened` and `chunk_filled` without the lock. Each unlocked access to shared
state is a step of its own, and `chunk_filled++` is a load and a store. In
`chunk_filled -= mod` the compiler may reuse the value it has or load it again,
so `TruncateStore` chooses. Byte values are abstract: a chunk carries its number
and whether all of its bytes were written since it was begun. The statistics
counters (`drop`, `overflow`, ...) are written and never read, and are left out.

External: a micropacket of any stream may come at any time, also of a stream
that is off (pages filled earlier). The last close of a file does not happen
while a thread is in `read(2)` on it, unless the file is revoked (`Revoke`).
A second `open` gets `EBUSY`; several threads share a stream only through one open
file, which nothing in devfs or the driver serialises (`Readers`).

The history variables `sess number chunk have clean` record what the properties
talk about; no guard but the bound on sessions reads them.

`PtxDma` is the page ring under it: what `ptx_daemon` and `reset_dma` do with the
flags, the credits and the position, against a board that writes by itself.

| code | model |
|---|---|
| the flag word of `databuf[r][p]` | `flag[r][p]`; `content` is the number of the filling (history) |
| the board's registers | `running`, `hring`, `hdata` (the page it fills next), `credits` |
| `ring_pos`, `data_pos`, `procrun` | the same |
| `ptx_daemon` | `Poll`, `Wake`, then `ReadPage` or `ReadError` (`read_dmabuf`, whose work on the streams is `PtxStream`), `Clear`, `Advance` |
| `reset_dma` | `ResetFlags` page by page, `ResetCounter`, `ResetCredits`, `Restart` |
| `ptx_proc_stop` | `Stop` |
| the board (external) | `Fill`: flags its page and goes on along the address tables; begins a ring only with a credit |

Each flag and each register write is a step, because the board acts in between.
What the board does between the register writes of `reset_dma` is not in the
source. `BusyDuring` says in which windows it may write: `reset` (from the error
until the restart) and `late` (from the restart until the daemon has left the
page with the error). The passing runs and the proofs take the board that is
quiet in both; the two violations show what the code does with one that is not.

`Pt3Dma` is one channel of a PT3 from open to close: the buffer of blocks that the
board fills without ever waiting, and `pt3_dma_copy` that empties it.

| code | model |
|---|---|
| `dma->ts_info[]`, `ts_pos` | per block `head` (sync byte, `NOT_SYNC_BYTE` mark, other), `content` (numbers of units), `dpos`; `ts_pos` |
| `channel->valid`, `rstart` | the same |
| `scp->lock`, `dma->lock` | `slock`, `dlock`: who holds them |
| `pt3open`, `pt3close` | `Open`; `Close`, `Closed` |
| `pt3read` | `ReadCall`; the first read of a session goes through `Start`, `ResetBlock` (per block), `Enable` |
| `pt3_dma_copy` | `Enter`, `Look` (`pt3_dma_ready`), `Check` (overrun), `Size`, `CopyUnit` (unit by unit, as `uiomove` goes), `Copied` or `CopyFault` |
| the board (external) | `Fill`, unit by unit; `BoardStops` |

What open and close do to the tuner's sleep state is in `Pt3Channel`. The circle in
which `Fill` goes from block to block (`NextBlock`) is what `Pt3Descriptors` finds in
the descriptors. `dma->enabled` is read by `pt3_exit` only. A second
`open` gets `EBUSY` and is not an action.

The board has no notion of a reader, so `Fill` has no guard but the engine's state.
`lapped` records the first time it begins a block that was not read, and
whether that was in the middle of a copy. `DataInOrder` speaks of readers not
overtaken; `OverflowIsLogged` of what the code notices when they are. Overtaking in
the middle of a copy is not noticed: the mark the reader then leaves hides it.
With two threads on one open file `DataInOrder` is false, because both may find
`rstart` clear and the second resets the buffer under the first one's copy; the
driver promises nothing for that case, so no run reports it.

`PtxI2c` is the bus that every tuner operation of a PT1/PT2 goes through.

| code | model |
|---|---|
| `scp->i2c_progress`, `scp->lock` | `i2c_progress`; what happens under the mutex is one step |
| `i2c_write`, `i2c_read` | `Call`, then `at` through `EnterOrSleep`, `Assemble` (word by word), `Go`, `Poll`, `Result` (reads only), `Release` |
| `msleep(..., PCATCH)`, `wakeup` | `asleep`; `Interrupted` (the result of `msleep` is not looked at), `Release` wakes everybody |
| program memory, engine, result register (external) | `fifo`, `engine`, `answer`; `Play` |

A word and an answer carry the client they belong to, and are `Old` once that
client's transfer has returned. A transfer is given up after `MaxPolls` polls
whatever the engine does; from then on two programs may be mixed in the memory and
answers may be anybody's, so `ProgramsAreWhole` and `AnswersBelong` speak of the time
before (`late`). That the bus is given back, and that nobody sleeps for a free bus,
holds without that exception.

`PtxWave` is what one client assembles: the operators carry the names of the
functions (`begin_i2c`, `start_i2c`, `stop_i2c`, `writebits`, `blockwrite`,
`blockread`) and return the levels the instructions put on the lines. `PlayNext` puts
them there and a listener notes starts, stops, bits and the places where the engine
is told to read; `Frame` states what the I2C protocol asks for, independently of
the assembly. What slaves answer is not modelled: the slots are heard as free lines.
After the acknowledge between two bytes read, `blockread` lets data go at the same
instruction that lowers the clock; `FrameIsHeard` excepts that place from the rule
that the lines move one at a time.

`Pt3Program` is the I2C bus of a PT3.

| code | model |
|---|---|
| `pt3_bus.c` | `bus_start bus_stop bus_write bus_read bus_sleep bus_end`, sequences of four-bit instructions; `Packed` is `add_instruction` |
| `pt3_tc.c`, transfers | `tc_write tc_read write_tuner read_tuner` and the two `_without_addr` |
| `pt3_i2c_copy` | `i2c_copy`, with the destination cut to eight bits as in the code (`CopyTo`) |
| `pt3_i2c_run` | `Begin`, `Acquire`, `Copy`, `RunCode`, `Take`, `Release` |
| instruction memory, engine, lines (external) | `memory`, `next`, `bus`; `Play` |

`Wanted` says independently what each transfer ought to sound like on the bus. Since
the engine stops at the first end instruction, what earlier programs left in the memory
must never be reached. The memory is external, and where its first instruction is the source
does not say. `Fetch` takes it to be at address 0, which is where the destination of
`pt3_i2c_copy`, 2048 cut to eight bits (`pt3_i2c.c:106,117`), leads. The branch
for Linux copies to 2048 (`pt3_i2c.c:119`), and what was read is fetched from there on both.
That the board takes the one for the other is an assumption, with only the README's word for
it that terrestrial tuners work (`src/README.md:12`); no property here tests the cut.
`Programs` may be any set of sequences of transfers and sleeps
(`Steps`) that fit the buffer of 4096 bytes and the memory (`Fits`): the driver's longest,
`pt3_qm_init` with some fifty transfers of 26 bytes, takes a third of the buffer. A program
that filled the buffer would be begun again at its start and heard wrongly.

`Pt3Descriptors` makes the chain of DMA descriptors, one turn of the loop in
`pt3_dma_build_page_descriptor` a step.

| code | model |
|---|---|
| `desc_info_pos` (less 1), `data_pos`, `desc_remain` | `page`, `pos`, `desc_remain` |
| `prev`, `curr` | `prev`; the place `here` a step writes to, found by `Room` |
| the descriptors | `link` and `data`, functions over the places written so far |
| the loop over blocks and their pages; the return at an overflow | `Write`; `overflown` |
| the link after the loop | `CloseRing` |

`Frequencies` has the channel tables of both boards: `bs_pll` with `ptx_tuner_data.h`,
`getfrequency` and `getfrequency_add` of `ptx_tuner.c`, `get_channel_freq`, `SD_TABLE`
and `QM_FREQ_TABLE` of `pt3_qm.c`, `get_channel_frequency`, `REAL_TABLE`, `mx_rftune` and
`SHF_DVBT_TAB` of `pt3_mx.c`. They are functions; their references
(`SatelliteChannelIsRight`, `TerrestrialChannelIsRight`, `SynthesizerIsRight`,
`RealFreqIsRight`) are the channel plan, the formulas in the comments of the tables, and
the other board's driver. Channels are those the PT1/PT2 accept, satellite 0 to 35 and
terrestrial 0 to 112 (they refuse larger ones, up to 32767, with `EINVAL`). The PT3 looks at no bound and has the
shorter tables: `SD_TABLE` ends at channel 23, `REAL_TABLE` at 111, while
`pt3_qm_get_channel_freq` and `pt3_mx_get_channel_frequency` go on. What it then reads is
any of a set of words (`RowsRead`).

`PtxLife` is the life of a card, PT1/PT2 or PT3. Attach and detach are sequences of
steps built by `ptx_attach`, `attach_stream`, `attach_tuner`, `ptx_dma_init`, `pt3_init`,
`create_pt3_dma`, `ptx_detach`, `ptx_dma_free`, `pt3_exit`, `free_pt3_dma` and the error
paths `out_err_dma`, `out_err_i2c`; a step says what it needs, what it makes or
frees and, if it can fail, what follows then. `MakeStep`, `AllocStep`, `UseStep`, `FreeStep`,
`UnmapStep` and `ProcStep` carry one out, `FailStep` and `FailLoad` fail it, `Crash` is
a step whose needs are not there. Users come as soon as a device leads to its
stream (`UserCalls`, `SysctlCalls`), the daemon from its creation until it sees `procrun`
clear (`DaemonWorks`, `DaemonLeaves`).

`Pt3Channel` and `PtxTune` are the calls that operate tuners: open, close and
tuning of a PT3 channel; tuning of a PT1/PT2 stream and the supply of the antenna on
either card. The buses keep threads apart only for one transfer, so a call is a
sequence of transfers and of assignments in the driver's memory, and any two calls
interleave between them.

| code | model |
|---|---|
| `pt3open`, `pt3close`, `sysctl_freq` | `Open`, `Close`, `Tune`: make the sequence |
| `set_tuner_sleep`, `pt3_qm_set_sleep`, `qm_set_sleep_mode`, `pt3_mx_set_sleep`, `rftune`, `SetChannel` with what it calls | operators of the same names, sequences of steps |
| reads of `issleep`, `freq`, register copies | `Branch`, when the step is reached |
| their assignments | `BeginSleep`, `EndSleep`, `SetCopies` |
| a transfer | `Arrive` or `Fail`; polls: `PollLocked`, `PollTmccS`, `PollId`, `PollTmccT`, `FailPoll`. A failure drops the steps the code's early return skips |
| demodulator and tuner (external) | `hw`, `signal`; `Settle` |
| PT1/PT2: `SetFreq`, `bs_tune`, `bs_frequency`, `ts_lock`, `isdb_t_frequency` | operators of the same names; `Think`, `Arrive`, `Ask`, `ReadIds`. No transfer reports failure there: `Lose`, `Misread`, `MisreadIds` |
| `sysctl_lnb`, `set_lnb`, `settuner_reset` | `SwitchLnb`, `TestLnb`, `SetOne` |
| PT1/PT2 demodulator (external) | `Demodulate` |

A chip's registers are one register of the model where the code writes one value to
them one right after the other, in one transfer or in several: `agc` stands for four
transfers (three on a terrestrial demodulator, `pt3_tc.c:407`), `N` for the band and two
counters (`pt3_qm.c:239,265`), `sd1` and `sd2` for the rest of `qm_local_lpf_tuning`. Half of such a
group written, by a failure or with another thread's transfer in between, is not a state of
the model; the properties except both (`clean`, `agreed`). The status of the write of the band,
which the code overwrites, counts as looked at; a tuning in which it failed is not
`clean` in any case. A tuning of a PT1/PT2 to a channel outside the tables ends with `EINVAL`
before its first transfer and is left out; so is one to a slot beyond the eight there
are, which `SetFreq` and `SetChannel` do not check.

`MCBoards` puts `PtxWave`, `Pt3Program`, the tables, `Pt3Descriptors`, `PtxLife` and
`PtxTune` side by side, one of them to a behaviour, and gives them values. They share
nothing. So that it can extend all of them, their specifications are called `WaveSpec`,
`ProgramSpec`, `DescSpec`, `Spec` and `TuneSpec`.

## 3. Runs

Bounds: chunks of two packets of two micropackets (3 + 2 bytes, the proportions of
188 = 62 * 3 + 2), so that packets end inside a micropacket and chunks inside a
read; three slots, so that full, empty and partly full differ and the indices
wrap; two sessions, so that a session starts on what the one before left; one
error, after which the streams go on at any position; reads smaller and larger
than a chunk. Larger values repeat the same relations between indices.

| run | question | result |
|---|---|---|
| `ptx_stream_ring` | one reader, two sessions, an error, all interleavings: types; the chunk copied is stable; stores stay in the chunk; chunks are whole; no lost wakeup; chunks are read to the end; `chunk_used` in bounds; the ring implements `ChunkFifo` | holds |
| `ptx_stream_live` | two streams, readers that may stop: the daemon returns, waiting readers are served | holds |
| `ptx_stream_daemon_asserts` | the assertions of `read_dmabuf` | **violated**: `chunk_filled` becomes negative |
| `ptx_stream_reader_asserts` | the assertion of `ptxread` with two threads on one open file | **violated**: `chunk_used` exceeds the chunk |
| `ptx_dma_ring` | three rings of three pages, an error, a stop, fair daemon and board: types; no page overwritten; pages read in order; credits conserved; the polled page comes; filled pages are emptied; the daemon leaves when stopped | holds |
| `ptx_dma_stale` | a board that writes until it is restarted: no flag is set when it is | **violated**: a page is flagged behind the loop that clears |
| `ptx_dma_hang` | a board that starts while the daemon still holds the page with the error: the polled page comes | **violated**: the daemon clears the flag of new data and waits for that page for ever |
| `ptx_i2c` | three threads, signals, time-outs, an engine of any speed: types; programs are played whole; answers belong to their requests; no sleeper forgotten; the bus is given back, even if the engine never ends; calls return when no more come | holds |
| `pt3_dma` | one reader, any number of sessions, failing copies, a board that may be silent or overtake: data in order until overtaken; overruns logged; reset undisturbed; both locks are given back | holds |
| `boards` | every waveform of the PT1/PT2 is heard; two threads' PT3 programs are heard and kept apart; channels lead to their frequencies on both boards, and the PT3's tables, as far as they go, hold what belongs to them; the descriptors form one ring; whatever step of attach fails nothing remains, and nothing is used that is not there; two threads that tune one stream of a PT1/PT2, or switch the antenna on any card, one failing transfer: tuned as asked, and the supply reported is the one on | holds |
| `pt3_tables` | every channel: the PT3 reads the synthesizer setting and the frequency that the comments beside its tables compute | **violated**: satellite channel 24 is read behind the table of 24 rows |
| `pt3_channel` | two threads that open, close and tune one channel, one failing transfer: the sleep state is true; an open channel is awake; it is tuned as asked; calls return, but for one that asks a demodulator asleep | holds |

The two properties about whole chunks and stores except a session that was opened
while the daemon was handling a micropacket of the same stream, until its first
chunk is published (`clean`): there the code does deliver a chunk that is partly
the previous session's. The exception is as narrow as the code allows; a torn
chunk anywhere else is a violation.

Bounds of the `ptx_dma` runs: with three rings the board's, the daemon's and a free
one differ, and with three pages first, last and inner ones; fillings are numbered
modulo one more than there are pages, so that two pages never share a number. One
error is enough: what a reset leaves is the state the rings begin in.
These runs do not check deadlock: when the daemon has left and the board has used
its credits nothing happens any more.

Bounds of `pt3_dma`: with three blocks the one being read, the next, whose
first byte decides, and the one before, whose mark decides, are all different; reads
of three units cross blocks of two, and reads of one stop inside them. Units are
numbered modulo seven, one more than the buffer holds. The number of sessions is not
bounded. Two looks for a block stand for twenty.

Bounds of `ptx_i2c`: with three clients one has the bus while two wait, so
that both being woken, and one being woken and not the other, differ; reads are longer
than writes, so that a program leaves words of a longer one behind it. `MaxPolls`
stands for 100.

Bounds of `boards`: the waveforms take two addresses with different bits at both ends,
byte sequences of one to sixteen bytes with equal and different neighbours, and reads
of no, one, two and four bytes, so every pair of neighbouring pieces occurs. Programs
are of every kind of transfer, alone and with others and sleeps behind them, of
different lengths, two of them by two threads, so that the second finds the first
in the memory. Of the tables every channel is taken (0 to 35, 0 to 112); of those behind the
end of the PT3's, satellite 24 to 35 and terrestrial 112, `ChannelsAreRight` says what
the PT3's formulas give, and `pt3_tables` what it reads: TLC stops at satellite channel 24;
without the satellite half of `TablesAreWhole` it stops at terrestrial channel 112. Descriptors are made
for 0 to 40, 203, 204, 205 and 799 pages (799 is what the smaller of the code's two buffers
has) with 2, 3 and 204 to a page of them, so that the last one is full, has
room for one, or is the only one. A card has its two tuners, two rings of two pages
and two attachments, so that every loop is left in the middle by a failure and the
second attachment meets what the first left. For `PtxTune`: two tunings of two threads to
different channels, or four switchings among the three supplies and an invalid one, four
slots with one empty and the asked one in the second pair, two polls, one failing transfer.

Bounds of `pt3_channel`: three calls of two threads (two that overlap and the state
another left), two polls to a loop, one failing transfer, channels 1 and 2 after the 0
of attach.

Exceptions, each as narrow as the code allows. `PtxLife`: what users and the daemon
touch after detach began (nothing keeps them out); a PT3 after a failed attach, whose
`pt3_exit` uses what was never made; the page whose mapping failed and its tag; the
channels of a PT3 and the locks of their DMA, never freed; an open between `make_dev`
and the assignment of `si_drv1` (the model's users wait for it). `Pt3Channel`: sleep
commands that overlap or fail (`agreed`, `mixed`), an open that comes while a close is
on its way (`crossed`), tunings disturbed by another call (`clean`). `PtxTune`: the same
for tunings and switchings, and identifiers the demodulator did not tell in time.

Fairness (`FairSpec`). In `ptx_stream_live` the kernel schedules the
daemon and threads inside `read(2)` and `open(2)` (weak fairness of their steps; a
thread that waits on a condition variable has no step). `cv_timedwait` returns
after half a second (weak fairness of `Timeout`). The board fills pages with
micropackets of every stream that is switched on, in turns, so the daemon meets
each of them again and again (strong fairness of `Fetch` per stream). Nothing
makes anybody call `open`, `read` or `close`. In `ptx_dma_ring` and `ptx_dma_hang`
the kernel runs the daemon and wakes it from its pause (weak fairness of `Daemon`)
and the board, which receives signals without end, fills its page as long as it
has a credit (weak fairness of `Fill`). Nothing makes anybody stop the driver. In
`pt3_dma` the kernel runs the threads inside the driver, and the board stops
when told to (the loop in `pt3_dma_set_enabled` waits for that without a bound);
the board need not write. In `pt3_channel` the kernel runs the threads, and a
demodulator that searches and is awake ends with a signal or with its retry limit (weak
fairness of `~ hw.demod /\ Settle`): `get_tmcc_t` polls for that without a bound. Nothing says
that one asleep answers, so `CallsReturn` excepts a call that asks it (`AsksASleeper`), and
only while it sleeps. The exception is needed: a close in the middle of a tuning puts the
demodulator to sleep, and nothing there wakes it for the tuning. That transfers
fail without end, which would keep that poll going too, is not considered (`MaxErrors`). In `ptx_i2c` the kernel runs the threads inside the
driver, and the engine need not move at all. That every caller gets the bus while
others keep calling is not claimed: `wakeup` wakes all and any of them may be first.

## 4. Proofs

`PtxStream_proofs` proves, for all values of the constants:

* `TypeCorrect`: `Spec => []TypeOK`. The inductive invariant `TypeInv` adds that
  `cur` names a stream whenever the daemon is busy and that a copy is never
  larger than what the request still wants.
* `CopiedChunkIsStableAlways`, `ReaderAssertionsHold` and `ChunksAreReadToTheEndAlways`
  under `OneReader` (one thread per open file, and the file never revoked under it), all
  three from `RingInv`; `NoLostWakeupEver` from `WakeInv` under `OneThread`, which asks for
  the one thread only and lets its file be revoked. None of the properties is inductive:
  that the reader copies a slot other than `wp` depends on its having seen
  `rp # wp` in an earlier critical section, which `ReaderInv` keeps for every place
  from there to the release of the chunk (`Holding`); that nobody sleeps on a true
  condition depends on signals being sent in the critical section that makes it
  true, and on there being one sleeper per condition. Without `OneReader` the
  properties are false, as `ptx_stream_reader_asserts` shows.
  The one arithmetical fact is `NextSlotIsRemainder`: the daemon tests for a full
  ring with `%` and steps with a comparison, and both agree.

Its second half goes on from `RingInv`, also under `OneReader`, to what is in the chunks
and in which order they leave:

* `StoresAlwaysStayInChunk` and `WaitingChunksAreAlwaysWhole`. `FillInv` says that
  `chunk_filled` is whole packets plus whole micropackets whenever the daemon is
  between two micropackets, plus the bytes of the one it is storing otherwise. A packet divides the chunk, so
  a chunk never ends inside a micropacket and is only ever full when the daemon is
  about to test for it. What has been written of the chunk under `wp` is exactly
  `0 .. chunk_filled - 1`, which `Truncate` preserves though it moves `chunk_filled`
  back; `QueueInv` keeps the slots that wait whole, and says that none waits of a
  stream that is reset while the daemon is at work on it.
* `ChunkFifoIsImplemented`: `Spec => ImplementsChunkFifo`. Opening maps to `Open`,
  `wp++` to `Put`, `rp++` to `Release`; every other step leaves the queue as it is
  (`StutterRefines`, `StoreRefines`). The slot `i` places after `rp` is computed with a
  remainder, so the steps need that publishing and releasing move the backlog
  by one (`PublishAdds`, `AdvanceRemoves`), which rest on `DivisionIsUnique`.

`PtxDma_proofs` proves, for any number of rings and pages and a board that is
quiet during a reset (`QuietBoard`): `DmaTypeCorrect`, `NoPageIsEverOverwritten`,
`CreditsAreAlwaysConserved` and `PagesAreAlwaysReadInOrder`. The properties speak of single pages and of a count;
the invariant `DmaInv` says where every flag is. With `Ahead(r)` the distance of ring
`r` from the daemon's and `Used` the rings the board holds, `BoardInv` puts the board
at distance `Used` (or in the last ring used), `DaemonInv` keeps the daemon behind it
where both are in one ring, and `FlagInv` says that exactly the pages between the two
are flagged. During a reset the flags already passed are clear (`ResetInv`), and what
`Restart` leaves is the invariant again. `RingsWithin` counts the rings at a
distance below `n` by a bijection; the theorem on credits follows. For the order,
`ChainInv` says that the pages that hold data are numbered one after the other up to
the board's page, and `TurnInv` that the daemon expects the number of the page whose
turn it is; that this page, when it is empty, is the one the board fills next
(`EmptyTurn`) comes from `DmaInv`. Without
`QuietBoard` even `TypeOK` is false: stale flags make the daemon give more credits
than there are rings.

`PtxI2c_proofs` proves, for any number of clients, programs of any length and any
number of polls: `I2cTypeCorrect`, `ProgramsAreAlwaysWhole`, `AnswersAlwaysBelong` and
`NoSleeperIsForgotten`. `BusInv` is mutual exclusion (whoever is inside has set the
flag, and is alone); `ProgramInv` says how far the one transfer inside is and where the
engine is with it, and holds until a transfer is given up. Neither property follows
from its own truth a step earlier: that a program stays whole while it is played
depends on nobody else being in `Assemble`.

Its second half proves `FrameIsAlwaysHeard` of `PtxWave`: for all slave addresses of seven
bits, all values of up to 16 bytes (`WBLOCK` has no more), reads of up to four (the driver
asks for no more) and any number of transfers. `FrameIsHeard` looks at the listener when a
program has ended, so the invariant must say where he is in the middle of one. `Leads(p, s, u)`
says that there are conditions of the lines, one per instruction of `p`, from `s` to `u`, and that
two lines move at once only where it is allowed; `Says(p, k, l, m, x)` that from the levels
`l`, *whatever was heard before*, `p` adds `x` to it and leaves `m`. Two programs one after the
other say what each says (`SaysOn`), and so do any number (with `FlattenBuilds`), so what
`blockwrite` and `blockread` say follows from single instructions upwards. `WaveInv` then needs
only that the engine is at one of these conditions, the one its `pc` names (`Follows`). The
bound `k` shows besides that no program is longer than 637 instructions, so that the
ten bits `makei2c` has for an address (`ptx.h:56`) are enough for it.

`Pt3Dma_proofs` proves, for a buffer of any number of blocks of any size, any sizes of
the reads and any number of sessions, under `OneReader` (one thread to the open file):
`ResetIsAlwaysUndisturbed`, `DataIsAlwaysInOrder` and `OverflowIsAlwaysLogged`. The driver
never learns where the board is; it looks at the first byte of two blocks. `HeadInv`
says what that byte means as long as the board has not overtaken the reader: with
`Dist(b)` the distance of block `b` from the reader's, exactly the blocks below the
board's distance are complete, and all of them when the board stands, at the start of a
block, at the reader's. `DataInv` says that complete blocks are numbered one after the other
up to the board's next unit and that the reader's next unit is the one after those
delivered; `LapInv` that after an overrun every block starts with a sync byte until the
check has seen it. `LockInv` and `ResetInv` lead from one session to the next.
`Pt3DmaTypeCorrect` needs no `OneReader`.

The same module proves two things about the board of a PT3 with data in its memory:

* `RingIsAlwaysClosed` (`Pt3Descriptors`), for a buffer of any number of pages and descriptor
  pages of any size that is not a multiple of a descriptor's 20 bytes
  (`Pt3DescriptorsAssumption`; at a multiple the code reports an overflow where there is
  none). `Placed` says that descriptors fill page after page, so that the
  pages `create_pt3_dma` allocates, a division rounded up, are enough; `Chained` that there
  is an enumeration of the places written in which each leads to the next and is for the next
  page of data. All lie before the next place, so a new one overwrites none. `TheWalk` goes from
  that to what `RingIsClosed` speaks of, the engine following links.
* `ProgramIsAlwaysHeard` (`Pt3Program`), for any number of threads, of programs and of steps in
  them (`Pt3ProgramAssumption`: they fit). The first half is as for the PT1/PT2, from
  `MovesSay` and `NopsSay` over `BytesSay`, `TransfersSay` and `StepSays`, one case per kind of
  transfer, to `StepsSay`, with sets of levels in place of levels, because a byte may end
  with data at either. The second half is the memory: `ProgramEnds` (an end follows the
  instructions, and the last byte is filled), `HalvesOf` and `CopyHolds` (what the engine
  fetches is what was assembled). `ProgramInv` has the flag as mutual
  exclusion (`OneInside`), the program of whoever has started, or is about to start, the engine in
  the memory (`MemoryHolds`), and the engine on the trace of that program (`OnTrace`). That what is
  left of an earlier program is never reached follows, because the trace ends at the end
  instruction.

`SequenceLemmas` holds what the last two and the next three need: induction over the naturals, derived from
the well-foundedness of `<` by taking the smallest number at which a set fails (`Induction`
speaks of a set, not of an operator), and what follows by it for `FlattenSeq`, with which
the models put loops of the code together (`FlattenBuilds`: what holds of the empty
sequence and is kept by appending a part holds of all parts together;
`RangeOfFlattened`). Its second part is arithmetic of short and joined sequences. It makes
no assumption.

`PtxTune_proofs` proves, for any number of threads, slots, tries, calls and failures on any
of the three cards:

* `TypeIsPreserved`: the list of a thread that tunes has only steps of tunings, that of
  one that switches is one of few.
* `LnbAlwaysAgrees`. `LnbAgrees` speaks of the end of a switching, and nothing in it says how one
  gets there. `LnbInv` adds that a thread between the two halves of a switching that
  overlapped no other has set the one (the pins on a PT1/PT2, the memory on a PT3), and
  that then nobody else is switching.
* `TunedAsAskedAlways`. `TuneInv` gives, for a tuning nothing disturbed, each place in its
  list and the registers that are right there (`Place`). A satellite tuning
  reads identifiers in a loop of unknown length; while it does, the rest of the list is some
  sequence of readings and attempts that ends with `lock` (`Searches`), whatever it is.

`Pt3Channel_proofs` proves, for any number of threads, calls, polls and failures, without a
further assumption:

* `TypesAreKept`: in every list there are only steps the driver knows, and a failure drops no more
  than there are.
* `SleepStateIsAlwaysTrue`. A command to sleep is a dozen steps over memory and two chips, and
  differs between the two types. `SleepInv` places each thread before, in the middle of,
  or after such a command; if the latest one overlapped none and nothing failed, it is the
  only one under way and the registers are what its place says.
* `OpenChannelIsAlwaysAwake`, which needs beside `SleepInv` that a channel open and not
  crossed by a close is awake or will be woken by the one who opened it (`OpenInv`).
* `TunedAsAskedAlways`, by `TuneInv`, the places of `SetChannel`.

`PtxLife_proofs` proves `NothingEverRemains` and `WhatIsUsedIsAlwaysThere`, for either card, any number
of tuners, rings and pages (naturals, zero included: `PtxLifeAssumption`) and any number of
attachments. Both properties speak of what has
happened, and follow from what is still to come. `LifeInv` therefore speaks of `todo`:

* in attach every step finds what it needs, and what those need whom it lets in, among
  what is there and what earlier steps will have made; where a step may fail without notice
  another looks before it is used (`Closed`, `AttachInv`);
* when things are taken down, all that is there but the exceptions will be taken
  (`GoneInv`), no step uses what an earlier one took (`Quiet`), and each finds what it uses,
  but for the tag of a page without address (`Found`, `DetachInv`).

Every action keeps that, because `todo` only loses its head (`ClosedTail`, `QuietTail`,
`FoundTail`). The work is in showing it of the sequences attach and detach begin with. They
are put together by loops of the code (`attach_tuner`, `ptx_dma_init`, `create_pt3_dma`,
`pt3_exit`, ...), and so is the proof: the lemmas `StreamAttached12` ... `Attached12`,
`DmaCreated3` ... `Attached3`, `DmaFreed12` ... `DetachIsRight` say of each operator what it
makes or takes and uses, from the same of its parts (`PieceFlat`, `QuietFlat`, `ClosedFlat`
for its loops).

Only model-checked: liveness, which TLAPS does not do, and `ChannelsAreRight`
(`Frequencies`). That property has no constant and no state but the channel number, and the
run takes every channel there is: it is no small instance, and a proof would
evaluate the same tables again. Every other invariant and action property of a passing run is
a theorem.

The specifications proved about are those of the modules (`WaveSpec`, `ProgramSpec`, `DescSpec`,
`TuneSpec`, `Spec`); `MCSpec` of `MCBoards` only puts them side by side.

## 5. What is left

1. The start-up of the PT3's tuners (`pt3_qm_init`, `init_tuner`, `tuner_power_on`) transfer
   by transfer, with the failures that end it.
2. The signal sysctls beside a tuning of the same stream.
3. A PT3 program that does not fit its buffer, if one is ever made so long.

## 6. Not modelled

The Linux branches of `pt3_pci.c`. The unlocking of the FPGA at start-up (`xc3s_init`,
`i2c_lock`, `i2c_unlock`) and the initialisation of tuners and demodulators, which are single
steps of attach that may fail: register values sent to chips, data without
behaviour. `pt3_i2c_reset`, `pt3_i2c_is_clean`. The signal sysctls and what they read
(`get_cn_agc` and the like), which change nothing but statistics; the statistics
counters themselves, written and printed and never decided on. Printing.
