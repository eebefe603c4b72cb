------------------------------ MODULE PtxLife ------------------------------
(***************************************************************************)
(* Attaching and detaching a card: what is made, in which order, what is   *)
(* taken down again when a step fails or the driver is detached, and who   *)
(* uses what meanwhile: users of the devices, who come as soon as there    *)
(* are devices, and the daemon.                                            *)
(*                                                                         *)
(* Attach and detach are sequences of steps, made by operators named after *)
(* the functions of the code.  A thing is a tuple: its kind, and which of  *)
(* its kind it is.                                                         *)
(***************************************************************************)
EXTENDS Integers, Sequences, SequencesExt

CONSTANTS
    Tuners,         \* of a card (2)
    Rings,          \* DMA_VIRTUAL_COUNTXSIZE; at PT3s, pages of descriptors
    Pages,          \* DMA_BUFFER_PAGE_COUNT; at PT3s, blocks of a channel
    MaxAttach       \* bound: attachments, one after the other

ASSUME PtxLifeAssumption == Tuners \in Nat /\ Rings \in Nat /\ Pages \in Nat

VARIABLES
    card,           \* "PT1" (or PT2, no difference here) or "PT3", for good
    phase,          \* "out", "attaching", "in", "failing", "detaching", "dead"
    todo,           \* the steps of attach or detach that are still to come
    made,           \* the things there are
    mapped,         \* pages with a bus address (pa)
    procrun,        \* the daemon may run
    daemons,        \* which attachments' daemons are running
    attached,       \* bound: how many attachments there were
    failed,         \* history: a step of this attachment failed
    lost,           \* history: pages that got no address
    stray           \* history: things that somebody reached for in vain

vars == <<card, phase, todo, made, mapped, procrun, daemons, attached,
          failed, lost, stray>>

-----------------------------------------------------------------------------
(* Steps.  Each says what it uses; err names what follows if it fails.       *)

Step(do, x, uses, err) == [do |-> do, x |-> x, uses |-> uses, err |-> err]

Make(x, uses, err)  == Step("make", x, uses, err)
Alloc(x, tag, err)  == Step("alloc", x, {tag}, err)
Try(uses, err)      == Step("try", <<>>, uses, err)
Set(x)              == Step("set", x, {}, "never")
Use(uses)           == Step("use", <<>>, uses, "never")
Free(x)             == Step("free", x, {}, "never")
FreePage(x, tag)    == Step("unmap", x, {tag}, "never")
Proc(what)          == Step(what, <<>>, {}, "never")

For(n, Op(_)) == FlattenSeq([i \in 1 .. n |-> Op(i)])

mem   == <<"res_memory">>
mem3  == <<"pt3_res_memory">>
lock  == <<"lock">>         \* scp->lock, for the I2C bus
dmat  == <<"dmat">>
dmat3 == <<"pt3_dmat">>
i2c   == <<"i2c">>
nodes == <<"sysctl">>

Streams == 2 * Tuners       \* MAX_STREAM, MAX_CHANNEL

-----------------------------------------------------------------------------
(* PT1 and PT2.                                                              *)

(* Mutant: the device is there before what its users need. *)
DeviceFirst(s) ==
    << Set(<<"dev", s>>), Set(<<"drv", s>>),
       Make(<<"buf", s>>, {}, "detach"), Set(<<"stream lock", s>>),
       Use({mem, lock}) >>

(* One stream: its buffer, its lock with both condition variables, its       *)
(* device, what the device leads to, and the tuner is put to sleep.          *)
attach_stream(s) ==
    << Make(<<"buf", s>>, {}, "detach"), Set(<<"stream lock", s>>),
       Set(<<"dev", s>>), Set(<<"drv", s>>),
       Use({mem, lock}) >>

attach_tuner(t) ==
    << Try({mem, lock}, "detach") >> \o attach_stream(2 * t - 1) \o attach_stream(2 * t)

(* The pages of addresses, then for each of them the pages of data. *)
ptx_dma_init ==
    LET Ring(r)    == << Alloc(<<"ring", r>>, dmat, "detach") >>
        Data(r, d) == << Alloc(<<"data", r, d>>, dmat, "detach"),
                         Use({<<"ring", r>>, <<"data", r, d>>}) >>
        Fill(r)    == LET Page(d) == Data(r, d) IN For(Pages, Page)
    IN  For(Rings, Ring) \o << Use({<<"ring", r>> : r \in 1 .. Rings}) >> \o For(Rings, Fill)

attach12 ==
    << Try({mem}, "detach"), Use({mem}), Set(lock) >>
    \o For(Tuners, attach_tuner)
    \o << Make(dmat, {}, "detach"), Set(nodes) >>
    \o ptx_dma_init
    \o << Step("daemon", <<>>, {}, "detach"), Proc("run") >>

(* Mutant: the pages of addresses are forgotten. *)
FreeDataOnly ==
    LET Free1(r) == LET Data(d) == << FreePage(<<"data", r, d>>, dmat) >>
                    IN  For(Pages, Data)
    IN  For(Rings, Free1)

ptx_dma_free ==
    LET Free1(r) == LET Data(d) == << FreePage(<<"data", r, d>>, dmat) >>
                    IN  For(Pages, Data) \o << FreePage(<<"ring", r>>, dmat) >>
    IN  For(Rings, Free1)

detach12 ==
    LET Stream(s) == << Free(<<"stream lock", s>>), Free(<<"buf", s>>), Free(<<"dev", s>>) >>
    IN  << Proc("stop"), Use({mem}) >> \o ptx_dma_free \o For(Streams, Stream)
        \o << Use({mem}), Free(dmat), Free(lock), Free(mem) >>

-----------------------------------------------------------------------------
(* PT3.                                                                      *)

(* What drives one tuner; no failure is looked for where it is made. *)
Parts(t) == {<<"tc_s", t>>, <<"qm", t>>, <<"tc_t", t>>, <<"mx", t>>}

(* Whoever commands it needs the bus as well. *)
Commands(t) == Parts(t) \cup {i2c, mem, mem3, lock}

TunerOf(c) == ((c - 1) % Tuners) + 1

create_pt3_dma(c) ==
    LET Block(p) == << Alloc(<<"data", c, p>>, dmat3, "create") >>
        Desc(r)  == << Alloc(<<"ring", c, r>>, dmat, "create") >>
    IN  << Make(<<"dma", c>>, {}, "create"), Set(<<"dma lock", c>>),
           Make(<<"ts_info", c>>, {}, "create") >>
        \o For(Pages, Block)
        \o << Make(<<"desc_info", c>>, {}, "create") >>
        \o For(Rings, Desc)
        \o << Use({<<"ring", c, r>> : r \in 1 .. Rings}) >>

pt3_init ==
    LET Drive(t)   == << Make(<<"tc_s", t>>, {}, "none"), Make(<<"qm", t>>, {}, "none"),
                         Make(<<"tc_t", t>>, {}, "none"), Make(<<"mx", t>>, {}, "none") >>
        Channel(c) == << Make(<<"channel", c>>, {}, "dma") >> \o create_pt3_dma(c)
                      \o << Set(<<"dev", c>>), Set(<<"drv", c>>) >>
    IN  << Make(mem3, {}, "detach"), Try({mem}, "detach"), Make(i2c, {}, "none"),
           Set(lock), Use({mem}) >>
        \o For(Tuners, Drive)
        \o << Try(UNION {Commands(t) : t \in 1 .. Tuners}, "i2c"),
              Make(dmat, {}, "i2c"), Make(dmat3, {}, "i2c") >>
        \o For(Streams, Channel)
        \o << Set(nodes) >>

free_pt3_dma(c) ==
    LET Block(p) == << FreePage(<<"data", c, p>>, dmat3) >>
        Desc(r)  == << FreePage(<<"ring", c, r>>, dmat) >>
    IN  For(Pages, Block) \o << Free(<<"ts_info", c>>) >>
        \o For(Rings, Desc) \o << Free(<<"desc_info", c>>), Free(<<"dma", c>>) >>

pt3_exit ==
    LET Quiet(c) ==
            << Use({<<"dev", c>>, <<"drv", c>>, lock, <<"channel", c>>, <<"dma", c>>, mem}),
               Use(Commands(TunerOf(c))) >>
        Drive(t) ==
            << Free(<<"tc_s", t>>), Use({<<"tc_t", t>>, i2c, mem, mem3, lock}),
               Free(<<"tc_t", t>>), Free(<<"qm", t>>), Free(<<"mx", t>>) >>
        Channel(c) ==
            << Use({<<"dev", c>>, <<"drv", c>>, <<"channel", c>>}) >>
            \o free_pt3_dma(c) \o << Free(<<"dev", c>>) >>
    IN  For(Streams, Quiet) \o << Use({mem}) >> \o For(Tuners, Drive)
        \o For(Streams, Channel)
        \o << Use({i2c, mem}), Free(i2c), Free(lock) >>

(* The error paths of pt3_init. *)
out_err_i2c ==
    LET Drive(t) == << Free(<<"tc_s", t>>), Free(<<"qm", t>>),
                       Free(<<"tc_t", t>>), Free(<<"mx", t>>) >>
    IN  For(Tuners, Drive) \o << Free(i2c) >>

out_err_dma ==
    LET Channel(c) == << Use({<<"dev", c>>, <<"drv", c>>, <<"channel", c>>}) >>
                      \o free_pt3_dma(c) \o << Free(<<"channel", c>>) >>
    IN  For(Streams, Channel) \o out_err_i2c

-----------------------------------------------------------------------------
(* ptx_attach and ptx_detach.                                                *)

ptx_attach ==
    << Make(mem, {}, "out") >> \o (IF card = "PT3" THEN pt3_init ELSE attach12)

ptx_detach ==
    IF card = "PT3"
    THEN pt3_exit \o << Free(mem), Free(mem3), Free(dmat), Free(dmat3) >>
    ELSE detach12

(* What follows a failed step.  create_pt3_dma first takes down its own.     *)
After(err, x) ==
    CASE err = "out"    -> <<>>
      [] err = "detach" -> ptx_detach
      [] err = "i2c"    -> out_err_i2c \o ptx_detach
      [] err = "dma"    -> out_err_dma \o ptx_detach
      [] err = "create" -> free_pt3_dma(x[2]) \o << Free(<<"channel", x[2]>>) >>
                           \o out_err_dma \o ptx_detach

-----------------------------------------------------------------------------

Init ==
    /\ card \in {"PT1", "PT3"}
    /\ phase = "out" /\ todo = <<>> /\ made = {} /\ mapped = {}
    /\ procrun = FALSE /\ daemons = {} /\ attached = 0
    /\ failed = FALSE /\ lost = {} /\ stray = {}

(* The softc is cleared: nothing remembers what an earlier attachment left. *)
Attach ==
    /\ phase = "out" /\ attached < MaxAttach
    /\ attached' = attached + 1
    /\ phase' = "attaching" /\ todo' = ptx_attach
    /\ made' = {} /\ mapped' = {} /\ procrun' = FALSE
    /\ failed' = FALSE /\ lost' = {}
    /\ UNCHANGED <<card, daemons, stray>>

Detach ==
    /\ phase = "in"
    /\ phase' = "detaching" /\ todo' = ptx_detach
    /\ UNCHANGED <<card, made, mapped, procrun, daemons, attached, failed, lost, stray>>

(* What the next step needs.  free_dmabuf passes over a page that has no     *)
(* address.                                                                  *)
Missing ==
    IF Head(todo).do = "unmap" /\ Head(todo).x \notin mapped THEN {}
    ELSE Head(todo).uses \ made

(* It is taken if that is there; else it is the end of everything. *)
Next1(do) == todo # <<>> /\ Head(todo).do = do /\ Missing = {}

Goes == todo' = Tail(todo) /\ UNCHANGED <<card, phase, attached, failed, stray>>

Crash ==
    /\ todo # <<>> /\ Missing # {}
    /\ stray' = stray \cup Missing
    /\ phase' = "dead" /\ todo' = <<>>
    /\ UNCHANGED <<card, made, mapped, procrun, daemons, attached, failed, lost>>

MakeStep ==
    /\ \E do \in {"make", "set"} : Next1(do)
    /\ made' = made \cup {Head(todo).x}
    /\ Goes /\ UNCHANGED <<mapped, procrun, daemons, lost>>

(* bus_dmamem_alloc and bus_dmamap_load. *)
AllocStep ==
    /\ Next1("alloc")
    /\ made' = made \cup {Head(todo).x} /\ mapped' = mapped \cup {Head(todo).x}
    /\ Goes /\ UNCHANGED <<procrun, daemons, lost>>

UseStep ==
    /\ \E do \in {"use", "try"} : Next1(do)
    /\ Goes /\ UNCHANGED <<made, mapped, procrun, daemons, lost>>

(* A tag with pages of it about is busy, and stays.  A device takes with it  *)
(* what it leads to.                                                         *)
FreeStep ==
    /\ Next1("free")
    /\ LET x == Head(todo).x
       IN  made' = made \ (IF x \in {dmat, dmat3} /\ lost # {} THEN {}
                           ELSE IF x[1] = "dev" THEN {x, <<"drv", x[2]>>} ELSE {x})
    /\ Goes /\ UNCHANGED <<mapped, procrun, daemons, lost>>

(* free_dmabuf. *)
UnmapStep ==
    /\ Next1("unmap")
    /\ made' = made \ ({Head(todo).x} \cap mapped)
    /\ mapped' = mapped \ {Head(todo).x}
    /\ Goes /\ UNCHANGED <<procrun, daemons, lost>>

(* A step fails; what has been made is taken down. *)
FailStep ==
    /\ \E do \in {"make", "alloc", "try", "daemon"} : Next1(do)
    /\ LET step == Head(todo)
       IN  IF step.err = "none"
           THEN todo' = Tail(todo) /\ UNCHANGED phase
           ELSE todo' = After(step.err, step.x) /\ phase' = "failing"
    /\ failed' = TRUE
    /\ UNCHANGED <<card, made, mapped, procrun, daemons, attached, lost, stray>>

(* The page is there and has no address. *)
FailLoad ==
    /\ Next1("alloc")
    /\ made' = made \cup {Head(todo).x} /\ lost' = {Head(todo).x}
    /\ todo' = After(Head(todo).err, Head(todo).x) /\ phase' = "failing"
    /\ failed' = TRUE
    /\ UNCHANGED <<card, mapped, procrun, daemons, attached, stray>>

(* ptx_proc_start, ptx_proc_stop: nobody waits for the daemon to leave. *)
ProcStep ==
    /\ \/ Next1("daemon") /\ daemons' = daemons \cup {attached} /\ UNCHANGED procrun
       \/ Next1("run")    /\ procrun' = TRUE  /\ UNCHANGED daemons
       \/ Next1("stop")   /\ procrun' = FALSE /\ UNCHANGED daemons
    /\ Goes /\ UNCHANGED <<made, mapped, lost>>

(* Done.  The nodes of the sysctls go with the device (external). *)
End ==
    /\ todo = <<>> /\ phase \in {"attaching", "failing", "detaching"}
    /\ phase' = IF phase = "attaching" THEN "in" ELSE "out"
    /\ made' = IF phase = "attaching" THEN made ELSE made \ {nodes}
    /\ UNCHANGED <<card, todo, mapped, procrun, daemons, attached, failed, lost, stray>>

-----------------------------------------------------------------------------
(* The others.  What they reach for while things are taken down is another   *)
(* matter: nothing keeps them out.                                           *)

Watched == phase \in {"attaching", "in"}

Reach(uses) ==
    /\ Watched /\ stray' = stray \cup (uses \ made)
    /\ UNCHANGED <<card, phase, todo, made, mapped, procrun, daemons, attached, failed, lost>>

(* An open, a read, a tuning: of a device that leads to its stream, through  *)
(* the file or the sysctl.                                                   *)
UserCalls ==
    \E s \in 1 .. Streams :
        /\ <<"dev", s>> \in made /\ <<"drv", s>> \in made
        /\ Reach({mem, lock} \cup
                 IF card = "PT3"
                 THEN {<<"channel", s>>, <<"dma", s>>, <<"dma lock", s>>}
                      \cup {<<"data", s, p>> : p \in 1 .. Pages} \cup Commands(TunerOf(s))
                 ELSE {<<"buf", s>>, <<"stream lock", s>>})

(* The tuning sysctls take every device for granted. *)
SysctlCalls ==
    /\ nodes \in made
    /\ Reach({mem, lock} \cup {<<"dev", s>> : s \in 1 .. Streams}
                         \cup {<<"drv", s>> : s \in 1 .. Streams})

(* Numbered pages of DMA memory. *)
Blocks(kind, n, m) == {<<kind, i, j>> : i \in 1 .. n, j \in 1 .. m}

(* ptx_daemon empties pages into the buffers and restarts the board. *)
DaemonUses ==
    {mem} \cup {<<"ring", r>> : r \in 1 .. Rings}
          \cup Blocks("data", Rings, Pages)
          \cup {<<"buf", s>> : s \in 1 .. Streams}
          \cup {<<"stream lock", s>> : s \in 1 .. Streams}

DaemonWorks == attached \in daemons /\ Reach(DaemonUses)

DaemonLeaves ==
    /\ ~ procrun
    /\ \E d \in daemons : daemons' = daemons \ {d}
    /\ UNCHANGED <<card, phase, todo, made, mapped, procrun, attached, failed, lost, stray>>

Next ==
    \/ Attach \/ Detach \/ End
    \/ MakeStep \/ AllocStep \/ UseStep \/ FreeStep \/ UnmapStep \/ ProcStep
    \/ FailStep \/ FailLoad \/ Crash
    \/ UserCalls \/ SysctlCalls \/ DaemonWorks \/ DaemonLeaves

Spec == Init /\ [][Next]_vars

-----------------------------------------------------------------------------
(* Known exceptions.  A page whose mapping fails is not freed, and keeps its *)
(* tag; the channels of a PT3 and the locks of their DMA are never freed.    *)
Excepted(x) ==
    \/ x \in lost \/ (lost # {} /\ x \in {dmat, dmat3})
    \/ x[1] \in {"channel", "dma lock"}

(* When attach has failed or detach is done, nothing that attach made is     *)
(* left, wherever it failed (ptx_attach, ptx_detach, pt3_exit).              *)
NothingRemains ==
    phase = "out" => \A x \in made : Excepted(x)

(* Attach and detach use nothing before it is made or after it is gone, and  *)
(* what users and the daemon need is there from the moment they can come     *)
(* until detach begins.  This says nothing of a PT3 whose attach failed.     *)
OnlyWhatIsThere ==
    ~ (card = "PT3" /\ failed) => stray = {}
=============================================================================
