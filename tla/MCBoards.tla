----------------------------- MODULE MCBoards ------------------------------
(***************************************************************************)
(* For TLC: six parts that share no state, one to a behaviour.  The        *)
(* waveforms of a PT1/PT2 are played, the programs two threads run on a    *)
(* PT3 are played, the tables are gone through, channel by channel, chains *)
(* of descriptors are made, cards are attached and detached, and the       *)
(* sysctls of a stream are called.                                         *)
(***************************************************************************)
EXTENDS PtxWave, PtxLife, Pt3Descriptors, Pt3Program, PtxTune

VARIABLES
    part, item      \* what the behaviour is about; the channel it is at

Tables == INSTANCE Frequencies

MCPrograms == {
    << [op |-> "tc_write", tc |-> 17, addr |-> 30, data |-> <<16, 3>>],
       [op |-> "sleep", size |-> 1] >>,
    << [op |-> "tc_read", tc |-> 19, addr |-> 197, size |-> 4],
       [op |-> "sleep", size |-> 2] >>,
    << [op |-> "read_tuner_without_addr", tc |-> 17, tuner |-> 99, size |-> 1] >>,
    << [op |-> "write_tuner_without_addr", tc |-> 17, tuner |-> 98,
        data |-> <<1, 0, 19, 0>>] >>,
    << [op |-> "write_tuner", tc |-> 17, tuner |-> 99, addr |-> 1, data |-> <<12>>],
       [op |-> "sleep", size |-> 1],
       [op |-> "read_tuner", tc |-> 17, tuner |-> 99, addr |-> 0, size |-> 1] >> }

MCValues ==
    {<<0>>, <<255>>, <<129, 90>>, <<1, 128, 37>>, [i \in 1 .. 16 |-> 16 * i - 7]}

(* 799 is what the smaller of the two buffers of the code has.               *)
MCAmounts == 0 .. 40 \cup {203, 204, 205, 799}

MCInit ==
    /\ part \in {"waves", "programs", "tables", "ring", "life", "tune"}
    /\ item = 0
    /\ WaveInit /\ (part # "waves" => request = CHOOSE r \in Requests : TRUE)
    /\ ProgramInit
    /\ DescInit /\ (part # "ring" => amount = 0 /\ page_size = 4096)
    /\ Init /\ (part # "life" => card = "PT1")
    /\ TuneInit /\ (part # "tune" => type = "S" /\ cardtype = "PT1" /\ tunings = 0)

MCNext ==
    \/ /\ part = "waves"
       /\ WaveNext
       /\ UNCHANGED <<part, item, programVars, descVars, vars, tuneVars>>
    \/ /\ part = "programs"
       /\ ProgramNext
       /\ UNCHANGED <<part, item, waveVars, descVars, vars, tuneVars>>
    \/ /\ part = "tables"
       /\ item < 112 /\ item' = item + 1
       /\ UNCHANGED <<part, waveVars, programVars, descVars, vars, tuneVars>>
    \/ /\ part = "ring"
       /\ DescNext
       /\ UNCHANGED <<part, item, waveVars, programVars, vars, tuneVars>>
    \/ /\ part = "life"
       /\ Next
       /\ UNCHANGED <<part, item, waveVars, programVars, descVars, tuneVars>>
    \/ /\ part = "tune"
       /\ TuneNext
       /\ UNCHANGED <<part, item, waveVars, programVars, descVars, vars>>

MCSpec ==
    MCInit /\ [][MCNext]_<<part, item, waveVars, programVars, descVars, vars, tuneVars>>

-----------------------------------------------------------------------------
(* Every channel leads to its transponder or frequency, the same on both     *)
(* boards, and the PT3's two tables, as far as they go (satellite channels 0 *)
(* to 23, terrestrial ones 0 to 111), hold what belongs to it (Frequencies). *)
ChannelsAreRight ==
    part = "tables" =>
        /\ item \in Tables!SatelliteChannels => Tables!SatelliteChannelIsRight(item)
        /\ Tables!TerrestrialChannelIsRight(item)
        /\ item < Len(Tables!SD_TABLE) => Tables!SynthesizerIsRight(item)
        /\ item < Len(Tables!REAL_TABLE) => Tables!RealFreqIsRight(item)

(* For every channel there is the PT3 reads, from its two tables, the        *)
(* synthesizer setting and the frequency that the comments beside the        *)
(* readings compute (qm_tuning, pt3_mx_set_frequency).                       *)
TablesAreWhole ==
    part = "tables" =>
        /\ item \in Tables!SatelliteChannels => Tables!SynthesizerIsRight(item)
        /\ Tables!RealFreqIsRight(item)
=============================================================================
