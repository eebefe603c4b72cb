---------------------------- MODULE Frequencies ----------------------------
(***************************************************************************)
(* Channel numbers turned into frequencies, by the drivers of both boards: *)
(* tables and integer arithmetic.  The PT1/PT2 keep one table of dividers  *)
(* and compute another; the PT3 keeps two tables and computes the rest.    *)
(* The last part compares them with each other, with the formulas the code *)
(* gives for its tables in comments and disabled branches, and with the    *)
(* channel plan.                                                           *)
(***************************************************************************)
EXTENDS Integers, Sequences, SequencesExt

(* Channels of the two services: those the PT1/PT2 accept.  The PT3 looks at *)
(* no bound.                                                                 *)
SatelliteChannels   == 0 .. 35
TerrestrialChannels == 0 .. 112

(* What reading a table at a channel may give: behind its last row whatever  *)
(* words lie there, for which a set of two stands.                           *)
RowsRead(table, channel, behind) ==
    IF channel < Len(table) THEN {table[channel + 1]} ELSE behind

-----------------------------------------------------------------------------
(* Satellite, PT1/PT2 (ptx_tuner_data.h).  Per channel: the divider word and *)
(* the band byte of the first command, the band byte of the third.           *)

(* BS-1, BS-3 .. BS-23. *)
BsSteps ==
    <<
      <<18473, 210, 214>>, <<17472, 226, 230>>, <<17510, 226, 230>>, <<17549, 32, 36>>,
      <<17587, 32, 36>>, <<17625, 32, 36>>, <<17664, 32, 36>>, <<17702, 64, 68>>,
      <<17740, 64, 68>>, <<17779, 64, 68>>, <<17817, 64, 68>>, <<17855, 96, 100>> >>

(* ND-2, ND-4 .. ND-24. *)
NdEvenSteps ==
    <<
      <<17997, 96, 100>>, <<18037, 128, 132>>, <<18077, 128, 132>>, <<18117, 128, 132>>,
      <<18157, 128, 132>>, <<18197, 160, 164>>, <<18237, 160, 164>>, <<18277, 160, 164>>,
      <<18317, 160, 164>>, <<18357, 192, 196>>, <<18397, 192, 196>>, <<18437, 192, 196>> >>

(* ND-1, ND-3 .. ND-23. *)
NdOddSteps ==
    <<
      <<17977, 96, 100>>, <<18017, 128, 132>>, <<18057, 128, 132>>, <<18097, 128, 132>>,
      <<18137, 128, 132>>, <<18177, 160, 164>>, <<18217, 160, 164>>, <<18257, 160, 164>>,
      <<18297, 160, 164>>, <<18337, 160, 164>>, <<18377, 192, 196>>, <<18417, 192, 196>> >>

(* The table, in the order of the channel numbers. *)
bs_pll(channel) == (BsSteps \o NdEvenSteps \o NdOddSteps)[channel + 1]

-----------------------------------------------------------------------------
(* Satellite, PT3 (pt3_qm.c).                                                *)

(* pt3_qm_get_channel_freq: in units of 10 kHz. *)
get_channel_freq(channel) ==
    IF channel < 12
      THEN [bs |-> TRUE, number |-> 1 + 2 * channel, freq |-> 104948 + 3836 * channel]
    ELSE IF channel < 24
      THEN [bs |-> FALSE, number |-> 2 + 2 * (channel - 12),
            freq |-> 161300 + 4000 * (channel - 12)]
      ELSE [bs |-> FALSE, number |-> 1 + 2 * (channel - 24),
            freq |-> 159300 + 4000 * (channel - 24)]

(* pt3_qm_set_frequency: in kHz; the two tuners of a board keep apart. *)
FreqKhz(channel, index) ==
    get_channel_freq(channel).freq * 10 + (IF index = 0 THEN -500 ELSE 500)

(* Fraction for tuner 0 and for tuner 1, and the two counters N and A.  The  *)
(* table stops at ND-24, before channel 24, ND-1.                            *)
SD_TABLE ==
    <<
      <<3734241, 3799777, 13, 5>>, <<4151050, 22282, 14, 3>>, <<373555, 439091, 14, 5>>,
      <<3936092, 4001628, 15, 4>>, <<158597, 224133, 15, 6>>, <<3721134, 3786670, 16, 5>>,
      <<4137943, 9175, 17, 3>>, <<360448, 425984, 17, 5>>, <<3922984, 3988520, 18, 4>>,
      <<145489, 211025, 18, 6>>, <<3708026, 3773562, 19, 5>>, <<4124835, 4190371, 20, 3>>,
      <<3964928, 4030464, 22, 4>>, <<294912, 360448, 22, 6>>, <<3964928, 4030464, 23, 5>>,
      <<294912, 360448, 24, 3>>, <<3964928, 4030464, 24, 6>>, <<294912, 360448, 25, 4>>,
      <<3964928, 4030464, 26, 3>>, <<294912, 360448, 26, 5>>, <<3964928, 4030464, 27, 4>>,
      <<294912, 360448, 27, 6>>, <<3964928, 4030464, 28, 5>>, <<294912, 360448, 29, 3>> >>

(* What qm_tuning may take from it: it reads there for every channel.        *)
Synthesizer(channel, index) ==
    {[sd |-> row[index + 1], N |-> row[3], A |-> row[4]] :
        row \in RowsRead(SD_TABLE, channel, {<<0, 0, 0, 0>>, <<1, 1, 1, 1>>})}

(* Upper limits of the bands of the local oscillator, and their codes. *)
QM_FREQ_TABLE ==
    << <<2151000, 1, 7>>, <<1950000, 1, 6>>, <<1800000, 1, 5>>,
       <<1600000, 1, 4>>, <<1450000, 1, 3>>, <<1250000, 1, 2>>,
       <<1200000, 0, 7>>, <<975000, 0, 6>>, <<950000, 0, 0>> >>

(* The rows qm_tuning writes a band for: from the limit of the next one up.  *)
BandRows(khz) ==
    {i \in 1 .. 8 : QM_FREQ_TABLE[i + 1][1] <= khz /\ khz < QM_FREQ_TABLE[i][1]}

-----------------------------------------------------------------------------
(* Terrestrial, PT1/PT2 (ptx_tuner.c).                                       *)

(* Mutant: channels are numbered from 1. *)
GetFrequencyFromOne(channel, addfreq) ==
    LET offset == (IF 12 < channel THEN 2 ELSE 0) - (IF 17 < channel THEN 2 ELSE 0)
                  + (IF 63 < channel THEN 2 ELSE 0)
    IN  (7 * (93 + channel * 6 + offset + addfreq) + 400) % 2 ^ 16

(* getfrequency: in sevenths of a MHz, in sixteen bits, plus 57 MHz and 1/7. *)
getfrequency(channel, addfreq) ==
    LET offset == (IF 12 <= channel THEN 2 ELSE 0) - (IF 17 <= channel THEN 2 ELSE 0)
                  + (IF 63 <= channel THEN 2 ELSE 0)
    IN  (7 * (93 + channel * 6 + offset + addfreq) + 400) % 2 ^ 16

(* Last channel of a range, control word for it. *)
isdb_t_freq_add ==
    << <<7, 32897>>, <<12, 32929>>, <<21, 32866>>, <<39, 32930>>, <<51, 32994>>,
       <<59, 32868>>, <<75, 32900>>, <<84, 32932>>, <<100, 32964>>, <<112, 32996>> >>

(* The first row that reaches the channel. *)
RowFor(table, channel) ==
    table[SelectInSeq(table, LAMBDA row : channel <= row[1])]

getfrequency_add(channel) == RowFor(isdb_t_freq_add, channel)[2]

-----------------------------------------------------------------------------
(* Terrestrial, PT3 (pt3_mx.c).                                              *)

(* Last channel of a range, whether it is cable, the number of the last one. *)
MX_FREQ_TABLE ==
    << <<2, 0, 3>>, <<12, 1, 22>>, <<21, 0, 12>>, <<62, 1, 63>>, <<112, 0, 62>> >>

(* pt3_mx_get_channel_frequency: in MHz. *)
get_channel_frequency(channel) ==
    LET offset == (IF 12 <= channel THEN 2 ELSE 0) - (IF 17 <= channel THEN 2 ELSE 0)
                  + (IF 63 <= channel THEN 2 ELSE 0)
        row    == RowFor(MX_FREQ_TABLE, channel)
    IN  [freq |-> 93 + channel * 6 + offset, catv |-> row[2] = 1,
         number |-> channel + row[3] - row[1]]

(* In Hz. *)
REAL_TABLE ==
    <<
      93142857, 99142857, 105142857, 111142857, 117142857, 123142857, 129142857,
      135142857, 141142857, 147142857, 153142857, 159142857, 167142857, 173142857,
      179142857, 185142857, 191142857, 195142857, 201142857, 207142857, 213142857,
      219142857, 225142857, 231142857, 237142857, 243142857, 249142857, 255142857,
      261142857, 267142857, 273142857, 279142857, 285142857, 291142857, 297142857,
      303142857, 309142857, 315142857, 321142857, 327142857, 333142857, 339142857,
      345142857, 351142857, 357142857, 363142857, 369142857, 375142857, 381142857,
      387142857, 393142857, 399142857, 405142857, 411142857, 417142857, 423142857,
      429142857, 435142857, 441142857, 447142857, 453142857, 459142857, 465142857,
      473142857, 479142857, 485142857, 491142857, 497142857, 503142857, 509142857,
      515142857, 521142857, 527142857, 533142857, 539142857, 545142857, 551142857,
      557142857, 563142857, 569142857, 575142857, 581142857, 587142857, 593142857,
      599142857, 605142857, 611142857, 617142857, 623142857, 629142857, 635142857,
      641142857, 647142857, 653142857, 659142857, 665142857, 671142857, 677142857,
      683142857, 689142857, 695142857, 701142857, 707142857, 713142857, 719142857,
      725142857, 731142857, 737142857, 743142857, 749142857, 755142857, 761142857 >>

(* What pt3_mx_set_frequency may take from it: it reads there for every      *)
(* channel.                                                                  *)
RealFreq(channel) == RowsRead(REAL_TABLE, channel, {0, 1})

(* mx_rftune: the frequency in 64ths of a MHz, one bit after the other, and  *)
(* the last half rounded.                                                    *)
mx_rftune(freq) ==
    LET Bit(s, i) ==
            LET half == 1000000 \div 2 ^ i
            IN  IF s[2] > half THEN <<2 * s[1] + 1, s[2] - half>>
                               ELSE <<2 * s[1], s[2]>>
        s == FoldLeft(Bit, <<freq \div 1000000, freq % 1000000>>, <<1, 2, 3, 4, 5, 6>>)
    IN  IF s[2] > 7812 THEN s[1] + 1 ELSE s[1]

(* Frequency in kHz, how far the spur reaches, how to shift it. *)
SHF_DVBT_TAB ==
    << <<64500, 500, 146, 7>>, <<191500, 300, 226, 7>>, <<205500, 500, 44, 4>>,
       <<212500, 500, 30, 4>>, <<226500, 500, 212, 7>>, <<99143, 500, 156, 7>>,
       <<173143, 500, 212, 7>>, <<191143, 300, 212, 7>>, <<207143, 500, 206, 7>>,
       <<225143, 500, 206, 7>>, <<243143, 500, 212, 7>>, <<261143, 500, 212, 7>>,
       <<291143, 500, 212, 7>>, <<339143, 500, 44, 4>>, <<117143, 500, 122, 7>>,
       <<135143, 300, 122, 7>>, <<153143, 500, 1, 7>> >>

(* The rows whose spur reaches a frequency. *)
Spurs(freq) ==
    SelectSeq(SHF_DVBT_TAB,
        LAMBDA row : (row[1] - row[2]) * 1000 <= freq /\ freq <= (row[1] + row[2]) * 1000)

-----------------------------------------------------------------------------
(* What they ought to be.                                                    *)

(* The divider a pair of prescaler counters stands for.  The prescaler is 32 *)
(* but in the lowest band, where it is 16.                                   *)
Divider(word, band) ==
    LET counters  == word - 2 ^ 14
        prescaler == IF band = 210 THEN 16 ELSE 32
    IN  (counters \div 32) * prescaler + (counters % 32)

(* The band bytes in the order of their frequencies. *)
BandOrder == <<210, 226, 32, 64, 96, 128, 160, 192>>

BandRank(band) == IndexFirstSubSeq(<<band>>, BandOrder)

(* The first intermediate frequency of a transponder in kHz: BS-1 at 1049.48 *)
(* MHz and 19.18 MHz per number, ND-1 at 1593 MHz and 20 MHz per number.     *)
Transponder(bs, number) ==
    IF bs THEN 1049480 + 19180 * (number - 1) ELSE 1593000 + 20000 * (number - 1)

Nearest(x, unit) == (x + unit \div 2) \div unit

(* Both drivers give a satellite channel number to the same transponder; the *)
(* PT1/PT2's divider is its frequency in MHz, and the two commands of a      *)
(* channel and the bands of neighbouring frequencies fit together; the PT3   *)
(* has a band for it (ptx_tuner_data.h, pt3_qm_get_channel_freq, qm_tuning). *)
SatelliteChannelIsRight(channel) ==
    LET pll  == bs_pll(channel)
        pt3  == get_channel_freq(channel)
        khz  == Transponder(pt3.bs, pt3.number)
        divr == Divider(pll[1], pll[2])
    IN  /\ pt3.freq * 10 = khz
        /\ divr = Nearest(khz, 1000)
        /\ pll[3] = pll[2] + 4
        /\ \A other \in SatelliteChannels :
             LET o == bs_pll(other)
             IN  divr < Divider(o[1], o[2]) =>
                    BandRank(pll[2]) <= BandRank(o[2])
        /\ \A index \in {0, 1} : BandRows(FreqKhz(channel, index)) # {}

(* What the PT3 reads for a satellite channel is the synthesizer setting the *)
(* comments beside the table compute from its frequency: the nearest         *)
(* multiple a of 16 MHz, counters N and A for it, and 2^20 times the rest    *)
(* (pt3_qm.c, lines 244 to 263).                                             *)
SynthesizerIsRight(channel) ==
    \A index \in {0, 1} : \A setting \in Synthesizer(channel, index) :
        LET f == FreqKhz(channel, index)
            a == Nearest(f, 16000)
            N == (a - 12) \div 4
        IN  setting = [sd |-> (((f - 16000 * a) * 2 ^ 13) \div 125) % 2 ^ 22,
                       N  |-> N, A |-> a - 4 * (N + 1) - 5]

(* The middle of a channel of the plan, in MHz, but for a seventh. *)
Plan(catv, number) ==
    IF catv THEN IF number <= 21 THEN 111 + 6 * (number - 13)
                 ELSE IF number = 22 THEN 167 ELSE 225 + 6 * (number - 23)
    ELSE IF number <= 3 THEN 93 + 6 * (number - 1)
    ELSE IF number <= 7 THEN 173 + 6 * (number - 4)
    ELSE IF number <= 12 THEN 195 + 6 * (number - 8)
    ELSE 473 + 6 * (number - 13)

(* Lower bits: the band; upper bits: the strength that goes with it. *)
ControlRank(word) == (word % 32) * 8 + ((word % 256) \div 32)

(* Both drivers give a terrestrial channel number to the same channel of the *)
(* plan, the PT1/PT2 with the intermediate frequency of 57 MHz added, and    *)
(* control words rise with the frequency (ptx_tuner.c,                       *)
(* pt3_mx_get_channel_frequency).                                            *)
TerrestrialChannelIsRight(channel) ==
    LET pt3 == get_channel_frequency(channel)
        mhz == Plan(pt3.catv, pt3.number)
    IN  /\ pt3.freq = mhz
        /\ getfrequency(channel, 0) = 7 * (mhz + 57) + 1
        /\ channel > 0 => ControlRank(getfrequency_add(channel - 1))
                            <= ControlRank(getfrequency_add(channel))

(* What the PT3 reads for a terrestrial channel is what the comment beside   *)
(* the reading computes, with no offset: (7 * freq + 1) * 1000000 / 7; the   *)
(* word sent to the tuner is its nearest 64th of a MHz, and it has no two    *)
(* spurs (pt3_mx_set_frequency, mx_rftune).                                  *)
RealFreqIsRight(channel) ==
    LET mhz == get_channel_frequency(channel).freq
    IN  \A real \in RealFreq(channel) :
            /\ real = mhz * 1000000 + 1000000 \div 7
            /\ mx_rftune(real) = 64 * mhz + Nearest((real % 1000000) * 64, 1000000)
            /\ Len(Spurs(real)) <= 1
=============================================================================
