---------------------------- MODULE StructLayout ----------------------------
(***************************************************************************)
(* Where the compiler puts the members of the packet structs that have     *)
(* more than one version (rawdata.h, rawio_versions.h), under the x86-64   *)
(* System V rules the library is built for.  Positions are in bits.        *)
(***************************************************************************)
EXTENDS Integers, Sequences, FiniteSets, FiniteSetsExt

(* A member: its name, its bits, the alignment of its type and whether it  *)
(* is a bit-field, which shares the unit of the one before if it fits.     *)
Member(name, bits, unit, packed) ==
    [name |-> name, bits |-> bits, unit |-> unit, packed |-> packed]

Block(name, bytes, align)   == Member(name, 8 * bytes, 8 * align, FALSE)
BitField(name, bits, bytes) == Member(name, bits, 8 * bytes, TRUE)
Scalars(bytes, names) == [i \in DOMAIN names |-> Block(names[i], bytes, bytes)]
BitFields(bytes, bits, names) ==
    [i \in DOMAIN names |-> BitField(names[i], bits, bytes)]

RoundUp(n, unit) == ((n + unit - 1) \div unit) * unit

Start(at, m) == IF m.packed /\ (at % m.unit) + m.bits <= m.unit
                THEN at ELSE RoundUp(at, m.unit)

Ends(struct) ==
    LET end[i \in 0 .. Len(struct)] ==
            IF i = 0 THEN 0 ELSE Start(end[i - 1], struct[i]) + struct[i].bits
    IN  end

NamesOf(struct) == {struct[i].name : i \in DOMAIN struct}

Layout(struct) ==
    LET end == Ends(struct)
        place(i) == [first |-> Start(end[i - 1], struct[i]), upto |-> end[i]]
    IN  [name \in NamesOf(struct) |->
            place(CHOOSE i \in DOMAIN struct : struct[i].name = name)]

SizeOf(struct) ==
    RoundUp(Ends(struct)[Len(struct)], Max({struct[i].unit : i \in DOMAIN struct}))

-----------------------------------------------------------------------------
(* The structs.  Runs of members that no version splits are one member.    *)

Time(name) == Block(name, 8, 8)
Waveform(name) == Block(name, 2052, 2)           \* pueo_waveform_t

EventWords == Scalars(4, <<"run", "event", "event_second", "event_time",
                           "last_pps", "llast_pps">>)
TriggerMeta == <<Block("trigger_meta", 16, 4)>>
DeadTimes == Scalars(4, <<"deadtime_counter", "deadtime_counter_last_pps",
                          "deadtime_counter_llast_pps">>)
Trigger == <<BitField("L2_mask", 24, 4)>>
    \o BitFields(4, 1, <<"soft_trigger", "pps_trigger", "ext_trigger">>)
    \o <<BitField("reserved", 5, 4)>>
EventHead == EventWords \o DeadTimes \o Trigger \o <<Time("readout_time")>>

Waveforms == Block("wfs", 224 * 2052, 2)     \* PUEO_NCHAN of them

FullWaveforms == <<EventWords \o TriggerMeta \o <<Waveforms>>,
                   EventHead \o <<Waveforms>>>>

Priority == Block("prio", 2, 2)

SingleWaveform == <<EventWords \o TriggerMeta \o <<Waveform("wf")>>,
                    EventHead \o <<Waveform("wf")>>,
                    EventHead \o <<Priority, Waveform("wf")>>>>

SlowHead == Scalars(2, <<"ncmds", "time_since_last_cmd">>)
    \o <<BitField("last_cmd", 8, 4), BitField("sipd_uptime", 24, 4)>>
    \o Scalars(4, <<"cpu_time">>) \o <<BitField("cpu_uptime", 24, 4)>>
    \o BitFields(4, 1, <<"can_ping_world", "starlink_on", "los_on">>)

Run == Scalars(2, <<"current_run", "current_run_secs">>)

Slow == <<SlowHead \o Run \o Scalars(4, <<"current_run_events">>)
              \o <<Block("L1_rates", 24, 2), Block("L2_rates", 12, 1)>>,
          SlowHead
              \o BitFields(4, 1, <<"gpu_present", "nic_present", "turf_seen",
                                   "hsk_seen", "ss_seen">>)
              \o Run \o <<BitField("current_run_events", 24, 4)>>
              \o BitFields(4, 1, <<"acqd_running", "prioritizerd_running">>)
              \o BitFields(4, 24, <<"current_run_rf_events", "hsk_uptime">>)
              \o <<Block("L2_rates", 48, 2), Block("pals", 4, 2),
                   Block("ssd", 8, 8), Block("nav", 4, 4)>>
              \o Scalars(1, <<"NIC_temperature", "SFC_temperature">>)
              \o BitFields(4, 11, <<"pwr_from_sun", "pwr_usage">>)
              \o <<BitField("battery_state", 3, 4), BitField("AMPA_current", 4, 4)>>
              \o BitFields(4, 1, <<"VPol_Crate_on", "HPol_Crate_on",
                                   "SFC_Voltage_on">>)
              \o Scalars(1, <<"VPol_Current", "HPol_Current", "SFC_Current">>)>>

(* Appended to both housekeeping packets.                                  *)
Turf == <<Block("turfio_words_recv", 16, 4)>>
    \o Scalars(4, <<"qwords_sent", "events_sent", "trigger_count",
                    "current_second", "last_pps", "llast_pps", "last_dead",
                    "llast_dead", "panic_count", "occupancy">>)
    \o Scalars(2, <<"ack_count", "latency", "offset", "pps_trig_offset">>)

DaqHead == <<Block("surfs", 28 * 448, 8), Time("l2_readout_time"),
             Block("Hscalers", 48, 4), Block("Vscalers", 48, 4),
             Time("scaler_readout_time"), Block("turfio_L1_rate", 112, 4)>>
    \o Scalars(4, <<"soft_rate", "pps_rate", "ext_rate">>)
Totals == Scalars(2, <<"MIE_total_H", "MIE_total_V", "LF_total_H",
                       "LF_total_V", "aux_total", "global_total">>)
EnableMask == Scalars(4, <<"l2_enable_mask">>)

DaqHsk == <<DaqHead, DaqHead \o Totals, DaqHead \o Totals \o EnableMask,
            DaqHead \o Totals \o EnableMask \o Turf>>

SummaryHead == <<Block("surf", 26 * 48 * 4, 4), Block("Hscalers_avg", 12, 1),
                 Block("Vscalers_avg", 12, 1)>>
    \o BitFields(8, 9, <<"MIE_total_H_avg", "MIE_total_V_avg">>)
    \o <<BitField("aux_total_avg", 6, 8), BitField("pps_rate", 2, 8)>>
    \o BitFields(8, 10, <<"global_total_avg", "global_total_min",
                          "global_total_max">>)
    \o <<BitField("global_total_rms", 8, 8)>>
    \o Scalars(4, <<"start_second", "end_second">>)
Fraction == <<Block("enable_mask_fraction", 26, 1)>>

DaqHskSummary == <<SummaryHead, SummaryHead \o Fraction,
                   SummaryHead \o Fraction \o Turf>>

(* Structs[t][v + 1] is pueo_t_v_t, the last one the current struct.       *)
Structs == [full_waveforms |-> FullWaveforms, single_waveform |-> SingleWaveform,
            slow |-> Slow, daq_hsk |-> DaqHsk, daq_hsk_summary |-> DaqHskSummary]

Versioned == DOMAIN Structs
WaveTypes == {"full_waveforms", "single_waveform"}

Current(t) == Len(Structs[t]) - 1            \* the macro PUEO_X_VER

Layouts == [t \in Versioned |->
               [v \in 0 .. Current(t) |-> Layout(Structs[t][v + 1])]]
Sizes == [t \in Versioned |->
             [v \in 0 .. Current(t) |-> SizeOf(Structs[t][v + 1])]]

(* pueo_X_size: the size of a version, -1 for one that is not known.       *)
SizeOfVersion(t, v) == IF v \in 0 .. Current(t) THEN Sizes[t][v] ELSE -1

NewNames(t) == DOMAIN Layouts[t][Current(t)]
OldNames(t, v) == DOMAIN Layouts[t][v]

-----------------------------------------------------------------------------
(* What bits written as one struct are when they are read as another.      *)

(* Two members have bits in common; none is empty.                         *)
Overlap(a, b) == a.first < b.upto /\ b.first < a.upto

(* Members of version v that share bits with a member of the current one.  *)
Sources(t, v, name) ==
    {old \in OldNames(t, v) :
        Overlap(Layouts[t][v][old], Layouts[t][Current(t)][name])}

(* Among the bits below a limit, some belong to no member of version v.    *)
(* The first of them is where the member begins or where an old one ends.  *)
FromPadding(t, v, name, limit) ==
    LET place == Layouts[t][Current(t)][name]
        olds == {Layouts[t][v][old] : old \in OldNames(t, v)}
    IN  \E bit \in {place.first} \cup {old.upto : old \in olds} :
            /\ place.first <= bit /\ bit < place.upto /\ bit < limit
            /\ \A old \in olds : bit < old.first \/ old.upto <= bit

Beyond(t, name, limit) == Layouts[t][Current(t)][name].upto > limit
=============================================================================
