------------------------------ MODULE OldData ------------------------------
(***************************************************************************)
(* An archive of packets of any version goes through read-packets.c: every *)
(* packet is read into memory, dumped, inserted into a database and        *)
(* written again, which is always as the current version; the new archive  *)
(* may go through it again.  Memory is what it was before the packet was   *)
(* read into it: read-packets frees it, but malloc may hand out the same   *)
(* or any other.                                                           *)
(*                                                                         *)
(* A value is the set of what its bits came from: <<id, name>> is what the *)
(* packet id was flown with under that name.                               *)
(***************************************************************************)
EXTENDS StructLayout, SensorIds

CONSTANTS
    Archives,    \* the archives flown, sequences of packets of Flown (bound)
    MaxRuns      \* bound: how often an archive goes through the program

ASSUME OldDataAssumption == MaxRuns \in Nat \ {0}

VARIABLES
    file,     \* the archive that is read
    copy,     \* the archive that is written
    mem,      \* packet->payload: [type, at], at[name] a value
    pc,       \* read, dump, insert, write, done
    printed,  \* what the last dump printed
    rows,     \* the rows inserted
    runs      \* how many runs are over

vars == <<file, copy, mem, pc, printed, rows, runs>>

Zero == {<<0, "zero">>}
Junk == {<<0, "junk">>}

-----------------------------------------------------------------------------
(* Packets.                                                                *)

(* The types with a count of the items that follow, and the others, whose  *)
(* one version is read and written whole.                                  *)
Sensors == {"sensors_telem", "sensors_disk"}
Counted == Sensors \cup {"cmd_echo", "file_download", "logs", "nav_sat"}
Whole == {"nav_att", "nav_pos", "ss", "timemark", "startracker",
          "saved_priorities", "prio_status"}

Types == Versioned \cup Counted \cup Whole

CurrentVersion(t) == IF t \in Versioned THEN Current(t)
                     ELSE IF t \in Sensors THEN 1 ELSE 0

(* The members of the struct in memory; "rest" is what lies beyond the     *)
(* counted items, or beyond the length of a waveform.                      *)
Members(t) ==
    CASE t \in WaveTypes -> NewNames(t) \cup {"rest"}
      [] t \in Versioned \ WaveTypes -> NewNames(t)
      [] t \in Counted -> {"head", "items", "rest"}
      [] t \in Whole -> {"all"}

(* The members on the wire.  Version 0 of the sensor packets has all items.*)
WireMembers(t, v) ==
    IF t \in Versioned THEN OldNames(t, v)
    ELSE IF t \in Sensors /\ v = 0 THEN Members(t)
    ELSE Members(t) \ {"rest"}

Packet(id, t, v, magic, sensor, long, at) ==
    [id |-> id, type |-> t, version |-> v, flown |-> v,
     magic |-> magic, sensor |-> sensor, long |-> long, at |-> at]

(* A packet as it was flown; sensor is the id in one of its readings, and  *)
(* long says that the length of one of its waveforms exceeds 1024.         *)
Flown(id, t, v, magic, sensor, long) ==
    Packet(id, t, v, magic, sensor, long,
           [name \in WireMembers(t, v) |-> {<<id, name>>}])

(* An archive holds packets as they were flown, of versions the library    *)
(* knows.  The id 0 stands for what comes from no packet.                  *)
IsFlown(p) == /\ p = Flown(p.id, p.type, p.version, p.magic, p.sensor, p.long)
              /\ p.id \in Nat \ {0} /\ p.type \in Types
              /\ p.version \in 0 .. CurrentVersion(p.type)
              /\ p.long => p.type \in WaveTypes

ASSUME ArchiveAssumption ==
    \A archive \in Archives :
        /\ archive \in Seq({archive[i] : i \in DOMAIN archive})
        /\ \A i \in DOMAIN archive : IsFlown(archive[i])

Pos == Len(copy) + 1
Reading == file[Pos]       \* the packet the program is at

-----------------------------------------------------------------------------
(* The readers, pueo_read_packet_X.                                        *)

(* Mutant: the rest of the struct is left alone.                           *)
ReadSimpleUncleared(p, before) ==
    LET old == SizeOfVersion(p.type, p.version)
    IN  [name \in Members(p.type) |->
            (UNION {p.at[source] : source \in Sources(p.type, p.version, name)})
            \cup (IF FromPadding(p.type, p.version, name, old)
                  THEN {<<p.id, "padding">>} ELSE {})
            \cup (IF Beyond(p.type, name, old) THEN before[name] ELSE {})]

(* SIMPLE_PUEO_I_IMPL: the bytes of the old struct, zeros up to the size   *)
(* of the current one.                                                     *)
ReadSimple(p, before) ==
    LET old == SizeOfVersion(p.type, p.version)
    IN  [name \in Members(p.type) |->
            (UNION {p.at[source] : source \in Sources(p.type, p.version, name)})
            \cup (IF FromPadding(p.type, p.version, name, old)
                  THEN {<<p.id, "padding">>} ELSE {})
            \cup (IF Beyond(p.type, name, old) THEN Zero ELSE {})]

(* Mutants: the last version is taken for the one before it; version 1 for *)
(* version 0.                                                              *)
PrefixOfAll(t, v) ==
    LET at == Layouts[t][Current(t)]
    IN  CASE v = 0 -> at["readout_time"].first
          [] v > 0 /\ t = "single_waveform" -> at["prio"].first
          [] OTHER -> at[IF t = "single_waveform" THEN "wf" ELSE "wfs"].first
PrefixTooShort(t, v) ==
    LET at == Layouts[t][Current(t)]
    IN  CASE v < 2 -> at["readout_time"].first
          [] OTHER -> at[IF t = "single_waveform" THEN "wf" ELSE "wfs"].first

(* How many bits come before the waveforms in a version: up to the first   *)
(* member that the version does not have.                                  *)
Prefix(t, v) ==
    LET at == Layouts[t][Current(t)]
    IN  CASE v = 0 -> at["readout_time"].first
          [] v = 1 /\ t = "single_waveform" -> at["prio"].first
          [] OTHER -> at[IF t = "single_waveform" THEN "wf" ELSE "wfs"].first

(* Mutant: readout_time is not cleared.                                    *)
ReadWavesUncleared(p, before) ==
    [name \in Members(p.type) |->
        IF name \in {"wf", "wfs"} THEN p.at[name]
        ELSE IF name = "rest" THEN before[name]
        ELSE IF ~Beyond(p.type, name, Prefix(p.type, p.version))
             THEN UNION {p.at[s] : s \in Sources(p.type, p.version, name)}
        ELSE before[name]]

(* pueo_read_packet_single_waveform and _full_waveforms: the prefix, the   *)
(* waveforms up to their lengths, and zero in readout_time of version 0.   *)
ReadWaves(p, before) ==
    [name \in Members(p.type) |->
        IF name \in {"wf", "wfs"} THEN p.at[name]
        ELSE IF name = "rest" THEN before[name]
        ELSE IF ~Beyond(p.type, name, Prefix(p.type, p.version))
             THEN UNION {p.at[s] : s \in Sources(p.type, p.version, name)}
        ELSE IF p.version = 0 /\ name = "readout_time" THEN Zero
        ELSE before[name]]

(* The readers of the counted types: as many items as the packet has, then *)
(* zeros; all items of a sensor packet of version 0.                       *)
ReadCounted(p, before) ==
    [name \in Members(p.type) |->
        IF name \in DOMAIN p.at THEN p.at[name] ELSE Zero]

ReadPacket(p, before) ==
    CASE p.type \in WaveTypes -> ReadWaves(p, before)
      [] p.type \in Versioned \ WaveTypes -> ReadSimple(p, before)
      [] OTHER -> ReadCounted(p, before)

-----------------------------------------------------------------------------
(* The dumpers, and the insert functions.                                  *)

(* The members whose values pueo_dump_X prints.                            *)
DumpedEvent == NamesOf(EventHead)
DumpedWaves(t) == DumpedEvent \cup {IF t = "single_waveform" THEN "wf" ELSE "wfs"}

DumpedSlow == NamesOf(SlowHead \o Run) \cup {"current_run_events"}

DumpedSummary == NamesOf(SummaryHead \o Fraction \o Turf)

DumpedHsk == (NamesOf(Turf) \cup {"scaler_readout_time", "l2_readout_time",
                "soft_rate", "pps_rate", "l2_enable_mask", "Hscalers", "Vscalers"})

DumpedCounted == {"head", "items"}
DumpedWhole == {"all"}

Dumped(t) ==
    CASE t \in WaveTypes -> DumpedWaves(t)
      [] t = "slow" -> DumpedSlow
      [] t = "daq_hsk_summary" -> DumpedSummary
      [] t = "daq_hsk" -> DumpedHsk
      [] t \in Counted -> DumpedCounted
      [] t \in Whole -> DumpedWhole

(* The members that the columns of a row are printed from.  Those of a     *)
(* waveform are its extremes and its rms, over all 1024 samples.           *)
RowSlow == NewNames("slow")
RowWaveform == NamesOf(EventWords \o <<Priority>>) \cup {"readout_time", "wf", "rest"}
RowHsk == NewNames("daq_hsk") \ {"surfs", "l2_readout_time"}
RowSummary == NewNames("daq_hsk_summary")

RowMembers(t) ==
    CASE t = "slow" -> RowSlow
      [] t = "single_waveform" -> RowWaveform
      [] t = "daq_hsk" -> RowHsk
      [] t = "daq_hsk_summary" -> RowSummary
      [] t \in Counted -> {"head", "items"}
      [] t \in Whole -> {"all"}

(* The insert functions of these only print a warning.                     *)
NoRow == {"full_waveforms", "sensors_disk", "nav_sat", "file_download",
          "saved_priorities"}

Values(names) == [name \in names |-> mem.at[name]]

(* What lies behind the 1024 samples of a waveform: the memory behind the  *)
(* packet, and for one of many channels the waveforms of the next.         *)
PastSamples(t) ==
    Junk \cup (IF t = "full_waveforms" THEN mem.at["wfs"] \cup mem.at["rest"] ELSE {})

(* What the dump of a packet shows: pueo_dump_waveform goes on to the      *)
(* length that the waveform has, which is cut neither here nor when read.  *)
Shown(p) ==
    [name \in Dumped(p.type) |->
        mem.at[name] \cup (IF p.long /\ name \in {"wf", "wfs"}
                           THEN PastSamples(p.type) ELSE {})]

(* The magic number and the id in memory: the packet's, or cleared.        *)
MagicIn(p) == IF mem.at["head"] = {<<p.id, "head">>} THEN p.magic ELSE 0
SensorIn(p) == IF mem.at["items"] = {<<p.id, "items">>} THEN p.sensor ELSE 0

(* Mutant: the table of today whatever the packet says.                    *)
PlainNamed(p) == IF p.type \in Sensors THEN PlainLookup(SensorIn(p)) ELSE NoSensor

(* Who a reading is said to be from, in a dump or a row.                   *)
Named(p) == IF p.type \in Sensors THEN CompatLookup(SensorIn(p), MagicIn(p))
            ELSE NoSensor

-----------------------------------------------------------------------------
(* main.                                                                   *)

Nothing == [type |-> "none", at |-> <<>>]

Init == /\ file \in Archives
        /\ copy = <<>> /\ mem = Nothing /\ pc = "read"
        /\ printed = [sensor |-> NoSensor, at |-> <<>>]
        /\ rows = <<>> /\ runs = 0

(* pueo_ll_read_realloc of a null pointer.                                 *)
Read ==
    /\ pc = "read" /\ Pos <= Len(file)
    /\ \E before \in {[name \in Members(Reading.type) |-> Junk]}
                     \cup {m.at : m \in {n \in {mem} : n.type = Reading.type}} :
          mem' = [type |-> Reading.type, at |-> ReadPacket(Reading, before)]
    /\ pc' = "dump"
    /\ UNCHANGED <<file, copy, printed, rows, runs>>

(* pueo_dump_packet.                                                       *)
Dump ==
    /\ pc = "dump"
    /\ printed' = [sensor |-> Named(Reading), at |-> Shown(Reading)]
    /\ pc' = "insert"
    /\ UNCHANGED <<file, copy, mem, rows, runs>>

(* pueo_db_insert_packet.                                                  *)
Insert ==
    /\ pc = "insert"
    /\ rows' = IF Reading.type \in NoRow THEN rows
               ELSE Append(rows, [packet |-> Pos, sensor |-> Named(Reading),
                                  at |-> Values(RowMembers(Reading.type))])
    /\ pc' = "write"
    /\ UNCHANGED <<file, copy, mem, printed, runs>>

(* Mutant: the struct is cut as that of the version that was read.         *)
WriteAsRead ==
    /\ pc = "write"
    /\ LET t == Reading.type
           was == WireMembers(t, Reading.version) \cap Members(t)
       IN  copy' = Append(copy, [Reading EXCEPT !.version = CurrentVersion(t),
                                   !.at = Values(was)])
    /\ pc' = "read"
    /\ UNCHANGED <<file, mem, printed, rows, runs>>

(* pueo_ll_write: what pueo_write_packet_X writes, as the current version. *)
Write ==
    /\ pc = "write"
    /\ LET t == Reading.type
           now == CurrentVersion(t)
       IN  copy' = Append(copy, [Reading EXCEPT !.version = now,
                                   !.at = Values(WireMembers(t, now))])
    /\ pc' = "read"
    /\ UNCHANGED <<file, mem, printed, rows, runs>>

(* The end of the file; and a later run of the program on the copy.        *)
EndOfFile ==
    /\ pc = "read" /\ Pos > Len(file)
    /\ pc' = "done" /\ runs' = runs + 1
    /\ UNCHANGED <<file, copy, mem, printed, rows>>

RunAgain ==
    /\ pc = "done" /\ runs < MaxRuns
    /\ file' = copy /\ copy' = <<>> /\ rows' = <<>> /\ mem' = Nothing
    /\ pc' = "read"
    /\ UNCHANGED <<printed, runs>>

Next == Read \/ Dump \/ Insert \/ Write \/ EndOfFile \/ RunAgain

Spec == Init /\ [][Next]_vars

-----------------------------------------------------------------------------
(* Properties.                                                             *)

InMemory == pc \in {"dump", "insert", "write"}

OldTypeOK ==
    /\ pc \in {"read", "dump", "insert", "write", "done"}
    /\ runs \in 0 .. MaxRuns
    /\ Len(copy) <= Len(file) /\ Len(rows) <= Len(file)
    /\ InMemory => DOMAIN mem.at = Members(Reading.type)
    /\ \A i \in DOMAIN copy :
          DOMAIN copy[i].at = WireMembers(copy[i].type, CurrentVersion(copy[i].type))

(* Where the current struct has a member of the version a packet was flown *)
(* as, the member holds what was flown under its name, however often the   *)
(* packet was converted.  The exceptions are two members of version 0 of   *)
(* slow, where a member was removed before the one and bits taken from the *)
(* other (rawio_versions.h:53, rawdata.h:427).                             *)
OldFieldsKept ==
    InMemory =>
        LET p == Reading
            moved == IF p.type = "slow" /\ p.flown = 0
                     THEN {"L2_rates", "current_run_events"} ELSE {"rest"}
        IN  \A name \in (WireMembers(p.type, p.flown) \cap Members(p.type)) \ moved :
                mem.at[name] = {<<p.id, name>>}

(* Members that version did not have are zero (rawio_packets.c:18-20) in   *)
(* the housekeeping packets, but for those that begin inside the old       *)
(* struct's tail padding; so is the readout time of a waveform.            *)
NewFieldsZero ==
    InMemory =>
        LET p == Reading
            inside(name) == Layouts[p.type][Current(p.type)][name].first
                                < SizeOfVersion(p.type, p.flown)
            added == NewNames(p.type) \ OldNames(p.type, p.flown)
        IN  /\ p.type \in {"daq_hsk", "daq_hsk_summary"} => \A name \in added :
                  mem.at[name] \subseteq
                      IF inside(name) THEN Zero \cup {<<p.id, "padding">>} ELSE Zero
            /\ p.type \in WaveTypes /\ p.flown = 0 => mem.at["readout_time"] = Zero

(* A dump shows nothing but the packet that was just read: never what the  *)
(* memory held, or was left of the packet before (rawio.c:492, 501).  The  *)
(* exception are the samples of a waveform whose length says that there    *)
(* are more than 1024 of them: reading cuts what is transferred, not the   *)
(* length (rawio_packets.c:81), and the dump goes on past the array.       *)
DumpHonest ==
    pc \in {"insert", "write"} =>
        \A name \in DOMAIN printed.at : \A from \in printed.at[name] :
            \/ from[1] = Reading.id \/ from \in Zero
            \/ Reading.long /\ name \in {"wf", "wfs"}

(* The sensor a reading was flown from: by the table of the generation the *)
(* packet was flown with, if that has the id; none, for a generation that  *)
(* is not known.                                                           *)
SensorFlown(p, sensor) ==
    LET known == p.magic \in {CurrentMagic, OldMagic}
    IN  p.type \in Sensors =>
            /\ known /\ p.sensor < MaxSensors(p.magic) => sensor = Sensor(p.sensor, p.magic)
            /\ ~known => sensor = NoSensor

(* A reading is printed and stored under the sensor it was flown from      *)
(* (sensor_ids.h:66-68): its magic number and its id reach the lookup      *)
(* through the memory and the conversions of every version.  Of an id past *)
(* the table (sensor_ids.c:130) nothing is said.                           *)
SensorsAsFlown ==
    /\ pc \in {"insert", "write"} => SensorFlown(Reading, printed.sensor)
    /\ \A i \in DOMAIN rows : SensorFlown(file[rows[i].packet], rows[i].sensor)

(* Converting is settled after one time: a packet that is of the current   *)
(* version is written as it was read, to the last member.                  *)
ConversionSettles ==
    \A i \in DOMAIN copy :
        file[i].version = CurrentVersion(file[i].type) => copy[i].at = file[i].at

(* rawio_packets.c:14-25: all versions can be read, what they lack is      *)
(* zero, and "something sensible" is done where that does not do.  So when *)
(* an archive has been stored, a row shows of each member what was flown   *)
(* under its name, or zero.                                                *)
RowsAsFlown ==
    pc = "done" => \A i \in DOMAIN rows : \A name \in DOMAIN rows[i].at :
        LET p == file[rows[i].packet]
        IN  rows[i].at[name] = IF name \in WireMembers(p.type, p.flown)
                               THEN {<<p.id, name>>} ELSE Zero
=============================================================================
