------------------------------ MODULE SensorIds ------------------------------
(***************************************************************************)
(* The tables of sensors (sensor_ids.h, sensor_ids_compat.h) and their     *)
(* lookup (sensor_ids.c).  The index of a sensor means another sensor in   *)
(* each generation; a packet carries the magic number of its own.          *)
(***************************************************************************)
EXTENDS Naturals, Sequences

CurrentMagic == 9509          \* PUEO_SENSORS_CURRENT_MAGIC, 0x2525
OldMagic     == 8229          \* 0x2025

(* Sensors of one subsystem with the same type tag and kind, up to an id.  *)
Group(subsystem, tag, kind, upto) ==
    [subsystem |-> subsystem, tag |-> tag, kind |-> kind, upto |-> upto]

(* CURRENT_PUEO_SENSORS, 298 of them.                                      *)
CurrentHousekeeping ==
    <<Group("W1Temps", "F", "C", 93), Group("CPU", "F", "C", 111),
      Group("Mag", "F", "G", 114), Group("CC", "F", "W", 117),
      Group("CC", "F", "V", 124), Group("CC", "U", "X", 125),
      Group("CC", "F", "A", 126), Group("CC", "F", "C", 128),
      Group("HK", "F", "V", 138), Group("HK", "F", "A", 141),
      Group("HK", "F", "V", 142), Group("HK", "F", "A", 143),
      Group("HK", "F", "V", 144), Group("HK", "F", "A", 145)>>
CurrentRadio ==
    <<Group("RF", "F", "C", 151), Group("DAQ", "F", "V", 152),
      Group("DAQ", "F", "A", 153), Group("DAQ", "F", "C", 237),
      Group("DAQ", "F", "V", 267), Group("DAQ", "F", "I", 297)>>

(* PUEO_SENSORS_0x2025, 237 of them.                                       *)
OldHousekeeping ==
    <<Group("W1Temps", "F", "C", 92), Group("CPU", "F", "C", 110),
      Group("Mag", "F", "G", 113), Group("CC", "F", "W", 116),
      Group("CC", "F", "V", 123), Group("CC", "U", "X", 124),
      Group("CC", "F", "A", 125), Group("CC", "F", "C", 127),
      Group("HK", "F", "V", 137), Group("HK", "F", "A", 140),
      Group("HK", "F", "V", 141), Group("HK", "F", "A", 142),
      Group("HK", "F", "V", 143), Group("HK", "F", "A", 144)>>
OldRadio ==
    <<Group("RF", "F", "C", 150), Group("DAQ", "F", "V", 151),
      Group("DAQ", "F", "A", 152), Group("DAQ", "F", "C", 236)>>

(* The arrays that COMPAT_SWITCH chooses from, none for another magic.     *)
SensorTable(magic) ==
    CASE magic = CurrentMagic -> CurrentHousekeeping \o CurrentRadio
      [] magic = OldMagic     -> OldHousekeeping \o OldRadio
      [] OTHER                -> <<>>

(* MAX_SENSORS_COMPAT.                                                     *)
MaxSensors(magic) ==
    LET table == SensorTable(magic)
    IN  IF table = <<>> THEN 0 ELSE table[Len(table)].upto + 1

(* An element of the arrays; the name is what the id stands for in its     *)
(* generation.                                                             *)
Sensor(id, magic) ==
    LET table == SensorTable(magic)
        covers(i) == id <= table[i].upto /\ (i = 1 \/ table[i - 1].upto < id)
        group == table[CHOOSE i \in DOMAIN table : covers(i)]
    IN  [name |-> <<magic, id>>, subsystem |-> group.subsystem,
         tag |-> group.tag, kind |-> group.kind]

(* Null pointers and zero characters, of no generation.                    *)
NoSensor == [name |-> <<0, 0>>, subsystem |-> "null", tag |-> "0", kind |-> "0"]

(* An id that the table does not have: the assertion on its range is not   *)
(* compiled into a release, and what lies behind the array is returned.    *)
PastTable == [name |-> <<0, 1>>, subsystem |-> "any", tag |-> "any", kind |-> "any"]

(* What the functions that take an id alone return.                        *)
PlainLookup(id) ==
    IF id < MaxSensors(CurrentMagic) THEN Sensor(id, CurrentMagic) ELSE PastTable

(* What the functions that take a magic number return.                     *)
CompatLookup(id, magic) ==
    IF SensorTable(magic) = <<>> THEN NoSensor
    ELSE IF id < MaxSensors(magic) THEN Sensor(id, magic) ELSE PastTable

(* The kinds that the current sensors are entered with.                    *)
CurrentKinds == {group.kind : group \in
                    {SensorTable(CurrentMagic)[i] : i \in DOMAIN SensorTable(CurrentMagic)}}
=============================================================================
