----------------------------- MODULE MCOldData -----------------------------
(***************************************************************************)
(* Small instances of OldData: archives of one and of two packets.         *)
(***************************************************************************)
EXTENDS OldData

Kind(t, v, magic, sensor, long) ==
    [type |-> t, version |-> v, magic |-> magic, sensor |-> sensor, long |-> long]

(* Every version of every type, and of the waveforms those whose length    *)
(* exceeds the array.                                                      *)
PlainKinds == UNION {{Kind(t, v, 0, 0, FALSE) : v \in 0 .. CurrentVersion(t)} :
                         t \in Types \ Sensors}
LongKinds == {[k EXCEPT !.long = TRUE] : k \in {j \in PlainKinds : j.type \in WaveTypes}}

(* Of the sensors those around which the two tables differ, the first that *)
(* each does not have, and those of a generation nobody knows.             *)
SensorKinds == {Kind(t, v, magic, id, FALSE) : t \in Sensors, v \in 0 .. 1,
                    magic \in {CurrentMagic, OldMagic, 1}, id \in {0, 124, 237, 298}}
Kinds == PlainKinds \cup LongKinds \cup SensorKinds

At(id, k) == Flown(id, k.type, k.version, k.magic, k.sensor, k.long)

OneOrTwo == {<<At(1, k)>> : k \in Kinds} \cup {<<At(1, k), At(2, l)>> : k, l \in Kinds}

(* The two rows that do not show what was flown.                           *)
Flight == {<<At(1, Kind("slow", 0, 0, 0, FALSE)),
             At(2, Kind("single_waveform", 1, 0, 0, FALSE))>>}
=============================================================================
