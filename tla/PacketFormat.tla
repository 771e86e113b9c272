---------------------------- MODULE PacketFormat ----------------------------
(***************************************************************************)
(* The packets of libpueorawdata, on the wire and in memory.               *)
(*                                                                         *)
(* A packet is an 8-byte header followed by a payload.  Bytes are grouped  *)
(* into cells, the smallest runs the reader and the writer tell apart:     *)
(*   header cell 1   type and cksum                                        *)
(*   header cell 2   f1, version and num_bytes                             *)
(*   payload         a prefix (group 0), then for each group g >= 1 a      *)
(*                   fixed part that holds an element count (cell 0 of the *)
(*                   group) and one cell per element.                      *)
(* The three families of codecs of rawio_packets.c are                     *)
(*   "simple"  one prefix whose length depends on the version              *)
(*   "var"     one group: fixed part, then count elements                  *)
(*   "wave"    a prefix that depends on the version, then one group per    *)
(*             waveform.                                                   *)
(* A cell is <<packet, <<group, index>>>>: where it was written from.  Two *)
(* cells are equal only if the same packet put them at the same place.     *)
(***************************************************************************)
EXTENDS Integers, FiniteSets, Sequences

CONSTANTS
    Types,      \* the entries of PUEO_IO_DISPATCH_TABLE
    NoType,     \* any type code that is not in the table
    Codec,      \* Codec[t]: "simple", "var" or "wave"
    CurVer,     \* CurVer[t]: the macro PUEO_X_VER
    PrefixLen,  \* PrefixLen[t][v]: prefix cells of version v
    NumGroups,  \* NumGroups[t]: 0 for simple, 1 for var, waveforms for wave
    MaxCount,   \* MaxCount[t]: elements a group has room for
    WholeTail   \* <<t, v>> whose element array is always written whole

Codecs == {"simple", "var", "wave"}

ASSUME TypesAssumption == NoType \notin Types
ASSUME TableAssumption ==
    /\ Codec \in [Types -> Codecs]
    /\ CurVer \in [Types -> Nat]
    /\ NumGroups \in [Types -> Nat]
    /\ MaxCount \in [Types -> Nat]
    /\ DOMAIN PrefixLen = Types
    /\ \A t \in Types : PrefixLen[t] \in [0 .. CurVer[t] -> Nat]

HeadLen == 2                                 \* cells of a header

(* A version beyond the newest one is laid out as the newest one, except   *)
(* by the simple codec, which refuses it (rawio_packets.c:54, 139-143).    *)
KnownVer(t, v) == v \in 0 .. CurVer[t]
Prefix(t, v)   == PrefixLen[t][IF KnownVer(t, v) THEN v ELSE CurVer[t]]

(* pueo_size_inmem: what the newest struct occupies.                       *)
SizeOf(t) == PrefixLen[t][CurVer[t]] + NumGroups[t] * (1 + MaxCount[t])

(* Address of the fixed part of group g in the struct; its elements follow.*)
GroupAddr(t, g) == PrefixLen[t][CurVer[t]] + (g - 1) * (1 + MaxCount[t]) + 1

(* Elements that follow the fixed part of a group on the wire.  A waveform *)
(* length beyond the array is cut down (CHECK_WF_LENGTH); old versions of  *)
(* some packets always carry the whole array.                              *)
TailLen(t, v, n) ==
    IF <<t, v>> \in WholeTail \/ n > MaxCount[t] THEN MaxCount[t] ELSE n

-----------------------------------------------------------------------------
(* Packets, cells and the regions a packet is written from.                *)

Slot(g, i) == <<g, i>>
Cell(id, slot) == <<id, slot>>
HeadSlot(i) == <<-1, i>>
Junk == <<0, <<0, 0>>>>                      \* memory nobody initialised
Zero == <<0, <<0, 1>>>>                      \* memory cleared by memset

HeadCells(id) == [i \in 1 .. HeadLen |-> Cell(id, HeadSlot(i))]

PrefixCells(id, t, v) == [i \in 1 .. Prefix(t, v) |-> Cell(id, Slot(0, i))]

(* The fixed part of group g and its first n elements.                     *)
GroupCells(id, g, n) == [i \in 1 .. n + 1 |-> Cell(id, Slot(g, i - 1))]

(* The runs of cells handed to write_bytes for the payload, in order.      *)
Regions(id, p) ==
    LET group(g) == GroupCells(id, g, TailLen(p.type, p.ver, p.counts[g]))
    IN  IF Codec[p.type] = "var"
        THEN [g \in 1 .. NumGroups[p.type] |-> group(g)]
        ELSE [i \in 1 .. NumGroups[p.type] + 1 |->
                IF i = 1 THEN PrefixCells(id, p.type, p.ver) ELSE group(i - 1)]

(* Slots of the payload a packet of type t, version v and these counts     *)
(* covers: pueo_packet_header_for_X checksums exactly those bytes and      *)
(* reports their number as num_bytes.                                      *)
WireSlots(t, v, counts) ==
    {Slot(0, i) : i \in 1 .. Prefix(t, v)}
        \cup UNION {{Slot(g, i) : i \in 0 .. TailLen(t, v, counts[g])}
                        : g \in 1 .. NumGroups[t]}

NumBytes(t, v, counts) == Cardinality(WireSlots(t, v, counts))

AddrOf(t, slot) == IF slot[1] = 0 THEN slot[2]
                                  ELSE GroupAddr(t, slot[1]) + slot[2]
=============================================================================
