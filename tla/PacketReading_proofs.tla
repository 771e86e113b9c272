------------------------- MODULE PacketReading_proofs -------------------------
(***************************************************************************)
(* Where the cells of a packet lie when its writer hands them out one      *)
(* region after the other, and the reader that is given exactly them: it   *)
(* keeps its place and finds every cell where the packet has it.  What     *)
(* FileStream and UdpStream promise of media that lose nothing rests on    *)
(* this module.                                                            *)
(***************************************************************************)
EXTENDS HandleRead_proofs

-----------------------------------------------------------------------------
(* The cells of a payload in the order in which they are written.          *)

WireOf(p) == WireSlots(p.type, p.ver, p.counts)

(* What a packet has in front of its group g, and how much that is.        *)
Behind(p, g) == {s \in WireOf(p) : s[1] < g}
Size(p, g) == Cardinality(Behind(p, g))

(* How many cells group g has, and which one is the k-th of them.          *)
LenOf(p, g) == IF g = 0 THEN Prefix(p.type, p.ver)
                        ELSE 1 + TailLen(p.type, p.ver, p.counts[g])
SlotAt(g, k) == Slot(g, IF g = 0 THEN k ELSE k - 1)

(* From b on, cells holds the header of packet id and its groups before g. *)
Holds(cells, b, id, p, g) ==
    /\ \A k \in 1 .. HeadLen : cells[b + k] = Cell(id, HeadSlot(k))
    /\ \A f \in 0 .. g - 1 : \A k \in 1 .. LenOf(p, f) :
          cells[b + HeadLen + Size(p, f) + k] = Cell(id, SlotAt(f, k))

(* All of it.                                                              *)
HoldsWhole(cells, b, id, p) == Holds(cells, b, id, p, NumGroups[p.type] + 1)

LEMMA GroupTypes ==
    ASSUME NEW p \in Packets
    PROVE  /\ p.type \in Types /\ p.ver \in Nat /\ p.counts \in [Groups -> Nat]
           /\ NumGroups[p.type] \in Nat
           /\ \A g \in 1 .. NumGroups[p.type] :
                 g \in Groups /\ p.counts[g] \in Nat
                 /\ TailLen(p.type, p.ver, p.counts[g]) \in Nat
           /\ \A g \in 0 .. NumGroups[p.type] :
                 LenOf(p, g) \in Nat /\ (g # 0 => LenOf(p, g) >= 1)
<1>1. p.type \in Types /\ p.ver \in Nat /\ p.counts \in [Groups -> Nat]
  BY DEF Packets
<1>2. NumGroups[p.type] \in Nat /\ NumGroups[p.type] <= MaxGroups /\ MaxGroups \in Nat
  BY <1>1, TableAssumption, GroupsAssumption, ReadAssumption
<1>3. ASSUME NEW g \in 1 .. NumGroups[p.type]
      PROVE  g \in Groups /\ p.counts[g] \in Nat
             /\ TailLen(p.type, p.ver, p.counts[g]) \in Nat
  <2>1. g \in Groups
    BY <1>2 DEF Groups
  <2>2. p.counts[g] \in Nat
    BY <1>1, <2>1
  <2> QED
    BY <1>1, <2>1, <2>2, LayoutTypes
<1>4. Prefix(p.type, p.ver) \in Nat
  BY <1>1, LayoutTypes
<1>5. ASSUME NEW g \in 0 .. NumGroups[p.type]
      PROVE  LenOf(p, g) \in Nat /\ (g # 0 => LenOf(p, g) >= 1)
  <2>1. CASE g = 0
    BY <1>4, <2>1 DEF LenOf
  <2>2. CASE g # 0
    <3>1. g \in 1 .. NumGroups[p.type]
      BY <1>2, <2>2
    <3> QED
      BY <1>3, <2>2, <3>1 DEF LenOf
  <2> QED
    BY <2>1, <2>2
<1> QED
  BY <1>1, <1>2, <1>3, <1>5

(* The slots of one group.                                                 *)
LEMMA SlotsOfGroup ==
    ASSUME NEW p \in Packets, NEW g \in 0 .. NumGroups[p.type]
    PROVE  {s \in WireOf(p) : s[1] = g} = {SlotAt(g, k) : k \in 1 .. LenOf(p, g)}
<1> DEFINE T(f) == TailLen(p.type, p.ver, p.counts[f])
<1>1. /\ NumGroups[p.type] \in Nat /\ Prefix(p.type, p.ver) \in Nat
      /\ \A f \in 1 .. NumGroups[p.type] : T(f) \in Nat
  BY GroupTypes, LayoutTypes
<1>2. WireOf(p) = {Slot(0, i) : i \in 1 .. Prefix(p.type, p.ver)}
                    \cup UNION {{Slot(f, i) : i \in 0 .. T(f)} : f \in 1 .. NumGroups[p.type]}
  BY DEF WireOf, WireSlots
<1> HIDE DEF T
<1>3. CASE g = 0
  <2>1. {s \in WireOf(p) : s[1] = 0} = {Slot(0, i) : i \in 1 .. Prefix(p.type, p.ver)}
    BY <1>1, <1>2 DEF Slot
  <2> QED
    BY <1>3, <2>1 DEF SlotAt, LenOf
<1>4. CASE g # 0
  <2>0. g \in 1 .. NumGroups[p.type] /\ T(g) \in Nat
    BY <1>1, <1>4
  <2>1. {s \in WireOf(p) : s[1] = g} = {Slot(g, i) : i \in 0 .. T(g)}
    <3>1. ASSUME NEW s \in WireOf(p), s[1] = g PROVE s \in {Slot(g, i) : i \in 0 .. T(g)}
      <4>1. s \notin {Slot(0, i) : i \in 1 .. Prefix(p.type, p.ver)}
        BY <1>4, <3>1 DEF Slot
      <4>2. PICK f \in 1 .. NumGroups[p.type] : s \in {Slot(f, i) : i \in 0 .. T(f)}
        BY <1>2, <4>1
      <4>3. f = g
        BY <3>1, <4>2 DEF Slot
      <4> QED
        BY <4>2, <4>3
    <3>2. ASSUME NEW i \in 0 .. T(g) PROVE Slot(g, i) \in WireOf(p) /\ Slot(g, i)[1] = g
      BY <1>2, <2>0 DEF Slot
    <3> QED
      BY <3>1, <3>2
  <2>2. LenOf(p, g) = 1 + T(g)
    BY <1>4 DEF LenOf, T
  <2>3. ASSUME NEW i \in 0 .. T(g) PROVE i + 1 \in 1 .. LenOf(p, g) /\ SlotAt(g, i + 1) = Slot(g, i)
    BY <1>4, <2>0, <2>2 DEF SlotAt
  <2>4. ASSUME NEW k \in 1 .. LenOf(p, g) PROVE k - 1 \in 0 .. T(g) /\ SlotAt(g, k) = Slot(g, k - 1)
    BY <1>4, <2>0, <2>2 DEF SlotAt
  <2> QED
    BY <2>1, <2>3, <2>4
<1> QED
  BY <1>3, <1>4

(* The payload has nothing but its groups.                                 *)
LEMMA GroupOfSlot ==
    ASSUME NEW p \in Packets, NEW s \in WireOf(p)
    PROVE  s[1] \in 0 .. NumGroups[p.type]
BY GroupTypes DEF WireOf, WireSlots, Slot

-----------------------------------------------------------------------------
(* How much comes before a group.                                          *)

(* Numbers of cells.                                                       *)
LEMMA SizeType ==
    ASSUME NEW p \in Packets, NEW g
    PROVE  IsFiniteSet(Behind(p, g)) /\ Size(p, g) \in Nat
<1>1. IsFiniteSet(WireOf(p))
  BY GroupTypes, WireFinite DEF WireOf
<1>2. Behind(p, g) \subseteq WireOf(p)
  BY DEF Behind
<1> QED
  BY <1>1, <1>2, FS_Subset, FS_CardinalityType DEF Size

(* A group adds its own length.                                            *)
LEMMA SizeNext ==
    ASSUME NEW p \in Packets, NEW g \in 0 .. NumGroups[p.type]
    PROVE  Size(p, g + 1) = Size(p, g) + LenOf(p, g)
<1> DEFINE n == LenOf(p, g)
           S == {SlotAt(g, k) : k \in 1 .. n}
           f == [k \in 1 .. n |-> SlotAt(g, k)]
<1>1. n \in Nat
  BY GroupTypes
<1>2. Behind(p, g + 1) = Behind(p, g) \cup S /\ Behind(p, g) \cap S = {}
  <2>1. S = {s \in WireOf(p) : s[1] = g}
    BY SlotsOfGroup
  <2>2. \A s \in WireOf(p) : s[1] \in Int /\ (s[1] < g + 1 <=> s[1] < g \/ s[1] = g)
    BY GroupOfSlot, GroupTypes
  <2> HIDE DEF S
  <2> QED
    BY <2>1, <2>2 DEF Behind
<1> HIDE DEF n
<1>3. f \in Bijection(1 .. n, S)
  <2>1. \A i, j \in 1 .. n : f[i] = f[j] => i = j
    BY <1>1 DEF SlotAt, Slot
  <2>2. f \in [1 .. n -> S] /\ \A y \in S : \E i \in 1 .. n : f[i] = y
    OBVIOUS
  <2> HIDE DEF f, S
  <2> QED
    BY <2>1, <2>2 DEF Bijection, Injection, Surjection, IsInjective
<1>4. IsFiniteSet(1 .. n) /\ Cardinality(1 .. n) = n
  BY <1>1, FS_Interval, SMTT(30)
<1> HIDE DEF f, S
<1>5. ExistsBijection(1 .. n, S)
  BY <1>3 DEF ExistsBijection
<1>6. IsFiniteSet(S) /\ Cardinality(S) = n
  BY <1>4, <1>5, FS_Bijection
<1>7. IsFiniteSet(Behind(p, g)) /\ Size(p, g) \in Nat
  BY SizeType
<1>8. Cardinality(Behind(p, g) \cup S)
        = Cardinality(Behind(p, g)) + Cardinality(S) - Cardinality(Behind(p, g) \cap S)
  BY <1>6, <1>7, FS_Union
<1>9. Cardinality(Behind(p, g) \cap S) = 0
  BY <1>2, FS_EmptySet
<1>10. Size(p, g + 1) = Size(p, g) + n - 0
  BY <1>2, <1>6, <1>8, <1>9 DEF Size
<1> QED
  BY <1>1, <1>7, <1>10 DEF n

(* Nothing comes before the first region, everything before the end.       *)
LEMMA SizeEnds ==
    ASSUME NEW p \in Packets
    PROVE  /\ Size(p, 0) = 0
           /\ Codec[p.type] = "var" => Size(p, 1) = 0 /\ LenOf(p, 0) = 0
           /\ Size(p, NumGroups[p.type] + 1) = NumBytes(p.type, p.ver, p.counts)
           /\ Behind(p, NumGroups[p.type] + 1) = WireOf(p)
<1>1. /\ NumGroups[p.type] \in Nat
      /\ \A s \in WireOf(p) : s[1] \in 0 .. NumGroups[p.type]
  BY GroupTypes, GroupOfSlot
<1>2. Behind(p, 0) = {}
  BY <1>1 DEF Behind
<1>3. Size(p, 0) = 0
  BY <1>2, FS_EmptySet DEF Size
<1>4. Codec[p.type] = "var" => LenOf(p, 0) = 0
  BY GroupTypes, PrefixPlace DEF LenOf
<1>5. Size(p, 0 + 1) = Size(p, 0) + LenOf(p, 0)
  <2>1. 0 \in 0 .. NumGroups[p.type]
    BY <1>1
  <2> QED
    BY <2>1, SizeNext
<1>6. Codec[p.type] = "var" => Size(p, 1) = 0
  BY <1>3, <1>4, <1>5
<1>7. Behind(p, NumGroups[p.type] + 1) = WireOf(p)
  BY <1>1 DEF Behind
<1> QED
  BY <1>3, <1>4, <1>6, <1>7 DEF Size, NumBytes, WireOf

(* The more groups, the more cells; a group lies before all later ones.    *)
LEMMA SizeGrows ==
    ASSUME NEW p \in Packets, NEW g \in Int, NEW f \in 0 .. NumGroups[p.type], f < g
    PROVE  Size(p, f) + LenOf(p, f) <= Size(p, g)
<1>1. \A s \in WireOf(p) : s[1] \in Int
  BY GroupOfSlot, GroupTypes
<1>2. Behind(p, f + 1) \subseteq Behind(p, g)
  BY <1>1, GroupTypes DEF Behind
<1>3. Cardinality(Behind(p, f + 1)) <= Cardinality(Behind(p, g))
  BY <1>2, SizeType, FS_Subset
<1> QED
  BY <1>3, SizeNext DEF Size

-----------------------------------------------------------------------------
(* The writer's regions, one behind the other.                             *)

(* Region r is the whole of its group; the last one is the last group, and *)
(* what a variable packet has of a prefix, nothing, is not written.        *)
LEMMA RegionIs ==
    ASSUME NEW id \in Nat, NEW p \in Packets, NEW r \in 1 .. Len(Regions(id, p))
    PROVE  LET g == GroupOf(p.type, r)
           IN  /\ g \in 0 .. NumGroups[p.type]
               /\ Regions(id, p)[r] \in Seq(AllCells)
               /\ Len(Regions(id, p)[r]) = LenOf(p, g)
               /\ \A k \in 1 .. LenOf(p, g) : Regions(id, p)[r][k] = Cell(id, SlotAt(g, k))
               /\ GroupOf(p.type, r + 1) = g + 1
               /\ r = Len(Regions(id, p)) <=> g = NumGroups[p.type]
<1> DEFINE t == p.type
           N == NumGroups[t]
           n(g) == TailLen(t, p.ver, p.counts[g])
           g == GroupOf(t, r)
<1>1. /\ N \in Nat /\ Prefix(t, p.ver) \in Nat
      /\ \A f \in 1 .. N : n(f) \in Nat
      /\ Codec[t] = "var" => N = 1
  BY GroupTypes, LayoutTypes, GroupsAssumption
<1>2. ASSUME NEW f \in 1 .. N, NEW cells, cells = GroupCells(id, f, n(f))
      PROVE  Len(cells) = LenOf(p, f)
  <2>1. Len(cells) = n(f) + 1 /\ n(f) \in Nat /\ f # 0
    BY <1>1, <1>2 DEF GroupCells
  <2> QED
    BY <2>1 DEF LenOf
<1>3. ASSUME NEW cells, cells = PrefixCells(id, t, p.ver)
      PROVE  Len(cells) = LenOf(p, 0)
  BY <1>1, <1>3 DEF PrefixCells, LenOf
<1>4. Len(Regions(id, p)) \in Nat /\ r \in Nat
  BY RegionsOf
<1>5. /\ g \in 0 .. N /\ Len(Regions(id, p)[r]) = LenOf(p, g)
      /\ GroupOf(t, r + 1) = g + 1
      /\ r = Len(Regions(id, p)) <=> g = N
  <2>1. CASE Codec[t] = "var"
    <3>1. Regions(id, p) = [f \in 1 .. N |-> GroupCells(id, f, n(f))]
      BY <2>1 DEF Regions
    <3>2. g = r /\ GroupOf(t, r + 1) = r + 1
      BY <2>1 DEF GroupOf
    <3>3. Len(Regions(id, p)) = N
      BY <1>1, <3>1
    <3>4. r \in 1 .. N /\ Regions(id, p)[r] = GroupCells(id, r, n(r))
      BY <3>1, <3>3
    <3>5. Len(Regions(id, p)[r]) = LenOf(p, r)
      BY <1>2, <3>4
    <3> QED
      BY <1>1, <3>2, <3>3, <3>4, <3>5
  <2>2. CASE Codec[t] # "var"
    <3>1. Regions(id, p) = [i \in 1 .. N + 1 |-> IF i = 1 THEN PrefixCells(id, t, p.ver)
                                                 ELSE GroupCells(id, i - 1, n(i - 1))]
      BY <2>2 DEF Regions
    <3>2. g = r - 1 /\ GroupOf(t, r + 1) = (r + 1) - 1
      BY <2>2 DEF GroupOf
    <3>3. Len(Regions(id, p)) = N + 1
      BY <1>1, <3>1
    <3>4. r \in 1 .. N + 1
      BY <3>3
    <3>5. Len(Regions(id, p)[r]) = LenOf(p, r - 1)
      <4>1. CASE r = 1
        <5>1. Regions(id, p)[r] = PrefixCells(id, t, p.ver) /\ r - 1 = 0
          BY <3>1, <3>4, <4>1
        <5> QED
          BY <1>3, <5>1
      <4>2. CASE r # 1
        <5>1. r - 1 \in 1 .. N
          BY <1>1, <3>4, <4>2
        <5>2. Regions(id, p)[r] = GroupCells(id, r - 1, n(r - 1))
          BY <3>1, <3>4, <4>2
        <5> QED
          BY <1>2, <5>1, <5>2
      <4> QED
        BY <4>1, <4>2
    <3> QED
      BY <1>1, <1>4, <3>2, <3>3, <3>4, <3>5, SMTT(30)
  <2> QED
    BY <2>1, <2>2
<1>6. Regions(id, p)[r] \in Seq(AllCells)
  BY RegionsOf
<1>7. \A k \in 1 .. Len(Regions(id, p)[r]) :
         Regions(id, p)[r][k] = Cell(id, SlotAt(g, k))
  BY RegionsOf DEF SlotAt
<1> QED
  BY <1>5, <1>6, <1>7

(* The first region follows the header.                                    *)
LEMMA FirstRegion ==
    ASSUME NEW p \in Packets
    PROVE  LET g == GroupOf(p.type, 1)
           IN  g \in 0 .. 1 /\ Size(p, g) = 0 /\ \A f \in 0 .. g - 1 : LenOf(p, f) = 0
<1>1. CASE Codec[p.type] = "var"
  <2>1. GroupOf(p.type, 1) = 1 /\ \A f \in 0 .. 0 : f = 0
    BY <1>1 DEF GroupOf
  <2> QED
    BY <1>1, <2>1, SizeEnds
<1>2. CASE Codec[p.type] # "var"
  <2>1. GroupOf(p.type, 1) = 0
    BY <1>2 DEF GroupOf
  <2> QED
    BY <2>1, SizeEnds
<1> QED
  BY <1>1, <1>2

(* Cells that were there stay where they are.                              *)
LEMMA HoldsKept ==
    ASSUME NEW p \in Packets, NEW id, NEW b \in Nat, NEW g \in 0 .. NumGroups[p.type] + 1,
           NEW old, NEW new, NEW L \in Nat, b + HeadLen + Size(p, g) <= L,
           \A i \in 1 .. L : new[i] = old[i], Holds(old, b, id, p, g)
    PROVE  Holds(new, b, id, p, g)
<1>1. Size(p, g) \in Nat /\ NumGroups[p.type] \in Nat
  BY SizeType, GroupTypes
<1>2. ASSUME NEW k \in 1 .. HeadLen PROVE new[b + k] = Cell(id, HeadSlot(k))
  <2>1. b + k \in 1 .. L
    BY <1>1 DEF HeadLen
  <2> QED
    BY <2>1 DEF Holds
<1>3. ASSUME NEW f \in 0 .. g - 1, NEW k \in 1 .. LenOf(p, f)
      PROVE  new[b + HeadLen + Size(p, f) + k] = Cell(id, SlotAt(f, k))
  <2>1. f \in 0 .. NumGroups[p.type] /\ f < g /\ g \in Int
    BY <1>1
  <2>2. Size(p, f) + LenOf(p, f) <= Size(p, g)
    BY <2>1, SizeGrows
  <2>3. Size(p, f) \in Nat /\ LenOf(p, f) \in Nat
    BY <2>1, SizeType, GroupTypes
  <2>4. b + HeadLen + Size(p, f) + k \in 1 .. L
    BY <1>1, <2>2, <2>3 DEF HeadLen
  <2> QED
    BY <2>4 DEF Holds
<1> QED
  BY <1>2, <1>3 DEF Holds

(* A header is written.                                                    *)
LEMMA HoldsHead ==
    ASSUME NEW p \in Packets, NEW id, NEW b \in Nat, NEW new,
           \A k \in 1 .. HeadLen : new[b + k] = HeadCells(id)[k]
    PROVE  Holds(new, b, id, p, GroupOf(p.type, 1))
<1>1. \A k \in 1 .. HeadLen : HeadCells(id)[k] = Cell(id, HeadSlot(k))
  BY DEF HeadCells
<1>2. \A f \in 0 .. GroupOf(p.type, 1) - 1 : 1 .. LenOf(p, f) = {}
  BY FirstRegion
<1> QED
  BY <1>1, <1>2 DEF Holds

(* A region is written behind what is there.                               *)
LEMMA HoldsMore ==
    ASSUME NEW p \in Packets, NEW id, NEW b \in Nat, NEW g \in 0 .. NumGroups[p.type],
           NEW old, NEW new, NEW L \in Nat, L = b + HeadLen + Size(p, g),
           \A i \in 1 .. L : new[i] = old[i], Holds(old, b, id, p, g),
           \A k \in 1 .. LenOf(p, g) : new[L + k] = Cell(id, SlotAt(g, k))
    PROVE  Holds(new, b, id, p, g + 1)
<1>1. NumGroups[p.type] \in Nat
  BY GroupTypes
<1>2. g \in 0 .. NumGroups[p.type] + 1 /\ b + HeadLen + Size(p, g) <= L
  BY <1>1
<1>3. Holds(new, b, id, p, g)
  BY <1>2, HoldsKept
<1>4. ASSUME NEW f \in 0 .. (g + 1) - 1, NEW k \in 1 .. LenOf(p, f)
      PROVE  new[b + HeadLen + Size(p, f) + k] = Cell(id, SlotAt(f, k))
  <2>1. CASE f = g
    BY <2>1
  <2>2. CASE f # g
    <3>1. f \in 0 .. g - 1
      BY <2>2
    <3> QED
      BY <1>3, <3>1 DEF Holds
  <2> QED
    BY <2>1, <2>2
<1> QED
  BY <1>3, <1>4 DEF Holds

-----------------------------------------------------------------------------
(* The reader of a packet that was written so.                             *)

HeaderOf(id, p) == [type |-> p.type, sum |-> id, ver |-> p.ver,
                    nbytes |-> NumBytes(p.type, p.ver, p.counts)]

(* The group that is read, and how many of its cells have been: a payload  *)
(* reader reads a group whole or its first cell and then the others.       *)
ReadGroup == CASE call.pc \in {"simple", "prefix"} -> 0
               [] call.pc \in {"fixed", "tail"} -> 1
               [] call.pc \in {"wf_head", "wf_data"} -> call.grp
               [] OTHER -> NumGroups[call.type] + 1
ReadCells == IF call.pc \in {"tail", "wf_data"} THEN 1 ELSE 0

(* Memory has the first n groups of packet id, and the handle its counts.  *)
MemoryHolds(id, p, n) ==
    \A f \in 0 .. n - 1 :
        /\ f # 0 => call.counts[f] = p.counts[f]
        /\ \A k \in 1 .. LenOf(p, f) :
              pkt.mem[AddrOf(p.type, SlotAt(f, k))] = Cell(id, SlotAt(f, k))

(* The header is that of packet id, and what was read so far is what comes *)
(* first in its payload.                                                   *)
InPlace(id) ==
    LET p == sent[id]
        g == ReadGroup
    IN  /\ id \in DOMAIN sent
        /\ h.hdr = HeaderOf(id, p) /\ call.type = p.type
        /\ call.nrd = Size(p, g) + ReadCells
        /\ MemoryHolds(id, p, g)
        /\ ReadCells = 1 =>
              /\ call.counts[g] = p.counts[g]
              /\ pkt.mem[AddrOf(p.type, SlotAt(g, 1))] = Cell(id, SlotAt(g, 1))

(* A read_bytes that returns what comes next in the payload.               *)
Served(id, res) ==
    /\ ~res.err /\ Len(res.cells) = Wanted
    /\ \A k \in 1 .. Wanted :
          res.cells[k] = Cell(id, SlotAt(ReadGroup, ReadCells + k))

-----------------------------------------------------------------------------
(* Places in memory.                                                       *)

(* Every cell of a packet has an address, behind all those of its earlier  *)
(* groups.                                                                 *)
LEMMA SlotAddr ==
    ASSUME NEW p \in Packets, NEW f \in 0 .. NumGroups[p.type],
           NEW k \in 1 .. LenOf(p, f)
    PROVE  LET a == AddrOf(p.type, SlotAt(f, k))
           IN  /\ a \in 1 .. MemSize
               /\ f = 0 => a = k /\ k <= PrefixLen[p.type][CurVer[p.type]]
               /\ f # 0 => a = GroupAddr(p.type, f) + (k - 1)
               /\ \A g \in 1 .. NumGroups[p.type] : f < g => a < GroupAddr(p.type, g)
<1> DEFINE t    == p.type
           base == PrefixLen[t][CurVer[t]]
<1>1. /\ t \in Types /\ base \in Nat /\ MaxCount[t] \in Nat /\ MemSize \in Nat
      /\ p.ver \in Nat
  BY GroupTypes, TableAssumption, ReadAssumption
<1>2. \A g \in 1 .. NumGroups[t] :
         GroupAddr(t, g) \in Nat /\ GroupAddr(t, g) > base
  BY <1>1, GroupPlaces
<1>3. CASE f = 0
  <2>1. AddrOf(t, SlotAt(f, k)) = k
    BY <1>3 DEF AddrOf, SlotAt, Slot
  <2>2. LenOf(p, f) = Prefix(t, p.ver) /\ Prefix(t, p.ver) \in Nat
        /\ Prefix(t, p.ver) <= MemSize /\ Prefix(t, p.ver) <= base
    BY <1>1, <1>3, PrefixPlace DEF LenOf
  <2>3. k \in Nat /\ k >= 1 /\ k <= MemSize /\ k <= base
    BY <1>1, <2>2
  <2> HIDE DEF base, t
  <2>4. \A g \in 1 .. NumGroups[t] : k < GroupAddr(t, g)
    BY <1>1, <1>2, <2>3
  <2> QED
    BY <1>1, <1>3, <2>1, <2>3, <2>4 DEF base, t
<1>4. CASE f # 0
  <2>0. f \in 1 .. NumGroups[t]
    BY <1>4, GroupTypes
  <2>1. AddrOf(t, SlotAt(f, k)) = GroupAddr(t, f) + (k - 1)
    BY <1>4 DEF AddrOf, SlotAt, Slot
  <2>2. LenOf(p, f) = 1 + TailLen(t, p.ver, p.counts[f])
        /\ TailLen(t, p.ver, p.counts[f]) \in Nat
        /\ TailLen(t, p.ver, p.counts[f]) <= MaxCount[t]
    BY <1>1, <1>4, <2>0, GroupTypes, PrefixPlace DEF LenOf
  <2>3. k \in Nat /\ k >= 1 /\ k - 1 <= MaxCount[t]
    BY <1>1, <2>2
  <2>4. GroupAddr(t, f) + MaxCount[t] <= MemSize
    BY <1>1, <2>0, GroupPlaces
  <2>5. ASSUME NEW g \in 1 .. NumGroups[t], f < g
        PROVE  GroupAddr(t, f) + MaxCount[t] < GroupAddr(t, g)
    <3>1. f \in 1 .. g - 1
      BY <2>0, <2>5
    <3> QED
      BY <1>1, <3>1, GroupPlaces
  <2> HIDE DEF base, t
  <2>6. GroupAddr(t, f) + (k - 1) \in 1 .. MemSize
    BY <1>1, <1>2, <2>0, <2>3, <2>4
  <2>7. \A g \in 1 .. NumGroups[t] : f < g => GroupAddr(t, f) + (k - 1) < GroupAddr(t, g)
    BY <1>1, <1>2, <2>0, <2>3, <2>5
  <2> QED
    BY <1>4, <2>1, <2>6, <2>7 DEF base, t
<1> QED
  BY <1>3, <1>4

(* What is read into a group leaves the groups before it alone.            *)
LEMMA MemoryKept ==
    ASSUME NEW id, NEW p \in Packets, NEW g \in 1 .. NumGroups[p.type],
           MemoryHolds(id, p, g),
           \A f \in 1 .. g - 1 : call'.counts[f] = call.counts[f],
           \A b \in 1 .. MemSize :
              b < GroupAddr(p.type, g) => pkt'.mem[b] = pkt.mem[b]
    PROVE  MemoryHolds(id, p, g)'
<1> SUFFICES ASSUME NEW f \in 0 .. g - 1
             PROVE  /\ f # 0 => call'.counts[f] = p.counts[f]
                    /\ \A k \in 1 .. LenOf(p, f) :
                          pkt'.mem[AddrOf(p.type, SlotAt(f, k))] = Cell(id, SlotAt(f, k))
  BY DEF MemoryHolds
<1>1. f \in 0 .. NumGroups[p.type] /\ f < g
  BY GroupTypes
<1>2. ASSUME f # 0 PROVE call'.counts[f] = p.counts[f]
  <2>1. f \in 1 .. g - 1
    BY <1>2
  <2> QED
    BY <1>2, <2>1 DEF MemoryHolds
<1>3. ASSUME NEW k \in 1 .. LenOf(p, f)
      PROVE  pkt'.mem[AddrOf(p.type, SlotAt(f, k))] = Cell(id, SlotAt(f, k))
  <2> DEFINE a == AddrOf(p.type, SlotAt(f, k))
  <2>1. a \in 1 .. MemSize /\ a < GroupAddr(p.type, g)
    BY <1>1, SlotAddr
  <2>2. pkt.mem[a] = Cell(id, SlotAt(f, k))
    BY DEF MemoryHolds
  <2> HIDE DEF a
  <2>3. pkt'.mem[a] = pkt.mem[a]
    BY <2>1
  <2> QED
    BY <2>2, <2>3 DEF a
<1> QED
  BY <1>2, <1>3

(* One more group.                                                         *)
LEMMA MemoryGrows ==
    ASSUME NEW id, NEW p \in Packets, NEW g \in 0 .. NumGroups[p.type],
           MemoryHolds(id, p, g)', g # 0 => call'.counts[g] = p.counts[g],
           \A k \in 1 .. LenOf(p, g) :
              pkt'.mem[AddrOf(p.type, SlotAt(g, k))] = Cell(id, SlotAt(g, k))
    PROVE  MemoryHolds(id, p, g + 1)'
<1>1. \A f \in 0 .. (g + 1) - 1 : f \in 0 .. g - 1 \/ f = g
  OBVIOUS
<1> QED
  BY <1>1 DEF MemoryHolds

-----------------------------------------------------------------------------
(* The reader of a payload keeps its place.                                *)

LEMMA PlacedAt ==
    ASSUME NEW id \in DOMAIN sent, NEW p, p = sent[id], UNCHANGED sent, NEW g,
           h'.hdr = HeaderOf(id, p), call'.type = p.type,
           ReadGroup' = g, call'.nrd = Size(p, g) + ReadCells',
           MemoryHolds(id, p, g)',
           ReadCells' = 1 =>
              /\ call'.counts[g] = p.counts[g]
              /\ pkt'.mem[AddrOf(p.type, SlotAt(g, 1))] = Cell(id, SlotAt(g, 1))
    PROVE  InPlace(id)'
BY DEF InPlace

(* What a reader in its place knows, and what it asks for next.            *)
LEMMA PlaceCall ==
    ASSUME TypeOK, NEW id, InPlace(id), call.pc \in PayloadPcs
    PROVE  LET p == sent[id]
               g == ReadGroup
           IN  /\ p \in Packets /\ id \in DOMAIN sent
               /\ g \in 0 .. NumGroups[p.type]
               /\ call.type = p.type /\ h.hdr = HeaderOf(id, p) /\ h.hdr.ver = p.ver
               /\ call.nrd = Size(p, g) + ReadCells /\ MemoryHolds(id, p, g)
               /\ call.pc \in {"simple", "prefix"} => g = 0 /\ Wanted = LenOf(p, 0)
               /\ call.pc \in {"fixed", "wf_head"} => g # 0 /\ Wanted = 1
               /\ call.pc \in {"tail", "wf_data"} =>
                     g # 0 /\ Wanted = TailLen(p.type, p.ver, p.counts[g])
               /\ Wanted \in Nat
               /\ ReadCells + Wanted <= LenOf(p, g)
               /\ ~(call.pc \in {"fixed", "wf_head"}) => ReadCells + Wanted = LenOf(p, g)
<1> PICK p : p = sent[id]
  OBVIOUS
<1> PICK g : g = ReadGroup
  OBVIOUS
<1>1. /\ p \in Packets /\ id \in DOMAIN sent /\ h.hdr = HeaderOf(id, p)
      /\ call.type = p.type /\ call.nrd = Size(p, g) + ReadCells
      /\ MemoryHolds(id, p, g)
      /\ ReadCells = 1 => call.counts[g] = p.counts[g]
  BY SentTypes DEF InPlace
<1>2. h.hdr.ver = p.ver
  BY <1>1 DEF HeaderOf
<1>3. /\ p.type \in Types /\ NumGroups[p.type] \in Nat
      /\ \A f \in 0 .. NumGroups[p.type] : LenOf(p, f) \in Nat /\ (f # 0 => LenOf(p, f) >= 1)
      /\ \A f \in 1 .. NumGroups[p.type] : TailLen(p.type, p.ver, p.counts[f]) \in Nat
  BY <1>1, GroupTypes
<1>4. call.pc \in {"simple", "prefix", "fixed", "tail", "wf_head", "wf_data"}
  BY DEF PayloadPcs, ReadPcs, HeaderPcs
<1>5. CASE call.pc \in {"simple", "prefix"}
  <2>1. g = 0 /\ ReadCells = 0
    BY <1>5 DEF ReadGroup, ReadCells
  <2>2. Wanted = LenOf(p, 0)
    BY <1>1, <1>2, <1>5 DEF Wanted, HeaderPcs, LenOf
  <2> QED
    BY <1>1, <1>2, <1>3, <1>5, <2>1, <2>2
<1>6. CASE call.pc \in {"fixed", "tail", "wf_head", "wf_data"}
  <2>1. g \in 1 .. NumGroups[p.type]
    <3>1. CASE call.pc \in {"fixed", "tail"}
      <4>1. Codec[p.type] = "var"
        BY <1>1, <3>1 DEF TypeOK, CallOK
      <4>2. g = 1 /\ NumGroups[p.type] = 1
        BY <1>3, <3>1, <4>1, GroupsAssumption DEF ReadGroup
      <4> QED
        BY <4>2
    <3>2. CASE call.pc \in {"wf_head", "wf_data"}
      BY <1>1, <3>2 DEF ReadGroup, TypeOK, CallOK
    <3> QED
      BY <1>6, <3>1, <3>2
  <2>2. g # 0 /\ LenOf(p, g) = 1 + TailLen(p.type, p.ver, p.counts[g])
    BY <2>1 DEF LenOf
  <2>3. CASE call.pc \in {"fixed", "wf_head"}
    <3>1. Wanted = 1 /\ ReadCells = 0
      BY <2>3 DEF Wanted, ReadCells, HeaderPcs
    <3> QED
      BY <1>1, <1>2, <1>3, <2>1, <2>2, <2>3, <3>1
  <2>4. CASE call.pc \in {"tail", "wf_data"}
    <3>1. ReadCells = 1
      BY <2>4 DEF ReadCells
    <3>2. Wanted = TailLen(p.type, p.ver, call.counts[g])
      BY <1>1, <1>2, <2>4 DEF Wanted, ReadGroup, HeaderPcs
    <3>3. Wanted = TailLen(p.type, p.ver, p.counts[g])
      BY <1>1, <3>1, <3>2
    <3> QED
      BY <1>1, <1>2, <1>3, <2>1, <2>2, <2>4, <3>1, <3>3
  <2> QED
    BY <1>6, <2>3, <2>4
<1> QED
  BY <1>4, <1>5, <1>6

(* What is not a variable packet has a prefix.                             *)
LEMMA PrefixNotEmpty ==
    ASSUME NEW p \in Packets, Codec[p.type] # "var"
    PROVE  LenOf(p, 0) \in Nat /\ LenOf(p, 0) > 0
<1>1. p.type \in Types /\ CurVer[p.type] \in Nat
  BY GroupTypes, TableAssumption
<1> DEFINE u == IF KnownVer(p.type, p.ver) THEN p.ver ELSE CurVer[p.type]
<1>2. u \in 0 .. CurVer[p.type]
  BY <1>1 DEF KnownVer
<1>3. LenOf(p, 0) = PrefixLen[p.type][u]
  BY DEF LenOf, Prefix
<1> HIDE DEF u
<1> QED
  BY <1>1, <1>2, <1>3, PayloadAssumption, TableAssumption

(* It never asks for more than the packet has, and once it has used it up  *)
(* it only asks for nothing, at the end of the last group.                 *)
LEMMA AsksForItsOwn ==
    ASSUME TypeOK, NEW id, InPlace(id), call.pc \in PayloadPcs
    PROVE  LET n == NumBytes(sent[id].type, sent[id].ver, sent[id].counts)
           IN  /\ n \in Nat /\ call.nrd \in Nat /\ Wanted \in Nat
               /\ call.nrd + Wanted <= n
               /\ call.nrd = n =>
                     /\ Wanted = 0 /\ call.pc \in {"tail", "wf_data"}
                     /\ ReadGroup = NumGroups[sent[id].type]
<1> PICK p : p = sent[id]
  OBVIOUS
<1> PICK g : g = ReadGroup
  OBVIOUS
<1> DEFINE N == NumGroups[p.type]
           n == NumBytes(p.type, p.ver, p.counts)
<1>1. /\ p \in Packets /\ g \in 0 .. N /\ call.nrd = Size(p, g) + ReadCells
      /\ Wanted \in Nat /\ ReadCells + Wanted <= LenOf(p, g)
      /\ ReadCells \in 0 .. 1
  BY PlaceCall DEF ReadCells
<1>2. N \in Nat /\ n \in Nat /\ Size(p, N + 1) = n
  BY <1>1, GroupTypes, NumBytesType, SizeEnds
<1>3. Size(p, g) + LenOf(p, g) <= n /\ Size(p, g) \in Nat /\ LenOf(p, g) \in Nat
  <2>1. N + 1 \in Int /\ g < N + 1
    BY <1>1, <1>2
  <2> QED
    BY <1>1, <1>2, <2>1, SizeGrows, SizeType, GroupTypes
<1>4. call.nrd \in Nat /\ call.nrd + Wanted <= n
  BY <1>1, <1>2, <1>3
<1>5. ASSUME call.nrd = n
      PROVE  Wanted = 0 /\ call.pc \in {"tail", "wf_data"} /\ g = N
  <2>1. Wanted = 0 /\ ReadCells = LenOf(p, g)
    BY <1>1, <1>2, <1>3, <1>5
  <2>2. CASE call.pc \in {"simple", "prefix"}
    <3>1. g = 0 /\ LenOf(p, 0) = 0 /\ p.type = call.type
      BY <2>1, <2>2, PlaceCall
    <3>2. Codec[p.type] # "var"
      BY <2>2, <3>1 DEF TypeOK, CallOK
    <3> QED
      BY <1>1, <3>1, <3>2, PrefixNotEmpty
  <2>3. ~(call.pc \in {"fixed", "wf_head"})
    BY <2>1, PlaceCall
  <2>4. call.pc \in {"tail", "wf_data"}
    BY <2>2, <2>3, PlaceCall, <2>1 DEF PayloadPcs, ReadPcs, HeaderPcs
  <2>5. g = N
    <3> SUFFICES ASSUME g # N PROVE FALSE
      OBVIOUS
    <3>1. g + 1 \in 1 .. N /\ g + 1 \in 0 .. N /\ g + 1 < N + 1
      BY <1>1, <1>2
    <3>2. LenOf(p, g + 1) >= 1 /\ LenOf(p, g + 1) \in Nat
      BY <1>1, <3>1, GroupTypes
    <3>3. Size(p, g + 1) + LenOf(p, g + 1) <= Size(p, N + 1)
      BY <1>1, <1>2, <3>1, SizeGrows
    <3>4. Size(p, g + 1) = Size(p, g) + LenOf(p, g)
      BY <1>1, SizeNext
    <3> QED
      BY <1>1, <1>2, <1>3, <1>5, <2>1, <3>2, <3>3, <3>4
  <2> QED
    BY <2>1, <2>4, <2>5
<1>6. n = NumBytes(sent[id].type, sent[id].ver, sent[id].counts)
  OBVIOUS
<1> HIDE DEF n, N
<1>7. call.nrd = n => Wanted = 0 /\ call.pc \in {"tail", "wf_data"} /\ g = N
  BY <1>5
<1>8. g = ReadGroup /\ N = NumGroups[sent[id].type]
  BY DEF N
<1> QED
  BY <1>1, <1>2, <1>4, <1>6, <1>7, <1>8, Zenon


(* What a served result is.                                                *)
LEMMA ServedType ==
    ASSUME NEW id, NEW res \in Results, Served(id, res), Wanted \in Nat
    PROVE  /\ res.cells \in Seq(AllCells) /\ Len(res.cells) = Wanted
           /\ Count(res) = Wanted /\ ~res.err
BY DEF Served, Count, Results

LEMMA SimpleServed ==
    ASSUME TypeOK, NEW id, InPlace(id), NEW res \in Results, Served(id, res),
           UNCHANGED sent, SimpleRead(res)
    PROVE  InPlace(id)'
<1> PICK p : p = sent[id]
  OBVIOUS
<1> DEFINE P   == Prefix(call.type, h.hdr.ver)
           mem == Copied(pkt.mem, 1, res.cells)
<1>0. call.pc = "simple" /\ call.pc \in PayloadPcs
  BY DEF SimpleRead, WantsPayload, PayloadPcs, ReadPcs, HeaderPcs
<1>1. /\ p \in Packets /\ id \in DOMAIN sent /\ call.type = p.type
      /\ h.hdr = HeaderOf(id, p) /\ h.hdr.ver = p.ver
      /\ call.nrd = Size(p, 0) + 0 /\ Wanted = LenOf(p, 0) /\ Wanted \in Nat
  BY <1>0, PlaceCall DEF ReadGroup, ReadCells
<1>2. NumGroups[p.type] = 0 /\ 0 \in 0 .. NumGroups[p.type]
  BY <1>0, <1>1, GroupsAssumption DEF TypeOK, CallOK
<1>3. /\ res.cells \in Seq(AllCells) /\ Len(res.cells) = Wanted /\ Count(res) = Wanted
  BY <1>1, ServedType
<1>4. /\ call' = [call EXCEPT !.pc = "check", !.nrd = @ + Count(res)]
      /\ pkt' = [pkt EXCEPT !.mem = Cleared(mem, P + 1)]
      /\ h' = [h EXCEPT !.head = @ \/ res.mark]
  BY DEF SimpleRead, GoOn, Marked
<1>5. /\ call'.pc = "check" /\ call'.type = call.type /\ h'.hdr = h.hdr
      /\ call'.nrd = call.nrd + Wanted /\ pkt'.mem = Cleared(mem, P + 1)
  BY <1>0, <1>3, <1>4, PayloadCall DEF Calls, Handles, Buffers
<1>6. ReadGroup' = 0 + 1 /\ ReadCells' = 0
  BY <1>1, <1>2, <1>5 DEF ReadGroup, ReadCells
<1>7. P = LenOf(p, 0) /\ P \in Nat
  BY <1>1 DEF LenOf
<1> HIDE DEF P, mem
<1>8. Size(p, 0 + 1) = Size(p, 0) + LenOf(p, 0) /\ Size(p, 0) \in Nat
  BY <1>1, <1>2, SizeNext, SizeType
<1>9. Written(mem, pkt.mem, 1, res.cells)
  BY <1>3, CopiedAt DEF mem
<1>10. ASSUME NEW k \in 1 .. LenOf(p, 0)
       PROVE  pkt'.mem[AddrOf(p.type, SlotAt(0, k))] = Cell(id, SlotAt(0, k))
  <2>1. AddrOf(p.type, SlotAt(0, k)) = k /\ k \in 1 .. MemSize
    BY <1>1, <1>2, SlotAddr
  <2>2. mem[k] = res.cells[k]
    <3>1. k \in 1 .. Len(res.cells) /\ k + 1 = 1 + k
      BY <1>1, <1>3
    <3> QED
      BY <1>9, <2>1, <3>1 DEF Written
  <2>3. res.cells[k] = Cell(id, SlotAt(0, 0 + k))
    BY <1>0, <1>1 DEF Served, ReadGroup, ReadCells
  <2>4. Cleared(mem, P + 1)[k] = mem[k]
    BY <1>7, <2>1 DEF Cleared
  <2> QED
    BY <1>5, <2>1, <2>2, <2>3, <2>4
<1>11. MemoryHolds(id, p, 0)'
  BY DEF MemoryHolds
<1>12. MemoryHolds(id, p, 0 + 1)'
  BY <1>1, <1>2, <1>10, <1>11, MemoryGrows
<1>13. call'.nrd = Size(p, 0 + 1) + ReadCells'
  BY <1>1, <1>5, <1>6, <1>7, <1>8
<1> QED
  BY <1>1, <1>5, <1>6, <1>12, <1>13, PlacedAt

(* The count a fixed part brings is that of its packet.                    *)
LEMMA CountArrives ==
    ASSUME NEW id \in DOMAIN sent, NEW p \in Packets, p = sent[id],
           NEW g \in 1 .. NumGroups[p.type], NEW c, c = Cell(id, SlotAt(g, 1))
    PROVE  CountsAt(p.type, c) = {p.counts[g]}
<1>1. g # 0
  BY GroupTypes
<1>2. c[1] = id /\ c[2][1] = g /\ c[2][2] = 0
  BY <1>1 DEF Cell, SlotAt, Slot
<1> QED
  BY <1>2 DEF CountsAt

LEMMA FixedServed ==
    ASSUME TypeOK, NEW id, InPlace(id), NEW res \in Results, Served(id, res),
           UNCHANGED sent, VarFixed(res)
    PROVE  InPlace(id)'
<1> PICK p : p = sent[id]
  OBVIOUS
<1> DEFINE mem == Copied(pkt.mem, 1, res.cells)
<1>0. call.pc = "fixed" /\ call.pc \in PayloadPcs
  BY DEF VarFixed, WantsPayload, PayloadPcs, ReadPcs, HeaderPcs
<1>1. /\ p \in Packets /\ id \in DOMAIN sent /\ call.type = p.type
      /\ h.hdr = HeaderOf(id, p) /\ MemoryHolds(id, p, 1)
      /\ call.nrd = Size(p, 1) + 0 /\ Wanted = 1
  BY <1>0, PlaceCall DEF ReadGroup, ReadCells
<1>2. Codec[p.type] = "var" /\ NumGroups[p.type] = 1 /\ 1 \in 1 .. NumGroups[p.type]
  BY <1>0, <1>1, GroupsAssumption DEF TypeOK, CallOK
<1>3. /\ res.cells \in Seq(AllCells) /\ Len(res.cells) = 1 /\ Count(res) = 1
  BY <1>1, ServedType
<1>4. Written(mem, pkt.mem, 1, res.cells)
  BY <1>3, CopiedAt
<1> HIDE DEF mem
<1>5. LenOf(p, 0) = 0 /\ 1 \in 1 .. LenOf(p, 1) /\ Size(p, 1) \in Nat
  <2>1. LenOf(p, 1) \in Nat /\ LenOf(p, 1) >= 1
    BY <1>1, <1>2, GroupTypes
  <2> QED
    BY <1>1, <1>2, <2>1, SizeEnds, SizeType
<1>6. AddrOf(p.type, SlotAt(1, 1)) = 1 /\ 1 \in 1 .. MemSize
  <2>1. /\ AddrOf(p.type, SlotAt(1, 1)) = GroupAddr(p.type, 1) + (1 - 1)
        /\ AddrOf(p.type, SlotAt(1, 1)) \in 1 .. MemSize
    <3>1. 1 \in 0 .. NumGroups[p.type]
      BY <1>2
    <3> QED
      BY <1>1, <1>5, <3>1, SlotAddr
  <2>2. PrefixLen[p.type][CurVer[p.type]] = 0 /\ MaxCount[p.type] \in Nat
    BY <1>1, <1>2, GroupTypes, PrefixPlace, TableAssumption
  <2>3. GroupAddr(p.type, 1) = 1
    BY <2>2 DEF GroupAddr
  <2> QED
    BY <2>1, <2>3
<1>7. mem[1] = res.cells[1] /\ res.cells[1] = Cell(id, SlotAt(1, 1))
  <2>1. 1 \in 1 .. Len(res.cells) /\ 1 + 1 = 1 + 1
    BY <1>3
  <2>2. mem[1] = res.cells[1]
    BY <1>4, <1>6, <2>1 DEF Written
  <2>3. res.cells[1] = Cell(id, SlotAt(1, 0 + 1))
    BY <1>0, <1>1 DEF Served, ReadGroup, ReadCells
  <2> QED
    BY <2>2, <2>3
<1>8. CountsAt(call.type, mem[1]) = {p.counts[1]}
  BY <1>1, <1>2, <1>7, CountArrives
<1>9. /\ pkt' = [pkt EXCEPT !.mem = mem]
      /\ call' = [call EXCEPT !.pc = "tail", !.nrd = @ + Count(res),
                              !.counts[1] = p.counts[1]]
      /\ h' = [h EXCEPT !.head = @ \/ res.mark]
  BY <1>8 DEF VarFixed, mem, Marked
<1>10. /\ call'.pc = "tail" /\ call'.nrd = call.nrd + 1 /\ call'.type = call.type
       /\ call'.counts = [call.counts EXCEPT ![1] = p.counts[1]]
       /\ pkt'.mem = mem /\ h'.hdr = h.hdr
  BY <1>0, <1>3, <1>9, PayloadCall DEF Calls, Handles, Buffers
<1>11. call'.counts[1] = p.counts[1]
  <2>1. 1 \in Groups /\ call.counts \in [Groups -> Nat]
    BY <1>0, <1>1, <1>2, PayloadCall, GroupTypes
  <2> QED
    BY <1>10, <2>1
<1>12. ReadGroup' = 1 /\ ReadCells' = 1
  BY <1>10 DEF ReadGroup, ReadCells
<1>13. MemoryHolds(id, p, 1)'
  <2>1. \A f \in 0 .. 1 - 1 : f = 0 /\ 1 .. LenOf(p, f) = {}
    BY <1>5
  <2> QED
    BY <2>1 DEF MemoryHolds
<1>14. call'.nrd = Size(p, 1) + ReadCells'
  BY <1>1, <1>5, <1>10, <1>12
<1> QED
  BY <1>1, <1>6, <1>7, <1>10, <1>11, <1>12, <1>13, <1>14, PlacedAt

LEMMA TailServed ==
    ASSUME TypeOK, NEW id, InPlace(id), NEW res \in Results, Served(id, res),
           UNCHANGED sent, VarTail(res)
    PROVE  InPlace(id)'
<1> PICK p : p = sent[id]
  OBVIOUS
<1> DEFINE T    == TailLen(call.type, h.hdr.ver, call.counts[1])
           kept == IF call.type \in ClearsByRead THEN call.nrd + Count(res) ELSE 1 + T
           mem  == Copied(pkt.mem, 2, res.cells)
<1>0. call.pc = "tail" /\ call.pc \in PayloadPcs
  BY DEF VarTail, WantsPayload, PayloadPcs, ReadPcs, HeaderPcs
<1>1. /\ p \in Packets /\ id \in DOMAIN sent /\ call.type = p.type
      /\ h.hdr = HeaderOf(id, p) /\ h.hdr.ver = p.ver
      /\ call.nrd = Size(p, 1) + 1 /\ Wanted = TailLen(p.type, p.ver, p.counts[1])
      /\ Wanted \in Nat /\ 1 + Wanted = LenOf(p, 1)
  BY <1>0, PlaceCall DEF ReadGroup, ReadCells
<1>2. /\ call.counts[1] = p.counts[1]
      /\ pkt.mem[AddrOf(p.type, SlotAt(1, 1))] = Cell(id, SlotAt(1, 1))
  BY <1>0 DEF InPlace, ReadGroup, ReadCells
<1>3. /\ Codec[p.type] = "var" /\ NumGroups[p.type] = 1 /\ 1 \in 1 .. NumGroups[p.type]
      /\ 1 \in 0 .. NumGroups[p.type]
  BY <1>0, <1>1, GroupsAssumption DEF TypeOK, CallOK
<1>4. /\ res.cells \in Seq(AllCells) /\ Len(res.cells) = Wanted /\ Count(res) = Wanted
  BY <1>1, ServedType
<1>5. LenOf(p, 0) = 0 /\ Size(p, 1) = 0
  BY <1>1, <1>3, SizeEnds
<1>6. kept = 1 + Wanted
  BY <1>1, <1>2, <1>4, <1>5
<1>7. Written(mem, pkt.mem, 2, res.cells)
  BY <1>4, CopiedAt
<1>8. /\ call' = [call EXCEPT !.pc = "check", !.nrd = @ + Count(res)]
      /\ pkt' = [pkt EXCEPT !.mem = Cleared(mem, kept + 1)]
      /\ h' = [h EXCEPT !.head = @ \/ res.mark]
  BY DEF VarTail, GoOn, Marked
<1> HIDE DEF T, kept, mem
<1>9. /\ call'.pc = "check" /\ call'.type = call.type /\ call'.counts = call.counts
      /\ call'.nrd = call.nrd + Wanted /\ h'.hdr = h.hdr
      /\ pkt'.mem = Cleared(mem, kept + 1)
  BY <1>0, <1>4, <1>8, PayloadCall DEF Calls, Handles, Buffers
<1>10. ReadGroup' = 1 + 1 /\ ReadCells' = 0
  BY <1>1, <1>3, <1>9 DEF ReadGroup, ReadCells
<1>11. ASSUME NEW k \in 1 .. LenOf(p, 1)
       PROVE  pkt'.mem[AddrOf(p.type, SlotAt(1, k))] = Cell(id, SlotAt(1, k))
  <2>1. AddrOf(p.type, SlotAt(1, k)) = k /\ k \in 1 .. MemSize
    <3>1. /\ AddrOf(p.type, SlotAt(1, k)) = GroupAddr(p.type, 1) + (k - 1)
          /\ AddrOf(p.type, SlotAt(1, k)) \in 1 .. MemSize
      BY <1>1, <1>3, SlotAddr
    <3>2. PrefixLen[p.type][CurVer[p.type]] = 0 /\ MaxCount[p.type] \in Nat
      BY <1>1, <1>3, GroupTypes, PrefixPlace, TableAssumption
    <3>3. GroupAddr(p.type, 1) = 1 /\ k \in Int
      BY <3>2 DEF GroupAddr
    <3> QED
      BY <3>1, <3>3
  <2>2. Cleared(mem, kept + 1)[k] = mem[k]
    BY <1>1, <1>6, <2>1 DEF Cleared
  <2>3. CASE k = 1
    <3>1. mem[1] = pkt.mem[1]
      BY <1>7, <2>1, <2>3 DEF Written
    <3>2. pkt.mem[1] = Cell(id, SlotAt(1, 1))
      BY <1>2, <2>1, <2>3
    <3> QED
      BY <1>9, <2>1, <2>2, <2>3, <3>1, <3>2
  <2>4. CASE k # 1
    <3>1. k - 1 \in 1 .. Len(res.cells) /\ k + 1 = 2 + (k - 1) /\ 1 + (k - 1) = k
      BY <1>1, <1>4, <2>4
    <3>2. mem[k] = res.cells[k - 1]
      BY <1>7, <2>1, <3>1 DEF Written
    <3>3. res.cells[k - 1] = Cell(id, SlotAt(1, 1 + (k - 1)))
      BY <1>0, <1>4, <3>1 DEF Served, ReadGroup, ReadCells
    <3> QED
      BY <1>9, <2>1, <2>2, <3>1, <3>2, <3>3
  <2> QED
    BY <2>3, <2>4
<1>12. MemoryHolds(id, p, 1)'
  <2>1. \A f \in 0 .. 1 - 1 : f = 0 /\ 1 .. LenOf(p, f) = {}
    BY <1>5
  <2> QED
    BY <2>1 DEF MemoryHolds
<1>13. MemoryHolds(id, p, 1 + 1)'
  BY <1>1, <1>2, <1>3, <1>9, <1>11, <1>12, MemoryGrows
<1>14. Size(p, 1 + 1) = Size(p, 1) + LenOf(p, 1)
  BY <1>1, <1>3, SizeNext
<1>15. call'.nrd = Size(p, 1 + 1) + ReadCells'
  BY <1>1, <1>5, <1>9, <1>10, <1>14
<1> QED
  BY <1>1, <1>9, <1>10, <1>13, <1>15, PlacedAt


LEMMA PrefixServed ==
    ASSUME TypeOK, NEW id, InPlace(id), NEW res \in Results, Served(id, res),
           UNCHANGED sent, WavePrefix(res)
    PROVE  InPlace(id)'
<1> PICK p : p = sent[id]
  OBVIOUS
<1> DEFINE mem == Copied(pkt.mem, 1, res.cells)
<1>0. call.pc = "prefix" /\ call.pc \in PayloadPcs
  BY DEF WavePrefix, WantsPayload, PayloadPcs, ReadPcs, HeaderPcs
<1>1. /\ p \in Packets /\ id \in DOMAIN sent /\ call.type = p.type
      /\ h.hdr = HeaderOf(id, p) /\ h.hdr.ver = p.ver
      /\ call.nrd = Size(p, 0) + 0 /\ Wanted = LenOf(p, 0) /\ Wanted \in Nat
  BY <1>0, PlaceCall DEF ReadGroup, ReadCells
<1>2. /\ p.type \in Types /\ p.ver \in Nat /\ NumGroups[p.type] \in Nat
      /\ 0 \in 0 .. NumGroups[p.type]
  BY <1>1, GroupTypes
<1>3. /\ res.cells \in Seq(AllCells) /\ Len(res.cells) = Wanted /\ Count(res) = Wanted
      /\ ~res.err
  BY <1>1, ServedType
<1>4. Complete(res, Prefix(call.type, h.hdr.ver))
  BY <1>1, <1>3 DEF Complete, LenOf
<1>5. /\ call' = [call EXCEPT !.pc = "wf_head", !.nrd = @ + Count(res), !.grp = 1]
      /\ pkt' = [pkt EXCEPT !.mem = ReadoutCleared(mem)]
      /\ h' = [h EXCEPT !.head = @ \/ res.mark]
  BY <1>4 DEF WavePrefix, Marked
<1>6. Written(mem, pkt.mem, 1, res.cells)
  BY <1>3, CopiedAt
<1> HIDE DEF mem
<1>7. /\ call'.pc = "wf_head" /\ call'.type = call.type /\ call'.grp = 1
      /\ call'.nrd = call.nrd + Wanted /\ h'.hdr = h.hdr
      /\ pkt'.mem = ReadoutCleared(mem)
  BY <1>0, <1>3, <1>5, PayloadCall DEF Calls, Handles, Buffers
<1>8. ReadGroup' = 0 + 1 /\ ReadCells' = 0
  BY <1>7 DEF ReadGroup, ReadCells
<1>9. p.ver = 0 => LenOf(p, 0) = PrefixLen[p.type][0]
  <2>1. CurVer[p.type] \in Nat
    BY <1>2, TableAssumption
  <2> QED
    BY <2>1 DEF LenOf, Prefix, KnownVer
<1>10. ASSUME NEW k \in 1 .. LenOf(p, 0)
       PROVE  pkt'.mem[AddrOf(p.type, SlotAt(0, k))] = Cell(id, SlotAt(0, k))
  <2>1. AddrOf(p.type, SlotAt(0, k)) = k /\ k \in 1 .. MemSize
    BY <1>1, <1>2, SlotAddr
  <2>2. mem[k] = res.cells[k]
    <3>1. k \in 1 .. Len(res.cells) /\ k + 1 = 1 + k
      BY <1>1, <1>3
    <3> QED
      BY <1>6, <2>1, <3>1 DEF Written
  <2>3. res.cells[k] = Cell(id, SlotAt(0, 0 + k))
    BY <1>0, <1>1 DEF Served, ReadGroup, ReadCells
  <2>4. p.ver = 0 => k # PrefixLen[p.type][0] + 1
    BY <1>1, <1>9
  <2>5. ReadoutCleared(mem)[k] = mem[k]
    BY <1>1, <2>1, <2>4 DEF ReadoutCleared
  <2> QED
    BY <1>7, <2>1, <2>2, <2>3, <2>5
<1>11. MemoryHolds(id, p, 0)'
  BY DEF MemoryHolds
<1>12. MemoryHolds(id, p, 0 + 1)'
  BY <1>1, <1>2, <1>10, <1>11, MemoryGrows
<1>13. Size(p, 0 + 1) = Size(p, 0) + LenOf(p, 0) /\ Size(p, 0) \in Nat
  BY <1>1, <1>2, SizeNext, SizeType
<1>14. call'.nrd = Size(p, 0 + 1) + ReadCells'
  BY <1>1, <1>7, <1>8, <1>13
<1> QED
  BY <1>1, <1>7, <1>8, <1>12, <1>14, PlacedAt

LEMMA HeadServed ==
    ASSUME TypeOK, NEW id, InPlace(id), NEW res \in Results, Served(id, res),
           UNCHANGED sent, WaveHead(res)
    PROVE  InPlace(id)'
<1> PICK p : p = sent[id]
  OBVIOUS
<1> PICK g : g = call.grp
  OBVIOUS
<1> DEFINE a   == GroupAddr(p.type, g)
           mem == Copied(pkt.mem, a, res.cells)
<1>0. call.pc = "wf_head" /\ call.pc \in PayloadPcs
  BY DEF WaveHead, WantsPayload, PayloadPcs, ReadPcs, HeaderPcs
<1>1. /\ p \in Packets /\ id \in DOMAIN sent /\ call.type = p.type
      /\ h.hdr = HeaderOf(id, p) /\ MemoryHolds(id, p, g)
      /\ g \in 0 .. NumGroups[p.type] /\ g # 0
      /\ call.nrd = Size(p, g) + 0 /\ Wanted = 1
  BY <1>0, PlaceCall DEF ReadGroup, ReadCells
<1>2. /\ g \in 1 .. NumGroups[p.type] /\ g \in Groups
      /\ call.counts \in [Groups -> Nat]
  <2>1. g \in 1 .. NumGroups[p.type]
    BY <1>1, GroupTypes
  <2> QED
    BY <1>0, <1>1, <2>1, GroupTypes, PayloadCall
<1>3. /\ res.cells \in Seq(AllCells) /\ Len(res.cells) = 1 /\ Count(res) = 1 /\ ~res.err
  BY <1>1, ServedType
<1>4. /\ AddrOf(p.type, SlotAt(g, 1)) = a /\ a \in 1 .. MemSize /\ a \in Nat
  <2>1. 1 \in 1 .. LenOf(p, g)
    BY <1>1, <1>2, GroupTypes
  <2>2. /\ AddrOf(p.type, SlotAt(g, 1)) = GroupAddr(p.type, g) + (1 - 1)
        /\ AddrOf(p.type, SlotAt(g, 1)) \in 1 .. MemSize
    BY <1>1, <2>1, SlotAddr
  <2>3. GroupAddr(p.type, g) \in Nat
    BY <1>1, <1>2, GroupTypes, GroupPlaces
  <2> QED
    BY <2>2, <2>3
<1>5. Written(mem, pkt.mem, a, res.cells)
  BY <1>3, <1>4, CopiedAt
<1>6. Complete(res, 1)
  BY <1>3 DEF Complete
<1>7. mem = Copied(pkt.mem, GroupAddr(call.type, call.grp), res.cells)
      /\ a = GroupAddr(call.type, call.grp)
  BY <1>1
<1> HIDE DEF a, mem
<1>8. mem[a] = res.cells[1] /\ res.cells[1] = Cell(id, SlotAt(g, 1))
  <2>1. 1 \in 1 .. Len(res.cells) /\ a + 1 = a + 1
    BY <1>3
  <2>2. mem[a] = res.cells[1]
    BY <1>4, <1>5, <2>1 DEF Written
  <2>3. res.cells[1] = Cell(id, SlotAt(g, 0 + 1))
    BY <1>0, <1>1 DEF Served, ReadGroup, ReadCells
  <2> QED
    BY <2>2, <2>3
<1>9. CountsAt(call.type, mem[a]) = {p.counts[g]}
  BY <1>1, <1>2, <1>8, CountArrives
<1>10. /\ pkt' = [pkt EXCEPT !.mem = mem]
       /\ \E n \in CountsAt(call.type, mem[a]) :
             call' = [call EXCEPT !.pc = "wf_data", !.nrd = @ + 1,
                                  !.counts[call.grp] = n]
       /\ h' = [h EXCEPT !.head = @ \/ res.mark]
  BY <1>6, <1>7 DEF WaveHead, Marked
<1>11. call' = [call EXCEPT !.pc = "wf_data", !.nrd = @ + 1,
                            !.counts[call.grp] = p.counts[g]]
  BY <1>9, <1>10
<1>12. /\ call'.pc = "wf_data" /\ call'.nrd = call.nrd + 1 /\ call'.type = call.type
       /\ call'.counts = [call.counts EXCEPT ![g] = p.counts[g]] /\ call'.grp = g
       /\ pkt'.mem = mem /\ h'.hdr = h.hdr
  BY <1>0, <1>10, <1>11, PayloadCall DEF Calls, Handles, Buffers
<1>13. call'.counts[g] = p.counts[g]
  BY <1>2, <1>12
<1>14. ReadGroup' = g /\ ReadCells' = 1
  BY <1>12 DEF ReadGroup, ReadCells
<1>15. \A f \in 1 .. g - 1 : call'.counts[f] = call.counts[f]
  <2>1. \A f \in 1 .. g - 1 : f # g
    BY <1>2
  <2> QED
    BY <1>2, <1>12, <2>1
<1>16. \A b \in 1 .. MemSize : b < GroupAddr(p.type, g) => pkt'.mem[b] = pkt.mem[b]
  BY <1>5, <1>12 DEF Written, a
<1>17. MemoryHolds(id, p, g)'
  BY <1>1, <1>2, <1>15, <1>16, MemoryKept
<1>18. call'.nrd = Size(p, g) + ReadCells'
  BY <1>1, <1>12, <1>14, SizeType
<1>19. pkt'.mem[AddrOf(p.type, SlotAt(g, 1))] = Cell(id, SlotAt(g, 1))
  BY <1>4, <1>8, <1>12
<1> QED
  BY <1>1, <1>12, <1>13, <1>14, <1>17, <1>18, <1>19, PlacedAt

LEMMA DataServed ==
    ASSUME TypeOK, NEW id, InPlace(id), NEW res \in Results, Served(id, res),
           UNCHANGED sent, WaveData(res)
    PROVE  InPlace(id)'
<1> PICK p : p = sent[id]
  OBVIOUS
<1> PICK g : g = call.grp
  OBVIOUS
<1> DEFINE a   == GroupAddr(p.type, g)
           mem == Copied(pkt.mem, a + 1, res.cells)
           N   == NumGroups[p.type]
<1>0. call.pc = "wf_data" /\ call.pc \in PayloadPcs
  BY DEF WaveData, WantsPayload, PayloadPcs, ReadPcs, HeaderPcs
<1>1. /\ p \in Packets /\ id \in DOMAIN sent /\ call.type = p.type
      /\ h.hdr = HeaderOf(id, p) /\ h.hdr.ver = p.ver /\ MemoryHolds(id, p, g)
      /\ g \in 0 .. N /\ g # 0
      /\ call.nrd = Size(p, g) + 1 /\ Wanted = TailLen(p.type, p.ver, p.counts[g])
      /\ Wanted \in Nat /\ 1 + Wanted = LenOf(p, g)
  BY <1>0, PlaceCall DEF ReadGroup, ReadCells
<1>2. g \in 1 .. N /\ N \in Nat
  BY <1>1, GroupTypes
<1>3. /\ call.counts[g] = p.counts[g]
      /\ pkt.mem[AddrOf(p.type, SlotAt(g, 1))] = Cell(id, SlotAt(g, 1))
  BY <1>0 DEF InPlace, ReadGroup, ReadCells
<1>4. /\ res.cells \in Seq(AllCells) /\ Len(res.cells) = Wanted /\ Count(res) = Wanted
      /\ ~res.err
  BY <1>1, ServedType
<1>5. a \in Nat
  BY <1>1, <1>2, GroupTypes, GroupPlaces
<1>6. Written(mem, pkt.mem, a + 1, res.cells)
  <2>1. a + 1 \in Nat
    BY <1>5
  <2> QED
    BY <1>4, <2>1, CopiedAt
<1>7. TailLen(call.type, h.hdr.ver, call.counts[call.grp]) = Wanted
  BY <1>1, <1>3
<1>8. Complete(res, Wanted)
  BY <1>4 DEF Complete
<1>9. mem = Copied(pkt.mem, GroupAddr(call.type, call.grp) + 1, res.cells)
  BY <1>1
<1> HIDE DEF a, mem
<1>10. /\ pkt' = [pkt EXCEPT !.mem = mem]
       /\ call' = [call EXCEPT !.nrd = @ + Wanted,
                               !.pc  = IF call.grp = NumGroups[call.type]
                                       THEN "check" ELSE "wf_head",
                               !.grp = IF @ = NumGroups[call.type]
                                       THEN @ ELSE @ + 1]
       /\ h' = [h EXCEPT !.head = @ \/ res.mark]
  BY <1>7, <1>8, <1>9 DEF WaveData, Marked
<1>11. /\ call'.pc = IF g = N THEN "check" ELSE "wf_head"
       /\ call'.grp = IF g = N THEN g ELSE g + 1
       /\ call'.nrd = call.nrd + Wanted /\ call'.type = call.type
       /\ call'.counts = call.counts /\ pkt'.mem = mem /\ h'.hdr = h.hdr
  BY <1>0, <1>1, <1>10, PayloadCall DEF Calls, Handles, Buffers
<1>12. ReadGroup' = g + 1 /\ ReadCells' = 0
  <2>1. CASE g = N
    BY <1>1, <1>11, <2>1 DEF ReadGroup, ReadCells
  <2>2. CASE g # N
    BY <1>11, <2>2 DEF ReadGroup, ReadCells
  <2> QED
    BY <2>1, <2>2
<1>13. MemoryHolds(id, p, g)'
  <2>1. \A b \in 1 .. MemSize : b < GroupAddr(p.type, g) => pkt'.mem[b] = pkt.mem[b]
    BY <1>5, <1>6, <1>11 DEF Written, a
  <2> QED
    BY <1>1, <1>2, <1>11, <2>1, MemoryKept
<1>14. ASSUME NEW k \in 1 .. LenOf(p, g)
       PROVE  pkt'.mem[AddrOf(p.type, SlotAt(g, k))] = Cell(id, SlotAt(g, k))
  <2> DEFINE b == AddrOf(p.type, SlotAt(g, k))
  <2>1. b = a + (k - 1) /\ b \in 1 .. MemSize
    BY <1>1, SlotAddr DEF a
  <2> HIDE DEF b
  <2>2. CASE k = 1
    <3>1. b = a /\ b < a + 1
      BY <1>5, <2>1, <2>2
    <3>2. mem[b] = pkt.mem[b]
      BY <1>6, <2>1, <3>1 DEF Written
    <3>3. pkt.mem[b] = Cell(id, SlotAt(g, k))
      BY <1>3, <2>2 DEF b
    <3> QED
      BY <1>11, <3>2, <3>3 DEF b
  <2>3. CASE k # 1
    <3>1. k - 1 \in 1 .. Len(res.cells) /\ b + 1 = (a + 1) + (k - 1) /\ 1 + (k - 1) = k
      BY <1>1, <1>4, <1>5, <2>1, <2>3
    <3>2. mem[b] = res.cells[k - 1]
      BY <1>6, <2>1, <3>1 DEF Written
    <3>3. res.cells[k - 1] = Cell(id, SlotAt(g, 1 + (k - 1)))
      BY <1>0, <1>4, <3>1 DEF Served, ReadGroup, ReadCells
    <3> QED
      BY <1>11, <3>1, <3>2, <3>3 DEF b
  <2> QED
    BY <2>2, <2>3
<1>15. MemoryHolds(id, p, g + 1)'
  BY <1>1, <1>3, <1>11, <1>13, <1>14, MemoryGrows
<1>16. Size(p, g + 1) = Size(p, g) + LenOf(p, g) /\ Size(p, g) \in Nat
  BY <1>1, SizeNext, SizeType
<1>17. call'.nrd = Size(p, g + 1) + ReadCells'
  BY <1>1, <1>11, <1>12, <1>16
<1> QED
  BY <1>1, <1>11, <1>12, <1>15, <1>17, PlacedAt


(* Whichever payload reader runs: it counts what it got, and goes on or is *)
(* done.                                                                   *)
LEMMA PayloadServed ==
    ASSUME TypeOK, NEW id, InPlace(id), call.pc \in PayloadPcs,
           NEW res \in Results, Served(id, res), UNCHANGED sent, Receive(res)
    PROVE  /\ InPlace(id)' /\ call'.pc \in PayloadPcs \cup {"check"}
           /\ call'.nrd = call.nrd + Wanted /\ call'.ret = call.ret
           /\ call.pc \in {"tail", "wf_data"} /\ ReadGroup = NumGroups[call.type] =>
                 call'.pc = "check"
           /\ h'.hdr = h.hdr /\ h'.required = h.required
           /\ h'.bytesRead = h.bytesRead /\ h'.head = (h.head \/ res.mark)
           /\ out' = out
<1>0. /\ h \in Handles /\ call \in Calls /\ Wanted \in Nat
      /\ Len(res.cells) = Wanted /\ Count(res) = Wanted /\ ~res.err
      /\ res.mark \in BOOLEAN
  BY PlaceCall, ServedType DEF TypeOK, Results
<1>1. call.pc \notin HeaderPcs
  BY DEF PayloadPcs
<1>2. SimpleRead(res) \/ VarFixed(res) \/ VarTail(res)
        \/ WavePrefix(res) \/ WaveHead(res) \/ WaveData(res)
  BY <1>1 DEF Receive, HeaderArrives, HeaderNothing, HeaderFails
<1>3. InPlace(id)'
  BY <1>2, SimpleServed, FixedServed, TailServed, PrefixServed, HeadServed, DataServed
<1>4. out' = out
  BY <1>2 DEF SimpleRead, VarFixed, VarTail, WavePrefix, WaveHead, WaveData
<1>5. ASSUME Marked(res)
      PROVE  /\ h'.hdr = h.hdr /\ h'.required = h.required
             /\ h'.bytesRead = h.bytesRead /\ h'.head = (h.head \/ res.mark)
  <2>1. h' = [h EXCEPT !.head = h.head \/ res.mark]
    BY <1>5 DEF Marked
  <2> QED
    BY <1>0, <2>1 DEF Handles
<1>6. /\ Marked(res)
      /\ call'.pc \in PayloadPcs \cup {"check"}
      /\ call'.nrd = call.nrd + Wanted /\ call'.ret = call.ret
      /\ call.pc \in {"tail", "wf_data"} /\ ReadGroup = NumGroups[call.type] =>
            call'.pc = "check"
  <2> USE DEF WantsPayload
  <2>1. CASE SimpleRead(res)
    <3>1. call.pc = "simple" /\ Marked(res)
          /\ call' = [call EXCEPT !.pc = "check", !.nrd = @ + Count(res)]
      BY <2>1 DEF SimpleRead, GoOn
    <3> QED
      BY <1>0, <3>1 DEF Calls
  <2>2. CASE VarTail(res)
    <3>1. call.pc = "tail" /\ Marked(res)
          /\ call' = [call EXCEPT !.pc = "check", !.nrd = @ + Count(res)]
      BY <2>2 DEF VarTail, GoOn
    <3> QED
      BY <1>0, <3>1 DEF Calls
  <2>3. CASE VarFixed(res)
    <3>1. /\ call.pc = "fixed" /\ Marked(res)
          /\ \E n : call' = [call EXCEPT !.pc = "tail", !.nrd = @ + Count(res),
                                         !.counts[1] = n]
      BY <2>3 DEF VarFixed
    <3> QED
      BY <1>0, <3>1 DEF Calls, PayloadPcs, ReadPcs, HeaderPcs
  <2>4. CASE WavePrefix(res)
    <3>1. call.pc = "prefix" /\ Complete(res, Prefix(call.type, h.hdr.ver))
      BY <1>0, <2>4 DEF WavePrefix, Complete, Wanted, HeaderPcs
    <3>2. /\ Marked(res)
          /\ call' = [call EXCEPT !.pc = "wf_head", !.nrd = @ + Count(res), !.grp = 1]
      BY <2>4, <3>1 DEF WavePrefix
    <3> QED
      BY <1>0, <3>1, <3>2 DEF Calls, PayloadPcs, ReadPcs, HeaderPcs
  <2>5. CASE WaveHead(res)
    <3>1. call.pc = "wf_head" /\ Complete(res, 1) /\ Wanted = 1
      BY <1>0, <2>5 DEF WaveHead, Complete, Wanted, HeaderPcs
    <3>2. /\ Marked(res)
          /\ \E n : call' = [call EXCEPT !.pc = "wf_data", !.nrd = @ + 1,
                                         !.counts[call.grp] = n]
      BY <2>5, <3>1 DEF WaveHead
    <3> QED
      BY <1>0, <3>1, <3>2 DEF Calls, PayloadPcs, ReadPcs, HeaderPcs
  <2>6. CASE WaveData(res)
    <3>1. /\ call.pc = "wf_data"
          /\ Wanted = TailLen(call.type, h.hdr.ver, call.counts[call.grp])
      BY <2>6 DEF WaveData, Wanted, HeaderPcs
    <3>2. Complete(res, TailLen(call.type, h.hdr.ver, call.counts[call.grp]))
      BY <1>0, <3>1 DEF Complete
    <3>3. /\ Marked(res)
          /\ call' = [call EXCEPT !.nrd = @ + Wanted,
                               !.pc  = IF call.grp = NumGroups[call.type]
                                       THEN "check" ELSE "wf_head",
                               !.grp = IF @ = NumGroups[call.type]
                                       THEN @ ELSE @ + 1]
      BY <2>6, <3>1, <3>2 DEF WaveData
    <3>4. ReadGroup = call.grp
      BY <3>1 DEF ReadGroup
    <3>5. /\ call'.pc = IF call.grp = NumGroups[call.type] THEN "check" ELSE "wf_head"
          /\ call'.nrd = call.nrd + Wanted /\ call'.ret = call.ret
      BY <1>0, <3>3 DEF Calls
    <3> QED
      BY <3>1, <3>3, <3>4, <3>5 DEF PayloadPcs, ReadPcs, HeaderPcs
  <2> QED
    BY <1>2, <2>1, <2>2, <2>3, <2>4, <2>5, <2>6
<1> QED
  BY <1>3, <1>4, <1>5, <1>6

(* Cells that lie where a packet has them are what its reader is served.   *)
LEMMA WholeServes ==
    ASSUME TypeOK, NEW id, InPlace(id), call.pc \in PayloadPcs,
           NEW cells, NEW b \in Nat, HoldsWhole(cells, b, id, sent[id])
    PROVE  \A k \in 1 .. Wanted :
              cells[b + HeadLen + call.nrd + k] = Cell(id, SlotAt(ReadGroup, ReadCells + k))
<1> PICK p : p = sent[id]
  OBVIOUS
<1> PICK g : g = ReadGroup
  OBVIOUS
<1> PICK c : c = ReadCells
  OBVIOUS
<1>1. /\ p \in Packets /\ g \in 0 .. NumGroups[p.type]
      /\ call.nrd = Size(p, g) + c /\ c + Wanted <= LenOf(p, g) /\ Wanted \in Nat
      /\ c \in Nat
  BY PlaceCall DEF ReadCells
<1>2. LenOf(p, g) \in Nat /\ Size(p, g) \in Nat /\ NumGroups[p.type] \in Nat
  BY <1>1, GroupTypes, SizeType
<1>3. \A k \in 1 .. LenOf(p, g) : cells[b + HeadLen + Size(p, g) + k] = Cell(id, SlotAt(g, k))
  <2>1. g \in 0 .. (NumGroups[p.type] + 1) - 1
    BY <1>1, <1>2
  <2> QED
    BY <2>1 DEF HoldsWhole, Holds
<1>4. ASSUME NEW k \in 1 .. Wanted
      PROVE  cells[b + HeadLen + call.nrd + k] = Cell(id, SlotAt(g, c + k))
  <2>1. c + k \in 1 .. LenOf(p, g)
    BY <1>1, <1>2
  <2>2. b + HeadLen + call.nrd + k = b + HeadLen + Size(p, g) + (c + k)
    BY <1>1, <1>2 DEF HeadLen
  <2>3. cells[b + HeadLen + Size(p, g) + (c + k)] = Cell(id, SlotAt(g, c + k))
    BY <1>3, <2>1
  <2> QED
    BY <2>2, <2>3
<1> QED
  BY <1>4

-----------------------------------------------------------------------------
(* The header before the payload, and the check behind it.                 *)

(* A whole header is read as what it says.                                 *)
LEMMA HeaderServed ==
    ASSUME NEW id \in DOMAIN sent, NEW cells, Len(cells) = HeadLen,
           \A k \in 1 .. HeadLen : cells[k] = Cell(id, HeadSlot(k)), NEW hdr
    PROVE  Overlaid(hdr, cells) = {HeaderOf(id, sent[id])}
<1> DEFINE p == sent[id]
           a == [type |-> p.type, sum |-> id]
           b == [ver |-> p.ver, nbytes |-> NumBytes(p.type, p.ver, p.counts)]
<1>1. \A k \in 1 .. HeadLen : IsHead(cells[k], k) /\ cells[k][1] = id
  BY DEF IsHead, Cell, HeadSlot
<1>2. 1 \in 1 .. HeadLen /\ 2 \in 1 .. HeadLen /\ Len(cells) >= 1 /\ Len(cells) >= 2
  BY DEF HeadLen
<1>3. FirstHalf(cells[1]) = {a}
  BY <1>1, <1>2 DEF FirstHalf
<1>4. SecondHalf(cells[2]) = {b}
  BY <1>1, <1>2 DEF SecondHalf
<1>5. Overlaid(hdr, cells) =
        {[type |-> x.type, sum |-> x.sum, ver |-> y.ver, nbytes |-> y.nbytes] :
            x \in {a}, y \in {b}}
  BY <1>2, <1>3, <1>4 DEF Overlaid
<1>6. Overlaid(hdr, cells) =
        {[type |-> a.type, sum |-> a.sum, ver |-> b.ver, nbytes |-> b.nbytes]}
  BY <1>5
<1> QED
  BY <1>6 DEF HeaderOf

(* The reader of a payload starts in its place.                            *)
LEMMA StartsInPlace ==
    ASSUME NEW id \in DOMAIN sent, sent[id] \in Packets, UNCHANGED sent,
           h'.hdr = HeaderOf(id, sent[id]), call'.type = sent[id].type,
           call'.pc = FirstRead(call'.type), call'.nrd = 0
    PROVE  InPlace(id)' /\ call'.pc \in PayloadPcs
<1> PICK p : p = sent[id]
  OBVIOUS
<1>1. p \in Packets /\ p.type \in Types /\ Codec[p.type] \in Codecs
  BY GroupTypes, TableAssumption
<1>2. CASE Codec[p.type] = "var"
  <2>1. call'.pc = "fixed"
    BY <1>2 DEF FirstRead
  <2>2. ReadGroup' = 1 /\ ReadCells' = 0
    BY <2>1 DEF ReadGroup, ReadCells
  <2>3. Size(p, 1) = 0 /\ LenOf(p, 0) = 0
    BY <1>1, <1>2, SizeEnds
  <2>4. \A f \in 0 .. 1 - 1 : f = 0 /\ 1 .. LenOf(p, f) = {}
    BY <2>3
  <2>5. MemoryHolds(id, p, 1)'
    BY <2>4 DEF MemoryHolds
  <2>6. call'.nrd = Size(p, 1) + ReadCells'
    BY <2>2, <2>3
  <2>7. InPlace(id)'
    BY <2>2, <2>5, <2>6, PlacedAt
  <2> QED
    BY <2>1, <2>7 DEF PayloadPcs, ReadPcs, HeaderPcs
<1>3. CASE Codec[p.type] # "var"
  <2>1. call'.pc \in {"simple", "prefix"}
    BY <1>1, <1>3 DEF FirstRead, Codecs
  <2>2. ReadGroup' = 0 /\ ReadCells' = 0
    BY <2>1 DEF ReadGroup, ReadCells
  <2>3. Size(p, 0) = 0
    BY <1>1, SizeEnds
  <2>4. MemoryHolds(id, p, 0)'
    BY DEF MemoryHolds
  <2>5. call'.nrd = Size(p, 0) + ReadCells'
    BY <2>2, <2>3
  <2>6. InPlace(id)'
    BY <2>2, <2>4, <2>5, PlacedAt
  <2> QED
    BY <2>1, <2>6 DEF PayloadPcs, ReadPcs, HeaderPcs
<1> QED
  BY <1>2, <1>3

(* The reader that kept its place to the end has read a packet that is not *)
(* empty, and there is nothing to warn of.                                 *)
LEMMA CheckServed ==
    ASSUME TypeOK, NEW id, InPlace(id), call.pc = "check"
    PROVE  /\ Silent /\ h.hdr.sum = id /\ call.nrd > 0
           /\ call.nrd = NumBytes(sent[id].type, sent[id].ver, sent[id].counts)
<1> PICK p : p = sent[id]
  OBVIOUS
<1> DEFINE N == NumGroups[p.type]
           n == NumBytes(p.type, p.ver, p.counts)
<1>1. /\ p \in Packets /\ id \in DOMAIN sent /\ h.hdr = HeaderOf(id, p)
      /\ call.type = p.type /\ ReadGroup = N + 1 /\ ReadCells = 0
      /\ call.nrd = Size(p, N + 1) + 0 /\ MemoryHolds(id, p, N + 1)
  BY SentTypes DEF InPlace, ReadGroup, ReadCells
<1>2. N \in Nat /\ n \in Nat /\ Size(p, N + 1) = n /\ h.hdr.ver = p.ver
      /\ h.hdr.sum = id /\ h.hdr.nbytes = n
  BY <1>1, GroupTypes, NumBytesType, SizeEnds DEF HeaderOf
<1>3. call.nrd = n
  BY <1>1, <1>2
<1>4. \A f \in 1 .. N : call.counts[f] = p.counts[f]
  BY <1>1, <1>2 DEF MemoryHolds
<1>5. WireSlotsRead = WireOf(p)
  <2> DEFINE tail(c, g) == {Slot(g, i) : i \in 0 .. TailLen(p.type, p.ver, c[g])}
  <2>1. \A f \in 1 .. N : tail(call.counts, f) = tail(p.counts, f)
    BY <1>4
  <2>2. \A c : WireSlots(p.type, p.ver, c)
                 = {Slot(0, i) : i \in 1 .. Prefix(p.type, p.ver)}
                     \cup UNION {tail(c, g) : g \in 1 .. N}
    BY DEF WireSlots
  <2> HIDE DEF tail, N
  <2>3. UNION {tail(call.counts, g) : g \in 1 .. N} = UNION {tail(p.counts, g) : g \in 1 .. N}
    BY <2>1
  <2>4. WireSlotsRead = WireSlots(p.type, p.ver, call.counts)
    BY <1>1, <1>2 DEF WireSlotsRead
  <2>5. WireSlots(p.type, p.ver, call.counts) = WireSlots(p.type, p.ver, p.counts)
    BY <2>2, <2>3
  <2> QED
    BY <2>4, <2>5 DEF WireOf
<1>6. ASSUME NEW s \in WireOf(p)
      PROVE  pkt.mem[AddrOf(p.type, s)] = Cell(id, s)
  <2>1. s[1] \in 0 .. N
    BY <1>1, GroupOfSlot
  <2>2. PICK k \in 1 .. LenOf(p, s[1]) : s = SlotAt(s[1], k)
    BY <1>1, <2>1, SlotsOfGroup
  <2>3. s[1] \in 0 .. (N + 1) - 1
    BY <1>2, <2>1
  <2> HIDE DEF N
  <2> QED
    BY <1>1, <2>2, <2>3 DEF MemoryHolds
<1>7. ChecksumOk
  BY <1>1, <1>2, <1>5, <1>6 DEF ChecksumOk, WireOf
<1>8. LengthOk
  BY <1>2, <1>3, <1>5 DEF LengthOk, NumBytes, WireOf
<1>9. n > 0
  <2>1. CASE Codec[p.type] = "var"
    <3>1. N = 1 /\ 1 \in 0 .. N /\ 1 < N + 1
      BY <1>1, <2>1, GroupTypes, GroupsAssumption
    <3>2. Size(p, 1) + LenOf(p, 1) <= Size(p, N + 1)
      BY <1>1, <1>2, <3>1, SizeGrows
    <3>3. LenOf(p, 1) >= 1 /\ LenOf(p, 1) \in Nat /\ Size(p, 1) \in Nat
      BY <1>1, <3>1, GroupTypes, SizeType
    <3> QED
      BY <1>2, <3>2, <3>3
  <2>2. CASE Codec[p.type] # "var"
    <3>1. 0 \in 0 .. N /\ 0 < N + 1
      BY <1>2
    <3>2. Size(p, 0) + LenOf(p, 0) <= Size(p, N + 1)
      BY <1>1, <1>2, <3>1, SizeGrows
    <3>3. LenOf(p, 0) \in Nat /\ LenOf(p, 0) > 0 /\ Size(p, 0) \in Nat
      BY <1>1, <2>2, PrefixNotEmpty, SizeType
    <3> QED
      BY <1>2, <3>2, <3>3
  <2> QED
    BY <2>1, <2>2
<1> QED
  BY <1>2, <1>3, <1>7, <1>8, <1>9 DEF Silent
=============================================================================
