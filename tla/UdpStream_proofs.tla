--------------------------- MODULE UdpStream_proofs -------------------------
(***************************************************************************)
(* UdpStream for every packet table, client, UDP_MAX and network, and any  *)
(* number of faults: a datagram makes at most one packet that is returned  *)
(* without a warning, a packet that was cut off makes none, and the writer *)
(* counts the datagrams it has sent.                                       *)
(***************************************************************************)
EXTENDS UdpStream, PacketReading_proofs

-----------------------------------------------------------------------------
(* Datagrams.                                                              *)

(* What the reader of a packet puts at the start of its memory.            *)
FirstSlot(p) == IF Codec[p.type] = "var" THEN Slot(1, 0) ELSE Slot(0, 1)
FirstCell(id) == Cell(id, FirstSlot(sent[id]))

(* A datagram is of one packet, and has that cell behind the header or,    *)
(* cut off before it, not at all.                                          *)
DatagramOf(cells, id) ==
    /\ id \in DOMAIN sent
    /\ cells \in Seq(AllCells) /\ Len(cells) >= HeadLen
    /\ \A i \in 1 .. Len(cells) :
          cells[i][1] = id /\ (cells[i] = FirstCell(id) => i = HeadLen + 1)

NetOK ==
    /\ IsFiniteSet(net)
    /\ \A d \in net : DatagramOf(d[1], d[1][1][1])
    /\ rbuf # <<>> => DatagramOf(rbuf, rbuf[1][1])
    /\ rbuf \in Seq(AllCells) /\ nout \in 0 .. Len(rbuf)

-----------------------------------------------------------------------------
(* The writer: its buffer is the datagram in progress, and is empty        *)
(* between two, unless not even a header fits.                             *)

Fields == {"pc", "id", "region", "nwr", "counter", "bytes", "ret"}

WriterOK ==
    /\ DOMAIN w = Fields
    /\ w.pc \in {"idle", "head", "region", "done"}
    /\ w.id \in Nat /\ w.region \in Nat /\ w.nwr \in Nat /\ w.counter \in Nat
    /\ w.pc # "idle" => w.id = Len(sent) /\ w.id # 0 /\ copies[w.id] = 0
    /\ wbuf \in Seq(AllCells) /\ Len(wbuf) <= scene.udpMax
    /\ w.pc \in {"idle", "head"} => wbuf = <<>> \/ scene.udpMax < HeadLen
    /\ w.pc = "head" => w.region = 1
    /\ w.pc \in {"region", "done"} => DatagramOf(wbuf, w.id)
    /\ w.pc = "region" => /\ w.region \in 1 .. Len(Regions(w.id, sent[w.id]))
                          /\ w.region = 1 => Len(wbuf) = HeadLen

Sent == {id \in DOMAIN copies : copies[id] > 0}

CountOK ==
    /\ copies \in Seq(Nat) /\ Len(copies) = Len(sent)
    /\ w.counter = Cardinality(Sent)

-----------------------------------------------------------------------------
(* The account of a packet: each copy of its datagram is under way, in the *)
(* reader's buffer, in the memory of the call in progress, or has been     *)
(* returned.                                                               *)

Of(datagrams, id) == {d \in datagrams : d[1][1][1] = id}

UnderWay(id) == Cardinality(Of(net, id))

InBuffer(id) == IF rbuf # <<>> /\ rbuf[1][1] = id /\ nout <= HeadLen THEN 1 ELSE 0

(* This call has filled the start of memory, and has lost nothing so far.  *)
Whole == IF Codec[call.type] = "wave" THEN call.nrd # -1
         ELSE call.nrd = Cardinality(WireSlotsRead)

Begun == \/ call.pc = "tail" /\ call.nrd = 1
         \/ call.pc \in {"wf_head", "wf_data"}
         \/ call.pc = "check" /\ Whole

InMemory(id) == IF Begun /\ pkt.mem[1] = FirstCell(id) THEN 1 ELSE 0

AccountOK ==
    \A id \in DOMAIN sent :
        UnderWay(id) + InBuffer(id) + InMemory(id) + Occurrences(id) <= copies[id]

CountedOK ==
    /\ call.pc \in HeaderPcs \cup {"capacity", "simple", "fixed", "prefix"} =>
          call.nrd = 0
    /\ call.pc = "tail" => call.nrd <= 1

PlaceOK == CountedOK /\ (Begun => pkt.mem[1][1] \in DOMAIN sent)

OutOK == \A i \in DOMAIN out : out[i] # 0 => out[i] \in DOMAIN sent

SceneOK == TypeOK /\ scene \in Scenes /\ lost \in Nat /\ failed \in Nat
           /\ Faults <= scene.faults

UInv == SceneOK /\ NetOK /\ WriterOK /\ CountOK /\ PlaceOK /\ OutOK /\ AccountOK

-----------------------------------------------------------------------------
(* The layout of packets.                                                  *)

LEMMA SameLayout ==
    ASSUME NEW id, NEW p
    PROVE  /\ Write!Regions(id, p) = Regions(id, p)
           /\ Write!HeadCells(id) = HeadCells(id)
           /\ Write!HeadLen = HeadLen
<1>1. \A t, v, n : Write!TailLen(t, v, n) = TailLen(t, v, n)
  BY DEF Write!TailLen, TailLen
<1>2. \A g, n : Write!GroupCells(id, g, n) = GroupCells(id, g, n)
  BY DEF Write!GroupCells, GroupCells, Write!Cell, Cell, Write!Slot, Slot
<1>3. \A t, v : Write!PrefixCells(id, t, v) = PrefixCells(id, t, v)
  BY DEF Write!PrefixCells, PrefixCells, Write!Cell, Cell, Write!Slot, Slot,
         Write!Prefix, Prefix, Write!KnownVer, KnownVer
<1>4. Write!Regions(id, p) = Regions(id, p)
  BY <1>1, <1>2, <1>3 DEF Write!Regions, Regions
<1> QED
  BY <1>4 DEF Write!HeadCells, HeadCells, Write!HeadLen, HeadLen, Write!Cell, Cell,
              Write!HeadSlot, HeadSlot

(* The cell an account is kept of is written once, first of the payload.   *)
LEMMA FirstOnly ==
    ASSUME NEW id \in Nat, NEW p \in Packets,
           NEW r \in 1 .. Len(Regions(id, p)), NEW k \in 1 .. Len(Regions(id, p)[r])
    PROVE  /\ Regions(id, p)[r] \in Seq(AllCells)
           /\ Regions(id, p)[r][k][1] = id
           /\ Regions(id, p)[r][k] = Cell(id, FirstSlot(p)) => r = 1 /\ k = 1
<1> DEFINE cells == Regions(id, p)[r]
           g     == GroupOf(p.type, r)
<1>1. /\ cells \in Seq(AllCells) /\ g \in Nat
      /\ cells[k] = Cell(id, Slot(g, IF g = 0 THEN k ELSE k - 1))
  BY RegionsOf
<1>2. Len(Regions(id, p)) \in Nat /\ r \in Nat /\ k \in Nat
  BY <1>1, RegionsOf
<1>3. cells[k][1] = id
  BY <1>1 DEF Cell
<1>4. ASSUME cells[k] = Cell(id, FirstSlot(p)) PROVE r = 1 /\ k = 1
  <2>1. <<g, IF g = 0 THEN k ELSE k - 1>> =
           IF Codec[p.type] = "var" THEN <<1, 0>> ELSE <<0, 1>>
    BY <1>1, <1>4 DEF Cell, Slot, FirstSlot
  <2>2. CASE Codec[p.type] = "var"
    <3>1. g = r
      BY <2>2 DEF GroupOf
    <3> HIDE DEF g
    <3> QED
      BY <1>2, <2>1, <2>2, <3>1
  <2>3. CASE Codec[p.type] # "var"
    <3>1. g = r - 1
      BY <2>3 DEF GroupOf
    <3> HIDE DEF g
    <3> QED
      BY <1>2, <2>1, <2>3, <3>1
  <2> QED
    BY <2>2, <2>3
<1> QED
  BY <1>1, <1>3, <1>4

-----------------------------------------------------------------------------
(* Numbers of datagrams and of returned packets.                           *)

LEMMA OfFinite ==
    ASSUME NEW S, IsFiniteSet(S), NEW id
    PROVE  IsFiniteSet(Of(S, id)) /\ Cardinality(Of(S, id)) \in Nat
BY FS_Subset, FS_CardinalityType DEF Of

LEMMA OfRemoved ==
    ASSUME NEW S, IsFiniteSet(S), NEW d \in S
    PROVE  /\ IsFiniteSet(S \ {d})
           /\ \A id : Cardinality(Of(S \ {d}, id)) =
                 Cardinality(Of(S, id)) - (IF d[1][1][1] = id THEN 1 ELSE 0)
<1>1. IsFiniteSet(S \ {d})
  BY FS_Subset
<1>2. ASSUME NEW id, d[1][1][1] = id
      PROVE  Cardinality(Of(S \ {d}, id)) = Cardinality(Of(S, id)) - 1
  <2>1. Of(S \ {d}, id) = Of(S, id) \ {d} /\ d \in Of(S, id)
    BY <1>2 DEF Of
  <2> QED
    BY <2>1, OfFinite, FS_RemoveElement
<1>3. ASSUME NEW id, d[1][1][1] # id
      PROVE  Cardinality(Of(S \ {d}, id)) = Cardinality(Of(S, id)) - 0
  <2>1. Of(S \ {d}, id) = Of(S, id)
    BY <1>3 DEF Of
  <2> QED
    BY <2>1, OfFinite
<1> QED
  BY <1>1, <1>2, <1>3

LEMMA OfAdded ==
    ASSUME NEW S, IsFiniteSet(S), NEW d
    PROVE  /\ IsFiniteSet(S \cup {d})
           /\ \A id : Cardinality(Of(S \cup {d}, id)) <=
                 Cardinality(Of(S, id)) + (IF d[1][1][1] = id THEN 1 ELSE 0)
<1>1. IsFiniteSet(S \cup {d})
  BY FS_AddElement
<1>2. ASSUME NEW id, d[1][1][1] = id
      PROVE  Cardinality(Of(S \cup {d}, id)) <= Cardinality(Of(S, id)) + 1
  <2>1. Of(S \cup {d}, id) = Of(S, id) \cup {d}
    BY <1>2 DEF Of
  <2>2. Cardinality(Of(S, id) \cup {d}) = Cardinality(Of(S, id))
        \/ Cardinality(Of(S, id) \cup {d}) = Cardinality(Of(S, id)) + 1
    BY OfFinite, FS_AddElement
  <2>3. Cardinality(Of(S, id)) \in Nat
    BY OfFinite
  <2> QED
    BY <2>1, <2>2, <2>3
<1>3. ASSUME NEW id, d[1][1][1] # id
      PROVE  Cardinality(Of(S \cup {d}, id)) <= Cardinality(Of(S, id)) + 0
  <2>1. Of(S \cup {d}, id) = Of(S, id)
    BY <1>3 DEF Of
  <2> QED
    BY <2>1, OfFinite
<1> QED
  BY <1>1, <1>2, <1>3

(* How often a packet has been returned.                                   *)
LEMMA OccurrencesType ==
    ASSUME out \in Seq(Nat), NEW id
    PROVE  /\ IsFiniteSet({i \in DOMAIN out : out[i] = id})
           /\ Occurrences(id) \in Nat
<1>1. IsFiniteSet(DOMAIN out)
  <2>1. DOMAIN out = 1 .. Len(out) /\ Len(out) \in Nat
    OBVIOUS
  <2> QED
    BY <2>1, FS_Interval
<1> QED
  BY <1>1, FS_Subset, FS_CardinalityType DEF Occurrences

LEMMA OccurrencesStep ==
    ASSUME out \in Seq(Nat), NEW x \in Nat, out' = Append(out, x), NEW id
    PROVE  Occurrences(id)' = Occurrences(id) + (IF x = id THEN 1 ELSE 0)
<1> DEFINE S == {i \in DOMAIN out : out[i] = id}
           T == {i \in DOMAIN out' : out'[i] = id}
           n == Len(out) + 1
<1>1. /\ DOMAIN out = 1 .. Len(out) /\ Len(out) \in Nat
      /\ DOMAIN out' = 1 .. n /\ n \in Nat /\ n \notin DOMAIN out
      /\ out'[n] = x /\ \A i \in 1 .. Len(out) : out'[i] = out[i]
  OBVIOUS
<1>2. 1 .. n = (1 .. Len(out)) \cup {n}
  BY <1>1
<1>3. IsFiniteSet(S) /\ n \notin S
  BY <1>1, OccurrencesType
<1> HIDE DEF n
<1>4. CASE x = id
  <2>1. T = S \cup {n}
    BY <1>1, <1>2, <1>4
  <2> HIDE DEF S, T
  <2>2. Cardinality(T) = Cardinality(S) + 1
    BY <1>3, <2>1, FS_AddElement
  <2> QED
    BY <1>4, <2>2 DEF S, T, Occurrences
<1>5. CASE x # id
  <2>1. T = S
    BY <1>1, <1>2, <1>5
  <2>2. Occurrences(id)' = Occurrences(id)
    BY <2>1 DEF Occurrences
  <2>3. Occurrences(id) \in Nat
    BY OccurrencesType
  <2> QED
    BY <1>5, <2>2, <2>3
<1> QED
  BY <1>4, <1>5

-----------------------------------------------------------------------------
(* The writer.                                                             *)

(* A step of the writer or of the network leaves the reader alone.         *)
ReaderSame == UNCHANGED <<scene, readVars, rbuf, nout, failed>>

SentGrows == /\ sent' \in Seq(Shapes)
             /\ DOMAIN sent \subseteq DOMAIN sent'
             /\ \A id \in DOMAIN sent : sent'[id] = sent[id]

LEMMA SameDatagrams ==
    ASSUME SentGrows, NEW id \in DOMAIN sent
    PROVE  /\ FirstCell(id)' = FirstCell(id)
           /\ \A cells : DatagramOf(cells, id) => DatagramOf(cells, id)'
BY DEF SentGrows, FirstCell, DatagramOf

(* What the reader has stays well formed.                                  *)
LEMMA ReaderSameOK ==
    ASSUME SceneOK, NetOK, PlaceOK, OutOK, ReaderSame, SentGrows
    PROVE  /\ TypeOK' /\ PlaceOK' /\ OutOK' /\ scene' \in Scenes /\ failed' \in Nat
           /\ rbuf # <<>> => DatagramOf(rbuf, rbuf[1][1])'
           /\ rbuf' \in Seq(AllCells) /\ nout' \in 0 .. Len(rbuf')
           /\ \A id \in DOMAIN sent : /\ InBuffer(id)' = InBuffer(id)
                                      /\ InMemory(id)' = InMemory(id)
                                      /\ Occurrences(id)' = Occurrences(id)
<1>0. UNCHANGED <<scene, h, pkt, call, out, rbuf, nout, failed>>
  BY DEF ReaderSame, readVars
<1>1. TypeOK'
  BY <1>0 DEF SceneOK, TypeOK, CallOK, SentGrows
<1>2. WireSlotsRead' = WireSlotsRead
  BY <1>0 DEF WireSlotsRead
<1>3. Begun' = Begun
  BY <1>0, <1>2 DEF Begun, Whole
<1>4. PlaceOK'
  BY <1>0, <1>3 DEF PlaceOK, CountedOK, SentGrows
<1>5. OutOK'
  BY <1>0 DEF OutOK, SentGrows
<1>6. rbuf # <<>> => DatagramOf(rbuf, rbuf[1][1])'
  <2>1. rbuf # <<>> => DatagramOf(rbuf, rbuf[1][1]) /\ rbuf[1][1] \in DOMAIN sent
    BY DEF NetOK, DatagramOf
  <2> QED
    BY <1>0, <2>1, SameDatagrams
<1>7. ASSUME NEW id \in DOMAIN sent
      PROVE  /\ InBuffer(id)' = InBuffer(id)
             /\ InMemory(id)' = InMemory(id)
             /\ Occurrences(id)' = Occurrences(id)
  BY <1>0, <1>3, <1>7, SameDatagrams DEF InBuffer, InMemory, Occurrences
<1> QED
  BY <1>0, <1>1, <1>4, <1>5, <1>6, <1>7 DEF SceneOK, NetOK

(* The terms of an account are numbers.                                    *)
LEMMA Terms ==
    ASSUME SceneOK, NetOK, NEW id
    PROVE  /\ UnderWay(id) \in Nat /\ Occurrences(id) \in Nat
           /\ InBuffer(id) \in {0, 1} /\ InMemory(id) \in {0, 1}
BY OfFinite, OccurrencesType
   DEF UnderWay, InBuffer, InMemory, NetOK, SceneOK, TypeOK

(* A packet of which nothing was sent has nothing in its account.          *)
LEMMA NothingOf ==
    ASSUME SceneOK, NetOK, PlaceOK, OutOK, NEW id, id \notin DOMAIN sent, id # 0
    PROVE  /\ UnderWay(id) = 0 /\ Occurrences(id) = 0
           /\ rbuf # <<>> => rbuf[1][1] # id
           /\ Begun => pkt.mem[1][1] # id
<1>1. Of(net, id) = {}
  BY DEF Of, NetOK, DatagramOf
<1>2. {i \in DOMAIN out : out[i] = id} = {}
  BY DEF OutOK
<1> QED
  BY <1>1, <1>2, FS_EmptySet
     DEF UnderWay, Occurrences, NetOK, DatagramOf, PlaceOK

LEMMA StartWriteOK ==
    ASSUME UInv, NEW p \in Shapes, StartWrite(p)
    PROVE  UInv'
<1> DEFINE new == Len(sent) + 1
<1>0. /\ SceneOK /\ NetOK /\ WriterOK /\ CountOK /\ PlaceOK /\ OutOK /\ AccountOK
      /\ sent \in Seq(Shapes) /\ copies \in Seq(Nat) /\ Len(copies) = Len(sent)
  BY DEF UInv, SceneOK, TypeOK, CountOK
<1>1. /\ w.pc = "idle" /\ sent' = Append(sent, p) /\ copies' = Append(copies, 0)
      /\ w' = Write!Begin(w, new)
      /\ UNCHANGED <<scene, readVars, wbuf, net, rbuf, nout, lost, failed>>
  BY DEF StartWrite
<1>2. /\ new \in Nat /\ new # 0 /\ DOMAIN sent = 1 .. Len(sent)
      /\ DOMAIN sent' = 1 .. new /\ Len(sent') = new /\ new \notin DOMAIN sent
      /\ sent' \in Seq(Shapes) /\ \A id \in DOMAIN sent : sent'[id] = sent[id]
      /\ copies' \in Seq(Nat) /\ Len(copies') = new /\ copies'[new] = 0
      /\ \A id \in DOMAIN sent : copies'[id] = copies[id]
      /\ DOMAIN copies = DOMAIN sent /\ DOMAIN copies' = DOMAIN sent'
  BY <1>0, <1>1
<1> HIDE DEF new
<1>3. SentGrows /\ ReaderSame /\ \A id \in DOMAIN sent' : id \in DOMAIN sent \/ id = new
  BY <1>1, <1>2 DEF SentGrows, ReaderSame, new
<1>4. /\ TypeOK' /\ PlaceOK' /\ OutOK' /\ scene' \in Scenes /\ failed' \in Nat
      /\ rbuf # <<>> => DatagramOf(rbuf, rbuf[1][1])'
      /\ rbuf' \in Seq(AllCells) /\ nout' \in 0 .. Len(rbuf')
      /\ \A id \in DOMAIN sent : /\ InBuffer(id)' = InBuffer(id)
                                 /\ InMemory(id)' = InMemory(id)
                                 /\ Occurrences(id)' = Occurrences(id)
  BY <1>0, <1>3, ReaderSameOK
<1>5. SceneOK'
  BY <1>0, <1>1, <1>4 DEF SceneOK, Faults
<1>6. NetOK'
  <2>1. \A d \in net : DatagramOf(d[1], d[1][1][1]) /\ d[1][1][1] \in DOMAIN sent
    BY <1>0 DEF NetOK, DatagramOf
  <2>2. \A d \in net : DatagramOf(d[1], d[1][1][1])'
    BY <1>3, <2>1, SameDatagrams
  <2> QED
    BY <1>0, <1>1, <1>4, <2>2 DEF NetOK
<1>7. /\ DOMAIN w' = Fields /\ w'.pc = "head" /\ w'.id = new /\ w'.region = 1
      /\ w'.nwr = 0 /\ w'.counter = w.counter
  BY <1>0, <1>1 DEF Write!Begin, WriterOK, Fields
<1>8. WriterOK'
  BY <1>0, <1>1, <1>2, <1>7 DEF WriterOK
<1>9. CountOK'
  <2>1. Sent' = Sent
    BY <1>2, <1>3 DEF Sent
  <2> QED
    BY <1>0, <1>2, <1>7, <2>1 DEF CountOK
<1>10. AccountOK'
  <2> SUFFICES ASSUME NEW id \in DOMAIN sent'
               PROVE  UnderWay(id)' + InBuffer(id)' + InMemory(id)' + Occurrences(id)'
                         <= copies'[id]
    BY DEF AccountOK
  <2>1. UnderWay(id)' = UnderWay(id)
    BY <1>1 DEF UnderWay
  <2>2. CASE id \in DOMAIN sent
    BY <1>0, <1>2, <1>4, <2>1, <2>2 DEF AccountOK
  <2>3. CASE id = new
    <3>1. /\ UnderWay(id) = 0 /\ Occurrences(id) = 0
          /\ rbuf # <<>> => rbuf[1][1] # id
          /\ Begun => pkt.mem[1][1] # id
      BY <1>0, <1>2, <2>3, NothingOf
    <3>2. UNCHANGED <<h, pkt, call, out, rbuf, nout>>
      BY <1>1 DEF readVars
    <3>3. Occurrences(id)' = 0 /\ InBuffer(id)' = 0
      BY <3>1, <3>2 DEF Occurrences, InBuffer
    <3>4. Begun' = Begun
      BY <3>2 DEF Begun, Whole, WireSlotsRead
    <3>5. InMemory(id)' = 0
      BY <3>1, <3>2, <3>4 DEF InMemory, FirstCell, Cell
    <3> QED
      BY <1>2, <2>1, <2>3, <3>1, <3>3, <3>5
  <2> QED
    BY <1>3, <2>2, <2>3
<1> QED
  BY <1>4, <1>5, <1>6, <1>8, <1>9, <1>10 DEF UInv

(* The first cells of what was offered.                                    *)
LEMMA FirstCells ==
    ASSUME NEW cells \in Seq(AllCells), NEW n \in 0 .. Len(cells)
    PROVE  /\ SubSeq(cells, 1, n) \in Seq(AllCells) /\ Len(SubSeq(cells, 1, n)) = n
           /\ \A k \in 1 .. n :
                 k \in 1 .. Len(cells) /\ SubSeq(cells, 1, n)[k] = cells[k]
<1>1. /\ SubSeq(cells, 1, n) \in Seq(AllCells) /\ Len(SubSeq(cells, 1, n)) = n
      /\ \A k \in 1 .. n : SubSeq(cells, 1, n)[k] = cells[k]
  OBVIOUS
<1>2. \A k \in 1 .. n : k \in 1 .. Len(cells)
  OBVIOUS
<1> QED
  BY <1>1, <1>2

LEMMA Joined ==
    ASSUME NEW a \in Seq(AllCells), NEW b \in Seq(AllCells)
    PROVE  /\ a \o b \in Seq(AllCells) /\ Len(a \o b) = Len(a) + Len(b)
           /\ \A i \in 1 .. Len(a \o b) :
                 \/ i \in 1 .. Len(a) /\ (a \o b)[i] = a[i]
                 \/ i - Len(a) \in 1 .. Len(b) /\ (a \o b)[i] = b[i - Len(a)]
OBVIOUS

(* What a region adds to a datagram leaves it one.                         *)
LEMMA RegionAdded ==
    ASSUME NEW id \in DOMAIN sent, TypeOK, DatagramOf(wbuf, id),
           NEW r \in 1 .. Len(Regions(id, sent[id])), r = 1 => Len(wbuf) = HeadLen,
           NEW n \in 0 .. Len(Regions(id, sent[id])[r])
    PROVE  DatagramOf(wbuf \o SubSeq(Regions(id, sent[id])[r], 1, n), id)
<1> DEFINE p     == sent[id]
           cells == Regions(id, p)[r]
           part  == SubSeq(cells, 1, n)
           all   == wbuf \o part
<1>1. p \in Packets /\ id \in Nat
  BY SentTypes
<1>2. /\ wbuf \in Seq(AllCells) /\ Len(wbuf) \in Nat /\ Len(wbuf) >= HeadLen
      /\ \A i \in 1 .. Len(wbuf) :
            wbuf[i][1] = id /\ (wbuf[i] = FirstCell(id) => i = HeadLen + 1)
  BY DEF DatagramOf
<1>3. Len(Regions(id, p)) \in Nat /\ Len(Regions(id, p)) >= 1 /\ cells \in Seq(AllCells)
  BY <1>1, RegionsOf
<1> HIDE DEF p
<1>4. /\ part \in Seq(AllCells) /\ Len(part) = n
      /\ \A k \in 1 .. n : k \in 1 .. Len(cells) /\ part[k] = cells[k]
  BY <1>3, FirstCells DEF p
<1>5. ASSUME NEW k \in 1 .. n
      PROVE  part[k][1] = id /\ (part[k] = FirstCell(id) => r = 1 /\ k = 1)
  <2>1. k \in 1 .. Len(cells) /\ part[k] = cells[k]
    BY <1>4
  <2>2. cells[k][1] = id /\ (cells[k] = Cell(id, FirstSlot(p)) => r = 1 /\ k = 1)
    BY <1>1, <2>1, FirstOnly, ZenonT(30) DEF p
  <2> QED
    BY <2>1, <2>2 DEF FirstCell, p
<1> HIDE DEF part, cells
<1>6. /\ all \in Seq(AllCells) /\ Len(all) = Len(wbuf) + n
      /\ \A i \in 1 .. Len(all) :
            \/ i \in 1 .. Len(wbuf) /\ all[i] = wbuf[i]
            \/ i - Len(wbuf) \in 1 .. n /\ all[i] = part[i - Len(wbuf)]
  BY <1>2, <1>4, Joined
<1> HIDE DEF all
<1>7. n \in Nat /\ HeadLen \in Nat
  BY <1>4 DEF HeadLen
<1>8. ASSUME NEW i \in 1 .. Len(all)
      PROVE  all[i][1] = id /\ (all[i] = FirstCell(id) => i = HeadLen + 1)
  <2>1. CASE i \in 1 .. Len(wbuf) /\ all[i] = wbuf[i]
    BY <1>2, <2>1
  <2>2. CASE i - Len(wbuf) \in 1 .. n /\ all[i] = part[i - Len(wbuf)]
    <3>1. /\ part[i - Len(wbuf)][1] = id
          /\ part[i - Len(wbuf)] = FirstCell(id) => r = 1 /\ i - Len(wbuf) = 1
      BY <1>5, <2>2
    <3>2. i \in Nat
      BY <1>2, <1>6, <1>7
    <3>3. r = 1 /\ i - Len(wbuf) = 1 => i = HeadLen + 1
      BY <1>2, <1>7, <3>2
    <3> QED
      BY <2>2, <3>1, <3>3
  <2> QED
    BY <1>6, <2>1, <2>2
<1>9. Len(all) >= HeadLen
  BY <1>2, <1>6, <1>7
<1>10. DatagramOf(all, id)
  BY <1>6, <1>8, <1>9 DEF DatagramOf
<1> QED
  BY <1>10 DEF all, part, cells, p

(* What a writer that goes on, or gives up, becomes.                       *)
LEMMA Returned ==
    ASSUME DOMAIN w = Fields, NEW ret, NEW u, u = Write!Return(w, ret)
    PROVE  /\ DOMAIN u = Fields /\ u.pc = "idle" /\ u.id = 0 /\ u.region = 0
           /\ u.nwr = 0 /\ u.counter = w.counter
BY DEF Write!Return, Fields

LEMMA HeadDone ==
    ASSUME DOMAIN w = Fields, NEW u, u = Write!HeadWritten(w, HeadLen)
    PROVE  /\ DOMAIN u = Fields /\ u.pc = "region" /\ u.id = w.id
           /\ u.region = w.region /\ u.nwr = w.nwr /\ u.counter = w.counter
BY DEF Write!HeadWritten, Fields, Write!HeadLen, HeadLen

LEMMA RegionDone ==
    ASSUME WriterOK, w.pc = "region", NEW n \in Nat,
           NEW u, u = Write!RegionWritten(w, n, Len(Regions(w.id, sent[w.id])))
    PROVE  /\ DOMAIN u = Fields /\ u.id = w.id /\ u.nwr \in Nat /\ u.counter = w.counter
           /\ \/ /\ u.pc = "region" /\ u.region = w.region + 1
                 /\ w.region < Len(Regions(w.id, sent[w.id]))
              \/ u.pc = "done" /\ u.region = w.region
<1> DEFINE m == Len(Regions(w.id, sent[w.id]))
<1>1. DOMAIN w = Fields /\ w.nwr \in Nat /\ w.nwr + n \in Nat
  BY DEF WriterOK
<1> HIDE DEF m
<1>2. CASE w.region < m
  <2>1. u = [w EXCEPT !.nwr = @ + n, !.region = @ + 1]
    BY <1>2 DEF Write!RegionWritten, m
  <2>2. DOMAIN u = Fields /\ u.pc = w.pc /\ u.id = w.id /\ u.nwr = w.nwr + n
        /\ u.region = w.region + 1 /\ u.counter = w.counter
    BY <1>1, <2>1 DEF Fields
  <2> QED
    BY <1>1, <1>2, <2>2 DEF m
<1>3. CASE ~(w.region < m)
  <2>1. u = [w EXCEPT !.nwr = @ + n, !.pc = "done"]
    BY <1>1, <1>3 DEF Write!RegionWritten, m
  <2>2. DOMAIN u = Fields /\ u.pc = "done" /\ u.id = w.id /\ u.nwr = w.nwr + n
        /\ u.region = w.region /\ u.counter = w.counter
    BY <1>1, <2>1 DEF Fields
  <2> QED
    BY <1>1, <2>2
<1> QED
  BY <1>2, <1>3

(* The header: into an empty buffer, all of it, or no datagram is begun.   *)
LEMMA HeadWriteOK ==
    ASSUME UInv, SocketWrite, w.pc = "head"
    PROVE  WriterOK' /\ w'.counter = w.counter
<1> DEFINE room == scene.udpMax - Len(wbuf)
           n    == IF HeadLen > room THEN room ELSE HeadLen
           head == HeadCells(w.id)
<1>0. /\ WriterOK /\ scene.udpMax \in Nat \ {0} /\ sent \in Seq(Shapes)
      /\ DOMAIN w = Fields /\ w.region = 1 /\ w.nwr \in Nat /\ w.counter \in Nat
      /\ w.id = Len(sent) /\ w.id # 0 /\ copies[w.id] = 0
      /\ wbuf \in Seq(AllCells) /\ Len(wbuf) <= scene.udpMax
      /\ wbuf = <<>> \/ scene.udpMax < HeadLen
  BY UdpAssumption DEF UInv, SceneOK, TypeOK, WriterOK
<1>1. w.id \in DOMAIN sent /\ w.id \in Nat
  BY <1>0
<1>2. /\ head \in Seq(AllCells) /\ Len(head) = HeadLen
      /\ \A k \in 1 .. HeadLen : head[k] = Cell(w.id, HeadSlot(k))
  BY <1>1 DEF HeadCells, HeadLen, Cell, HeadSlot, AllCells
<1>3. /\ wbuf' = wbuf \o SubSeq(head, 1, n)
      /\ w' = Write!HeadWritten(w, n)
      /\ UNCHANGED <<scene, sent, copies>>
  <2>1. Write!Offered(w, sent[w.id]) = head
    BY SameLayout DEF Write!Offered
  <2> QED
    BY <1>2, <2>1 DEF SocketWrite
<1>4. room \in Nat /\ n \in 0 .. HeadLen /\ n \in Nat /\ n <= room
  BY <1>0 DEF HeadLen
<1> HIDE DEF n, head
<1>5. /\ SubSeq(head, 1, n) \in Seq(AllCells) /\ Len(SubSeq(head, 1, n)) = n
      /\ \A k \in 1 .. n : k \in 1 .. HeadLen /\ SubSeq(head, 1, n)[k] = head[k]
  BY <1>2, <1>4, FirstCells
<1>6. /\ wbuf' \in Seq(AllCells) /\ Len(wbuf') = Len(wbuf) + n
      /\ Len(wbuf') <= scene'.udpMax
  BY <1>0, <1>3, <1>4, <1>5, Joined, SMTT(30)
<1>7. CASE n = HeadLen
  <2>1. scene.udpMax >= HeadLen /\ wbuf = <<>>
    BY <1>0, <1>4, <1>7 DEF HeadLen
  <2>2. wbuf' = SubSeq(head, 1, n) /\ Len(wbuf') = HeadLen
    BY <1>3, <1>5, <1>7, <2>1
  <2>3. /\ DOMAIN w' = Fields /\ w'.pc = "region" /\ w'.id = w.id /\ w'.region = 1
        /\ w'.nwr = w.nwr /\ w'.counter = w.counter
    BY <1>0, <1>3, <1>7, HeadDone
  <2>4. \A i \in 1 .. HeadLen : wbuf'[i] = Cell(w.id, HeadSlot(i))
    BY <1>2, <1>5, <1>7, <2>2
  <2>5. \A i : Cell(w.id, HeadSlot(i))[1] = w.id
               /\ Cell(w.id, HeadSlot(i)) # FirstCell(w.id)
    BY DEF Cell, HeadSlot, FirstCell, FirstSlot, Slot
  <2>6. DatagramOf(wbuf', w.id)
    <3>1. \A i \in 1 .. Len(wbuf') : wbuf'[i][1] = w.id /\ wbuf'[i] # FirstCell(w.id)
      BY <2>2, <2>4, <2>5
    <3> QED
      <4>1. Len(wbuf') = HeadLen
        BY <2>2, Zenon
      <4>2. Len(wbuf') >= HeadLen
        BY <4>1 DEF HeadLen
      <4> QED
        BY <1>1, <1>6, <3>1, <4>2 DEF DatagramOf
  <2>7. DatagramOf(wbuf, w.id)'
    BY <1>3, <2>3, <2>6 DEF DatagramOf, FirstCell
  <2>8. /\ Len(Regions(w.id, sent[w.id])) \in Nat
        /\ Len(Regions(w.id, sent[w.id])) >= 1
    BY <1>1, RegionsOf, SentTypes DEF UInv, SceneOK
  <2>9. w'.region \in 1 .. Len(Regions(w'.id, sent'[w'.id]))
    BY <1>3, <2>3, <2>8
  <2> QED
    BY <1>0, <1>1, <1>3, <1>6, <2>2, <2>3, <2>7, <2>9 DEF WriterOK
<1>8. CASE n # HeadLen
  <2>1. w' = Write!Return(w, -1)
    BY <1>3, <1>8 DEF Write!HeadWritten, Write!HeadLen, HeadLen
  <2>2. /\ DOMAIN w' = Fields /\ w'.pc = "idle" /\ w'.id = 0 /\ w'.region = 0
        /\ w'.nwr = 0 /\ w'.counter = w.counter
    BY <1>0, <2>1, Returned
  <2>3. scene.udpMax < HeadLen
    <3>1. room < HeadLen
      BY <1>4, <1>8 DEF n
    <3>2. wbuf = <<>> => room = scene.udpMax
      BY <1>0
    <3> QED
      BY <1>0, <3>1, <3>2
  <2> QED
    BY <1>0, <1>3, <1>6, <2>2, <2>3 DEF WriterOK
<1> QED
  BY <1>7, <1>8

LEMMA RegionWriteOK ==
    ASSUME UInv, SocketWrite, w.pc = "region"
    PROVE  WriterOK' /\ w'.counter = w.counter
<1> DEFINE cells == Regions(w.id, sent[w.id])[w.region]
           room  == scene.udpMax - Len(wbuf)
           n     == IF Len(cells) > room THEN room ELSE Len(cells)
           part  == SubSeq(cells, 1, n)
<1>0. /\ WriterOK /\ scene.udpMax \in Nat \ {0} /\ sent \in Seq(Shapes) /\ TypeOK
      /\ DOMAIN w = Fields /\ w.nwr \in Nat /\ w.counter \in Nat /\ w.region \in Nat
      /\ w.id = Len(sent) /\ w.id # 0 /\ copies[w.id] = 0
      /\ wbuf \in Seq(AllCells) /\ Len(wbuf) <= scene.udpMax
      /\ DatagramOf(wbuf, w.id)
      /\ w.region \in 1 .. Len(Regions(w.id, sent[w.id]))
      /\ w.region = 1 => Len(wbuf) = HeadLen
  BY UdpAssumption DEF UInv, SceneOK, TypeOK, WriterOK
<1>1. w.id \in DOMAIN sent /\ w.id \in Nat /\ sent[w.id] \in Packets
  BY <1>0, SentTypes
<1>2. cells \in Seq(AllCells) /\ Len(cells) \in Nat
  <2>1. \A r \in 1 .. Len(Regions(w.id, sent[w.id])) :
           Regions(w.id, sent[w.id])[r] \in Seq(AllCells)
    BY <1>1, RegionsOf
  <2>2. cells \in Seq(AllCells)
    BY <1>0, <2>1
  <2> HIDE DEF cells
  <2> QED
    BY <2>2
<1>3. /\ wbuf' = wbuf \o part
      /\ w' = Write!RegionWritten(w, n, Len(Regions(w.id, sent[w.id])))
      /\ UNCHANGED <<scene, sent, copies>>
  <2>1. Write!Offered(w, sent[w.id]) = cells
    BY SameLayout DEF Write!Offered
  <2> QED
    BY <2>1 DEF SocketWrite
<1> HIDE DEF cells
<1>4. room \in Nat /\ n \in 0 .. Len(cells) /\ n \in Nat /\ n <= room
  BY <1>0, <1>2
<1> HIDE DEF n
<1>5. part \in Seq(AllCells) /\ Len(part) = n
  BY <1>2, <1>4, FirstCells
<1>6. DatagramOf(wbuf \o part, w.id)
  BY <1>0, <1>1, <1>4, RegionAdded DEF cells
<1> HIDE DEF part
<1>7. /\ wbuf' \in Seq(AllCells) /\ Len(wbuf') = Len(wbuf) + n
      /\ Len(wbuf') <= scene'.udpMax
  <2>1. wbuf' = wbuf \o part /\ scene' = scene
    BY <1>3
  <2>2. wbuf \o part \in Seq(AllCells) /\ Len(wbuf \o part) = Len(wbuf) + Len(part)
    BY <1>0, <1>5, Joined
  <2>3. Len(wbuf) \in Nat /\ Len(wbuf) + n <= scene.udpMax
    BY <1>0, <1>4
  <2> QED
    BY <1>5, <2>1, <2>2, <2>3
<1>8. /\ DOMAIN w' = Fields /\ w'.id = w.id /\ w'.nwr \in Nat /\ w'.counter = w.counter
      /\ \/ /\ w'.pc = "region" /\ w'.region = w.region + 1
            /\ w.region < Len(Regions(w.id, sent[w.id]))
         \/ w'.pc = "done" /\ w'.region = w.region
  BY <1>0, <1>3, <1>4, RegionDone
<1>9. DatagramOf(wbuf, w.id)'
  BY <1>3, <1>6, <1>8 DEF DatagramOf, FirstCell
<1>10. CASE w'.pc = "done" /\ w'.region = w.region
  BY <1>0, <1>1, <1>3, <1>7, <1>8, <1>9, <1>10 DEF WriterOK
<1>11. CASE /\ w'.pc = "region" /\ w'.region = w.region + 1
            /\ w.region < Len(Regions(w.id, sent[w.id]))
  <2>1. Len(Regions(w.id, sent[w.id])) \in Nat
    BY <1>1, RegionsOf
  <2>2. /\ w'.region \in 1 .. Len(Regions(w'.id, sent'[w'.id]))
        /\ w'.region \in Nat /\ w'.region # 1
    BY <1>0, <1>3, <1>8, <1>11, <2>1
  <2> QED
    BY <1>0, <1>1, <1>3, <1>7, <1>8, <1>9, <1>11, <2>2 DEF WriterOK
<1> QED
  BY <1>8, <1>10, <1>11

(* A step that leaves the reader, the packets and their copies alone.      *)
LEMMA SameAccounts ==
    ASSUME UInv, ReaderSame, UNCHANGED <<sent, copies>>,
           lost' \in Nat, Faults' <= scene.faults, w'.counter = w.counter, WriterOK',
           IsFiniteSet(net'), net' \subseteq net
    PROVE  UInv'
<1>0. /\ SceneOK /\ NetOK /\ WriterOK /\ CountOK /\ PlaceOK /\ OutOK /\ AccountOK
      /\ sent \in Seq(Shapes)
  BY DEF UInv, SceneOK, TypeOK
<1>1. SentGrows
  BY <1>0 DEF SentGrows
<1>2. /\ TypeOK' /\ PlaceOK' /\ OutOK' /\ scene' \in Scenes /\ failed' \in Nat
      /\ rbuf # <<>> => DatagramOf(rbuf, rbuf[1][1])'
      /\ rbuf' \in Seq(AllCells) /\ nout' \in 0 .. Len(rbuf')
      /\ \A id \in DOMAIN sent : /\ InBuffer(id)' = InBuffer(id)
                                 /\ InMemory(id)' = InMemory(id)
                                 /\ Occurrences(id)' = Occurrences(id)
  BY <1>0, <1>1, ReaderSameOK
<1>3. SceneOK'
  BY <1>0, <1>2 DEF SceneOK, ReaderSame
<1>4. NetOK'
  <2>1. \A d \in net : DatagramOf(d[1], d[1][1][1]) /\ d[1][1][1] \in DOMAIN sent
    BY <1>0 DEF NetOK, DatagramOf
  <2>2. \A d \in net' : DatagramOf(d[1], d[1][1][1])'
    BY <1>1, <2>1, SameDatagrams
  <2> QED
    BY <1>2, <2>2 DEF NetOK, ReaderSame
<1>5. CountOK'
  BY <1>0 DEF CountOK, Sent
<1>6. AccountOK'
  <2> SUFFICES ASSUME NEW id \in DOMAIN sent
               PROVE  UnderWay(id)' + InBuffer(id)' + InMemory(id)' + Occurrences(id)'
                         <= copies[id]
    BY DEF AccountOK
  <2>1. UnderWay(id)' \in Nat /\ UnderWay(id)' <= UnderWay(id)
    <3>1. Of(net', id) \subseteq Of(net, id) /\ IsFiniteSet(net)
      BY <1>0 DEF Of, NetOK
    <3>2. /\ Cardinality(Of(net', id)) <= Cardinality(Of(net, id))
          /\ Cardinality(Of(net', id)) \in Nat
      BY <3>1, OfFinite, FS_Subset
    <3> QED
      BY <3>2 DEF UnderWay
  <2>2. /\ UnderWay(id) \in Nat /\ Occurrences(id) \in Nat
        /\ InBuffer(id) \in {0, 1} /\ InMemory(id) \in {0, 1}
    BY <1>0, Terms
  <2>3. copies[id] \in Nat
    BY <1>0 DEF CountOK
  <2>4. UnderWay(id) + InBuffer(id) + InMemory(id) + Occurrences(id) <= copies[id]
    BY <1>0 DEF AccountOK
  <2>5. /\ InBuffer(id)' = InBuffer(id) /\ InMemory(id)' = InMemory(id)
        /\ Occurrences(id)' = Occurrences(id)
    BY <1>2
  <2> QED
    BY <2>1, <2>2, <2>3, <2>4, <2>5
<1> QED
  BY <1>2, <1>3, <1>4, <1>5, <1>6 DEF UInv

LEMMA SocketWriteOK == ASSUME UInv, SocketWrite PROVE UInv'
<1>1. WriterOK' /\ w'.counter = w.counter
  BY HeadWriteOK, RegionWriteOK DEF SocketWrite
<1>2. UNCHANGED <<scene, readVars, sent, net, rbuf, nout, copies, lost, failed>>
  BY DEF SocketWrite
<1>3. ReaderSame /\ lost' \in Nat /\ Faults' <= scene.faults /\ IsFiniteSet(net')
  BY <1>2 DEF ReaderSame, UInv, SceneOK, Faults, NetOK
<1> QED
  BY <1>1, <1>2, <1>3, SameAccounts

LEMMA LoseOK == ASSUME UInv, Lose PROVE UInv'
<1>0. SceneOK /\ NetOK /\ WriterOK /\ scene.faults \in Nat
  BY UdpAssumption DEF UInv, SceneOK
<1>1. /\ UNCHANGED <<scene, readVars, sent, w, wbuf, rbuf, nout, copies, failed>>
      /\ lost' = lost + 1 /\ Faults < scene.faults
  BY DEF Lose
<1>2. PICK d \in net : net' = net \ {d}
  BY DEF Lose
<1>3. IsFiniteSet(net') /\ net' \subseteq net
  BY <1>0, <1>2, OfRemoved DEF NetOK
<1>4. lost' \in Nat /\ Faults' <= scene.faults
  BY <1>0, <1>1 DEF SceneOK, Faults
<1>5. WriterOK'
  BY <1>0, <1>1 DEF WriterOK, DatagramOf, FirstCell
<1> QED
  BY <1>1, <1>3, <1>4, <1>5, SameAccounts DEF ReaderSame

(* A datagram more, counted among its packet's copies.                     *)
LEMMA CopyMade ==
    ASSUME UInv, ReaderSame, UNCHANGED sent,
           NEW id \in DOMAIN sent, NEW d, d[1][1][1] = id, DatagramOf(d[1], id),
           net' = net \cup {d}, NEW n \in Nat, n > copies[id],
           copies' = [copies EXCEPT ![id] = n]
    PROVE  TypeOK' /\ PlaceOK' /\ OutOK' /\ NetOK' /\ AccountOK'
           /\ copies' \in Seq(Nat) /\ Len(copies') = Len(sent)
<1>0. /\ SceneOK /\ NetOK /\ CountOK /\ PlaceOK /\ OutOK /\ AccountOK
      /\ sent \in Seq(Shapes)
  BY DEF UInv, SceneOK, TypeOK
<1>1. SentGrows
  BY <1>0 DEF SentGrows
<1>2. /\ TypeOK' /\ PlaceOK' /\ OutOK'
      /\ rbuf # <<>> => DatagramOf(rbuf, rbuf[1][1])'
      /\ rbuf' \in Seq(AllCells) /\ nout' \in 0 .. Len(rbuf')
      /\ \A i \in DOMAIN sent : /\ InBuffer(i)' = InBuffer(i)
                                /\ InMemory(i)' = InMemory(i)
                                /\ Occurrences(i)' = Occurrences(i)
  BY <1>0, <1>1, ReaderSameOK
<1>3. /\ copies \in Seq(Nat) /\ Len(copies) = Len(sent) /\ id \in DOMAIN copies
      /\ DOMAIN copies = DOMAIN sent
  BY <1>0 DEF CountOK
<1>4. /\ copies' \in Seq(Nat) /\ Len(copies') = Len(sent) /\ copies'[id] = n
      /\ \A i \in DOMAIN sent : i # id => copies'[i] = copies[i]
  BY <1>3
<1>5. IsFiniteSet(net') /\ \A i : Cardinality(Of(net', i)) <=
         Cardinality(Of(net, i)) + (IF d[1][1][1] = i THEN 1 ELSE 0)
  BY <1>0, OfAdded DEF NetOK
<1>6. NetOK'
  <2>1. \A e \in net' : DatagramOf(e[1], e[1][1][1]) /\ e[1][1][1] \in DOMAIN sent
    BY <1>0 DEF NetOK, DatagramOf
  <2>2. \A e \in net' : DatagramOf(e[1], e[1][1][1])'
    BY <1>1, <2>1, SameDatagrams
  <2> QED
    BY <1>2, <1>5, <2>2 DEF NetOK, ReaderSame
<1>7. AccountOK'
  <2> SUFFICES ASSUME NEW i \in DOMAIN sent
               PROVE  UnderWay(i)' + InBuffer(i)' + InMemory(i)' + Occurrences(i)'
                         <= copies'[i]
    BY DEF AccountOK
  <2>1. /\ UnderWay(i)' <= UnderWay(i) + (IF i = id THEN 1 ELSE 0)
        /\ UnderWay(i)' \in Nat
    BY <1>5, OfFinite DEF UnderWay
  <2>2. /\ UnderWay(i) \in Nat /\ Occurrences(i) \in Nat
        /\ InBuffer(i) \in {0, 1} /\ InMemory(i) \in {0, 1}
    BY <1>0, Terms
  <2>3. copies[i] \in Nat /\ copies'[i] >= copies[i] + (IF i = id THEN 1 ELSE 0)
        /\ copies'[i] \in Nat
    BY <1>3, <1>4
  <2>4. UnderWay(i) + InBuffer(i) + InMemory(i) + Occurrences(i) <= copies[i]
    BY <1>0 DEF AccountOK
  <2>5. /\ InBuffer(i)' = InBuffer(i) /\ InMemory(i)' = InMemory(i)
        /\ Occurrences(i)' = Occurrences(i)
    BY <1>2
  <2>6. CASE i = id
    BY <2>1, <2>2, <2>3, <2>4, <2>5, <2>6
  <2>7. CASE i # id
    BY <2>1, <2>2, <2>3, <2>4, <2>5, <2>7
  <2> QED
    BY <2>6, <2>7
<1> QED
  BY <1>2, <1>4, <1>6, <1>7

LEMMA DuplicateOK == ASSUME UInv, Duplicate PROVE UInv'
<1>0. /\ SceneOK /\ NetOK /\ WriterOK /\ CountOK /\ AccountOK
      /\ scene.faults \in Nat /\ sent \in Seq(Shapes)
  BY UdpAssumption DEF UInv, SceneOK, TypeOK
<1>1. /\ UNCHANGED <<scene, readVars, sent, w, wbuf, rbuf, nout, failed>>
      /\ lost' = lost + 1 /\ Faults < scene.faults
  BY DEF Duplicate
<1>2. PICK d \in net : /\ net' = net \cup {<<d[1], copies[d[1][1][1]] + 1>>}
                       /\ copies' = [copies EXCEPT ![d[1][1][1]] = @ + 1]
  BY DEF Duplicate
<1> DEFINE id == d[1][1][1]
           e  == <<d[1], copies[id] + 1>>
<1>3. DatagramOf(d[1], id) /\ id \in DOMAIN sent
  BY <1>0 DEF NetOK, DatagramOf
<1>4. copies \in Seq(Nat) /\ DOMAIN copies = DOMAIN sent /\ copies[id] \in Nat
  BY <1>0, <1>3 DEF CountOK
<1>5. e[1] = d[1] /\ net' = net \cup {e}
      /\ copies' = [copies EXCEPT ![id] = copies[id] + 1]
  BY <1>2
<1>6. copies[id] > 0
  <2>1. UnderWay(id) > 0
    <3>1. d \in Of(net, id) /\ IsFiniteSet(Of(net, id)) /\ Cardinality(Of(net, id)) \in Nat
      BY <1>0, OfFinite DEF Of, NetOK
    <3>2. Cardinality(Of(net, id)) # 0
      BY <3>1, FS_EmptySet
    <3> QED
      BY <3>1, <3>2 DEF UnderWay
  <2>2. /\ UnderWay(id) \in Nat /\ Occurrences(id) \in Nat
        /\ InBuffer(id) \in {0, 1} /\ InMemory(id) \in {0, 1}
    BY <1>0, Terms
  <2>3. UnderWay(id) + InBuffer(id) + InMemory(id) + Occurrences(id) <= copies[id]
    BY <1>0, <1>3 DEF AccountOK
  <2> HIDE DEF id
  <2> QED
    BY <1>4, <2>1, <2>2, <2>3
<1>7. e[1][1][1] = id /\ DatagramOf(e[1], id)
  BY <1>3, <1>5
<1> HIDE DEF e, id
<1>8. ReaderSame
  BY <1>1 DEF ReaderSame
<1>9. TypeOK' /\ PlaceOK' /\ OutOK' /\ NetOK' /\ AccountOK'
      /\ copies' \in Seq(Nat) /\ Len(copies') = Len(sent)
  <2>1. copies[id] + 1 \in Nat /\ copies[id] + 1 > copies[id]
    BY <1>4
  <2> QED
    BY <1>1, <1>3, <1>5, <1>7, <1>8, <2>1, CopyMade
<1>10. SceneOK'
  BY <1>0, <1>1, <1>9 DEF SceneOK, Faults
<1>11. WriterOK'
  <2>1. w.pc # "idle" => w.id # id /\ w.id \in DOMAIN copies
    BY <1>0, <1>4, <1>6 DEF WriterOK
  <2>2. w.pc # "idle" => copies'[w.id] = copies[w.id]
    BY <1>4, <1>5, <2>1
  <2> QED
    BY <1>0, <1>1, <2>2 DEF WriterOK, DatagramOf, FirstCell
<1>12. CountOK'
  <2>1. \A i \in DOMAIN copies' : copies'[i] > 0 <=> copies[i] > 0
    BY <1>3, <1>4, <1>5, <1>6
  <2>2. DOMAIN copies' = DOMAIN copies
    BY <1>5
  <2>3. Sent' = Sent
    BY <2>1, <2>2 DEF Sent
  <2> QED
    BY <1>0, <1>1, <1>9, <2>3 DEF CountOK
<1> QED
  BY <1>9, <1>10, <1>11, <1>12 DEF UInv

(* done_write_packet: the datagram is sent and counted, or is refused.     *)
LEMMA SocketDoneOK == ASSUME UInv, SocketDone PROVE UInv'
<1> DEFINE id == w.id
<1>0. /\ SceneOK /\ NetOK /\ WriterOK /\ CountOK /\ AccountOK
      /\ scene.faults \in Nat /\ sent \in Seq(Shapes)
  BY UdpAssumption DEF UInv, SceneOK, TypeOK
<1>1. /\ w.pc = "done" /\ wbuf' = <<>>
      /\ UNCHANGED <<scene, readVars, sent, rbuf, nout, failed>>
  BY DEF SocketDone
<1>2. /\ id \in DOMAIN sent /\ DatagramOf(wbuf, id) /\ copies[id] = 0
      /\ copies \in Seq(Nat) /\ Len(copies) = Len(sent) /\ DOMAIN copies = DOMAIN sent
      /\ DOMAIN w = Fields /\ w.counter \in Nat
  BY <1>0, <1>1 DEF WriterOK, CountOK
<1>3. ReaderSame
  BY <1>1 DEF ReaderSame
<1>4. CASE /\ w' = Write!Done(w, 0) /\ net' = net \cup {<<wbuf, 1>>}
           /\ copies' = [copies EXCEPT ![id] = 1] /\ UNCHANGED lost
  <2> DEFINE e == <<wbuf, 1>>
  <2>1. e[1][1][1] = id /\ DatagramOf(e[1], id)
    <3>1. 1 \in 1 .. Len(wbuf)
      BY <1>2 DEF DatagramOf, HeadLen
    <3>2. wbuf[1][1] = id
      BY <1>2, <3>1 DEF DatagramOf
    <3> QED
      BY <1>2, <3>2
  <2>2. net' = net \cup {e}
    BY <1>4
  <2> HIDE DEF e, id
  <2>3. TypeOK' /\ PlaceOK' /\ OutOK' /\ NetOK' /\ AccountOK'
        /\ copies' \in Seq(Nat) /\ Len(copies') = Len(sent)
    <3>1. 1 \in Nat /\ 1 > copies[id]
      BY <1>2
    <3> QED
      BY <1>1, <1>2, <1>3, <1>4, <2>1, <2>2, <3>1, CopyMade DEF id
  <2>4. /\ DOMAIN w' = Fields /\ w'.pc = "idle" /\ w'.id = 0 /\ w'.region = 0
        /\ w'.nwr = 0 /\ w'.counter = w.counter + 1
    BY <1>2, <1>4 DEF Write!Done, Write!Return, Fields
  <2>5. SceneOK'
    BY <1>0, <1>1, <1>4, <2>3 DEF SceneOK, Faults
  <2>6. WriterOK'
    <3>1. wbuf' \in Seq(AllCells) /\ Len(wbuf') = 0 /\ scene'.udpMax \in Nat
      BY <1>0, <1>1, UdpAssumption DEF SceneOK
    <3>2. w'.counter \in Nat
      BY <1>2, <2>4
    <3> QED
      BY <1>1, <2>4, <3>1, <3>2 DEF WriterOK
  <2>7. CountOK'
    <3>1. copies'[id] = 1 /\ \A i \in DOMAIN copies : i # id => copies'[i] = copies[i]
      BY <1>2, <1>4 DEF id
    <3>2. Sent' = Sent \cup {id} /\ id \notin Sent
      BY <1>2, <1>4, <3>1 DEF Sent
    <3>3. IsFiniteSet(Sent)
      <4>1. DOMAIN copies = 1 .. Len(copies) /\ Len(copies) \in Nat
        BY <1>2
      <4>2. IsFiniteSet(DOMAIN copies)
        BY <4>1, FS_Interval
      <4> QED
        BY <4>2, FS_Subset DEF Sent
    <3>4. Cardinality(Sent') = Cardinality(Sent) + 1
      BY <3>2, <3>3, FS_AddElement
    <3> QED
      BY <1>0, <1>1, <2>3, <2>4, <3>4 DEF CountOK
  <2> QED
    BY <2>3, <2>5, <2>6, <2>7 DEF UInv
<1>5. CASE /\ Faults < scene.faults /\ w' = Write!Done(w, -1)
           /\ lost' = lost + 1 /\ UNCHANGED <<net, copies>>
  <2>1. w' = Write!Return(w, -1)
    BY <1>5 DEF Write!Done
  <2>2. /\ DOMAIN w' = Fields /\ w'.pc = "idle" /\ w'.id = 0 /\ w'.region = 0
        /\ w'.nwr = 0 /\ w'.counter = w.counter
    BY <1>2, <2>1, Returned
  <2>3. lost' \in Nat /\ Faults' <= scene.faults
    BY <1>0, <1>1, <1>5 DEF SceneOK, Faults
  <2>4. WriterOK'
    <3>1. wbuf' \in Seq(AllCells) /\ Len(wbuf') = 0 /\ scene'.udpMax \in Nat
      BY <1>0, <1>1, UdpAssumption DEF SceneOK
    <3> QED
      BY <1>1, <1>2, <2>2, <3>1 DEF WriterOK
  <2>5. IsFiniteSet(net')
    BY <1>0, <1>5 DEF NetOK
  <2> QED
    BY <1>1, <1>3, <1>5, <2>2, <2>3, <2>4, <2>5, SameAccounts
<1> QED
  BY <1>4, <1>5 DEF SocketDone

-----------------------------------------------------------------------------
(* The reader.                                                             *)

(* What a step of the reader may put at the start of memory: the first     *)
(* cell of what it received.                                               *)
FirstFrom(res) ==
    Begun' => \/ Begun /\ pkt'.mem[1] = pkt.mem[1]
              \/ Len(res.cells) >= 1 /\ pkt'.mem[1] = res.cells[1]

(* A result of read_bytes has at most what was asked for.                  *)
Fits(res) == /\ res \in Results /\ Len(res.cells) <= Wanted
             /\ res.err => Len(res.cells) = 0

LEMMA CountType ==
    ASSUME NEW res, Fits(res)
    PROVE  /\ res.cells \in Seq(AllCells) /\ Len(res.cells) \in Nat
           /\ Count(res) \in Int /\ Count(res) <= Len(res.cells)
           /\ Count(res) >= 0 => Count(res) = Len(res.cells)
BY DEF Count, Fits, Results

Quietly == call'.nrd = 0 /\ call'.pc \in HeaderPcs \cup {"idle", "capacity", "simple", "fixed", "prefix"}

LEMMA QuietPlace == ASSUME Quietly PROVE PlaceOK' /\ ~Begun'
BY DEF Quietly, PlaceOK, CountedOK, Begun, HeaderPcs

LEMMA HeaderQuiet ==
    ASSUME TypeOK, PlaceOK, call.pc \in HeaderPcs, NEW handle, NEW r,
           HeaderDone(handle, r) \/ HeaderEOF(handle)
    PROVE  Quietly
<1>1. call \in Calls /\ call.nrd = 0
  BY DEF TypeOK, PlaceOK, CountedOK
<1>2. \A x : Idle(x).pc = "idle" /\ Idle(x).nrd = 0
  BY DEF Idle
<1>3. \/ \E x : call' = Idle(x)
      \/ call' = [call EXCEPT !.pc = "capacity"]
      \/ call' = [call EXCEPT !.pc = FirstRead(call.type)] /\ call.pc = "typed_header"
  BY DEF HeaderDone, HeaderEOF, LLHeader, TypedHeader, ReadXReturns, HeaderPcs
<1>4. CASE \E x : call' = Idle(x)
  BY <1>2, <1>4 DEF Quietly
<1>5. CASE call' = [call EXCEPT !.pc = "capacity"]
  BY <1>1, <1>5 DEF Quietly, Calls
<1>6. CASE call' = [call EXCEPT !.pc = FirstRead(call.type)] /\ call.pc = "typed_header"
  <2>1. call.type \in Types
    BY <1>6 DEF TypeOK, CallOK
  <2>2. FirstRead(call.type) \in {"simple", "fixed", "prefix"}
    BY <2>1, TableAssumption DEF FirstRead, Codecs
  <2> QED
    BY <1>1, <1>6, <2>2 DEF Quietly, Calls
<1> QED
  BY <1>3, <1>4, <1>5, <1>6

(* The prefix of a simple or waveform packet is not empty.                 *)
LEMMA HasFirst ==
    ASSUME NEW t \in Types, NEW v \in Nat, Codec[t] # "var"
    PROVE  /\ Prefix(t, v) \in Nat /\ Prefix(t, v) >= 1 /\ Prefix(t, v) <= MemSize
           /\ PrefixLen[t][CurVer[t]] >= 1 /\ PrefixLen[t][CurVer[t]] \in Nat
           /\ PrefixLen[t][0] >= 1 /\ PrefixLen[t][0] \in Nat
           /\ MemSize \in Nat /\ 1 \in 1 .. MemSize
<1>1. CurVer[t] \in Nat /\ PrefixLen[t] \in [0 .. CurVer[t] -> Nat]
  BY TableAssumption
<1>2. \A u \in 0 .. CurVer[t] : PrefixLen[t][u] \in Nat /\ PrefixLen[t][u] >= 1
  BY <1>1, PayloadAssumption
<1>3. CurVer[t] \in 0 .. CurVer[t] /\ 0 \in 0 .. CurVer[t]
  BY <1>1
<1>4. Prefix(t, v) \in Nat /\ Prefix(t, v) >= 1
  BY <1>2, <1>3 DEF Prefix, KnownVer
<1>5. Prefix(t, v) <= MemSize /\ MemSize \in Nat
  BY PrefixPlace, ReadAssumption
<1> QED
  BY <1>2, <1>3, <1>4, <1>5

LEMMA SimpleFirst ==
    ASSUME TypeOK, PlaceOK, NEW res, Fits(res), SimpleRead(res)
    PROVE  CountedOK' /\ FirstFrom(res)
<1> DEFINE P   == Prefix(call.type, h.hdr.ver)
           mem == Copied(pkt.mem, 1, res.cells)
<1>0. call.pc = "simple" /\ call.nrd = 0 /\ call.pc \in PayloadPcs
  BY DEF SimpleRead, WantsPayload, PlaceOK, CountedOK, PayloadPcs, ReadPcs, HeaderPcs
<1>1. /\ call.type \in Types /\ h.hdr.ver \in Nat /\ call.counts \in [Groups -> Nat]
      /\ Codec[call.type] = "simple"
  BY <1>0, PayloadCall DEF TypeOK, CallOK
<1>2. /\ call' = [call EXCEPT !.pc = "check", !.nrd = @ + Count(res)]
      /\ pkt' = [pkt EXCEPT !.mem = Cleared(mem, P + 1)]
      /\ h' = [h EXCEPT !.head = @ \/ res.mark]
  BY DEF SimpleRead, GoOn, Marked
<1>3. /\ call'.pc = "check" /\ call'.type = call.type /\ call'.counts = call.counts
      /\ call'.nrd = Count(res) /\ h'.hdr = h.hdr
      /\ pkt'.mem = Cleared(mem, P + 1)
  BY <1>0, <1>2, CountType, PayloadCall DEF Calls, Handles, Buffers
<1>4. P \in Nat /\ P >= 1 /\ MemSize \in Nat /\ 1 \in 1 .. MemSize
  BY <1>1, HasFirst
<1>5. Cardinality(WireSlotsRead') = P
  BY <1>1, <1>3, PlainSlots DEF WireSlotsRead
<1>6. Written(mem, pkt.mem, 1, res.cells)
  BY CountType, CopiedAt
<1> HIDE DEF P, mem
<1>7. ASSUME Begun' PROVE Len(res.cells) >= 1 /\ pkt'.mem[1] = res.cells[1]
  <2>1. Count(res) = P
    BY <1>1, <1>3, <1>5, <1>7 DEF Begun, Whole
  <2>2. Len(res.cells) = P /\ 1 \in 1 .. Len(res.cells)
    BY <1>4, <2>1, CountType
  <2>3. mem[1] = res.cells[1]
    BY <1>4, <1>6, <2>2 DEF Written
  <2>4. Cleared(mem, P + 1)[1] = mem[1]
    BY <1>4 DEF Cleared
  <2> QED
    BY <1>3, <1>4, <2>2, <2>3, <2>4
<1> QED
  BY <1>3, <1>7 DEF FirstFrom, CountedOK, HeaderPcs

(* The struct of a variable packet starts with its first group.            *)
LEMMA VarFirst ==
    ASSUME NEW t \in Types, Codec[t] = "var"
    PROVE  GroupAddr(t, 1) = 1 /\ MemSize \in Nat /\ 1 \in 1 .. MemSize
<1>1. /\ NumGroups[t] = 1 /\ MaxCount[t] \in Nat
      /\ CurVer[t] \in Nat /\ PrefixLen[t] \in [0 .. CurVer[t] -> Nat]
  BY GroupsAssumption, TableAssumption
<1>2. CurVer[t] \in 0 .. CurVer[t] /\ PrefixLen[t][CurVer[t]] = 0
  BY <1>1, MemoryAssumption
<1>3. GroupAddr(t, 1) = 1
  BY <1>1, <1>2 DEF GroupAddr
<1>4. GroupAddr(t, 1) + MaxCount[t] <= MemSize
  BY <1>1, GroupPlaces
<1> QED
  BY <1>1, <1>3, <1>4, ReadAssumption

LEMMA FixedFirst ==
    ASSUME TypeOK, PlaceOK, NEW res, Fits(res), VarFixed(res)
    PROVE  CountedOK' /\ FirstFrom(res)
<1> DEFINE mem == Copied(pkt.mem, 1, res.cells)
<1>0. call.pc = "fixed" /\ call.nrd = 0 /\ call.pc \in PayloadPcs
  BY DEF VarFixed, WantsPayload, PlaceOK, CountedOK, PayloadPcs, ReadPcs, HeaderPcs
<1>1. call.type \in Types /\ Codec[call.type] = "var"
  BY <1>0, PayloadCall DEF TypeOK, CallOK
<1>2. Written(mem, pkt.mem, 1, res.cells)
  BY CountType, CopiedAt
<1> HIDE DEF mem
<1>3. PICK n : /\ pkt' = [pkt EXCEPT !.mem = mem]
               /\ call' = [call EXCEPT !.pc = "tail", !.nrd = @ + Count(res),
                                       !.counts[1] = n]
  BY DEF VarFixed, mem
<1>4. call'.pc = "tail" /\ call'.nrd = Count(res) /\ pkt'.mem = mem
  BY <1>0, <1>3, CountType, PayloadCall DEF Calls, Buffers
<1>5. Len(res.cells) <= 1
  BY <1>0 DEF Fits, Wanted, HeaderPcs
<1>6. 1 \in 1 .. MemSize
  BY <1>1, VarFirst
<1>7. ASSUME Begun' PROVE Len(res.cells) >= 1 /\ pkt'.mem[1] = res.cells[1]
  <2>1. Count(res) = 1
    BY <1>4, <1>7 DEF Begun
  <2>2. Len(res.cells) = 1 /\ 1 \in 1 .. Len(res.cells)
    <3>1. Count(res) >= 0 => Count(res) = Len(res.cells)
      BY CountType
    <3> QED
      BY <2>1, <3>1
  <2>3. mem[1] = res.cells[1]
    BY <1>2, <1>6, <2>2 DEF Written
  <2> QED
    BY <1>4, <2>2, <2>3
<1> QED
  BY <1>4, <1>5, <1>7, CountType DEF FirstFrom, CountedOK, HeaderPcs

LEMMA TailFirst ==
    ASSUME TypeOK, PlaceOK, NEW res, Fits(res), VarTail(res)
    PROVE  CountedOK' /\ FirstFrom(res)
<1> DEFINE T    == TailLen(call.type, h.hdr.ver, call.counts[1])
           kept == IF call.type \in ClearsByRead THEN call.nrd + Count(res) ELSE 1 + T
           mem  == Copied(pkt.mem, 2, res.cells)
<1>0. call.pc = "tail" /\ call.nrd <= 1 /\ call.pc \in PayloadPcs
  BY DEF VarTail, WantsPayload, PlaceOK, CountedOK, PayloadPcs, ReadPcs, HeaderPcs
<1>1. /\ call.type \in Types /\ h.hdr.ver \in Nat /\ call.counts \in [Groups -> Nat]
      /\ Codec[call.type] = "var" /\ call.nrd \in Int
  BY <1>0, PayloadCall DEF TypeOK, CallOK
<1>2. Written(mem, pkt.mem, 2, res.cells)
  BY CountType, CopiedAt
<1>3. /\ call' = [call EXCEPT !.pc = "check", !.nrd = @ + Count(res)]
      /\ pkt' = [pkt EXCEPT !.mem = Cleared(mem, kept + 1)]
      /\ h' = [h EXCEPT !.head = @ \/ res.mark]
  BY DEF VarTail, GoOn, Marked
<1>4. /\ call'.pc = "check" /\ call'.type = call.type /\ call'.counts = call.counts
      /\ call'.nrd = call.nrd + Count(res) /\ h'.hdr = h.hdr
      /\ pkt'.mem = Cleared(mem, kept + 1)
  BY <1>0, <1>3, CountType, PayloadCall DEF Calls, Handles, Buffers
<1>5. Cardinality(WireSlotsRead') = 1 + T /\ T \in Nat
  BY <1>1, <1>4, PlainSlots DEF WireSlotsRead
<1>6. MemSize \in Nat /\ 1 \in 1 .. MemSize
  BY <1>1, VarFirst
<1>7. Len(res.cells) <= T
  BY <1>0 DEF Fits, Wanted, HeaderPcs
<1> HIDE DEF T, mem
<1>8. ASSUME Begun' PROVE Begun /\ pkt'.mem[1] = pkt.mem[1]
  <2>1. call.nrd + Count(res) = 1 + T
    BY <1>1, <1>4, <1>5, <1>8 DEF Begun, Whole
  <2>2. call.nrd = 1 /\ kept = 1 + T
    BY <1>0, <1>1, <1>5, <1>7, <2>1, CountType
  <2>3. mem[1] = pkt.mem[1]
    BY <1>2, <1>6 DEF Written
  <2>4. Cleared(mem, kept + 1)[1] = mem[1]
    BY <1>5, <1>6, <2>2 DEF Cleared
  <2> QED
    BY <1>0, <1>4, <2>2, <2>3, <2>4 DEF Begun
<1> QED
  BY <1>4, <1>8 DEF FirstFrom, CountedOK, HeaderPcs


(* A waveform packet whose read fails has -1 for its length.               *)
LEMMA FailsFirst ==
    ASSUME TypeOK, call.pc \in {"prefix", "wf_head", "wf_data"}, NEW res, WaveFails(res)
    PROVE  CountedOK' /\ ~Begun'
<1>1. call \in Calls /\ Codec[call.type] = "wave"
  BY DEF TypeOK, CallOK
<1>2. call'.pc = "check" /\ call'.nrd = -1 /\ call'.type = call.type
  BY <1>1 DEF WaveFails, Calls
<1>3. ~Whole'
  BY <1>1, <1>2 DEF Whole
<1> QED
  BY <1>2, <1>3 DEF CountedOK, Begun, HeaderPcs

LEMMA PrefixFirst ==
    ASSUME TypeOK, PlaceOK, NEW res, Fits(res), WavePrefix(res)
    PROVE  CountedOK' /\ FirstFrom(res)
<1> DEFINE P   == Prefix(call.type, h.hdr.ver)
           mem == Copied(pkt.mem, 1, res.cells)
<1>0. call.pc = "prefix" /\ call.pc \in PayloadPcs
  BY DEF WavePrefix, WantsPayload, PayloadPcs, ReadPcs, HeaderPcs
<1>1. call.type \in Types /\ h.hdr.ver \in Nat /\ Codec[call.type] # "var"
  BY <1>0, PayloadCall DEF TypeOK, CallOK
<1>2. Written(mem, pkt.mem, 1, res.cells)
  BY CountType, CopiedAt
<1>3. pkt' = [pkt EXCEPT !.mem = ReadoutCleared(mem)]
  BY DEF WavePrefix
<1>4. CASE WaveFails(res)
  BY <1>0, <1>4, FailsFirst DEF FirstFrom
<1>5. CASE /\ Complete(res, P)
           /\ call' = [call EXCEPT !.pc = "wf_head", !.nrd = @ + Count(res), !.grp = 1]
  <2>1. call'.pc = "wf_head" /\ pkt'.mem = ReadoutCleared(mem)
    BY <1>0, <1>3, <1>5, PayloadCall DEF Calls, Buffers
  <2> HIDE DEF mem
  <2>2. /\ Len(res.cells) = P /\ P \in Nat /\ P >= 1 /\ 1 \in 1 .. MemSize
        /\ PrefixLen[call.type][0] >= 1 /\ PrefixLen[call.type][0] \in Nat
    BY <1>1, <1>5, HasFirst DEF Complete
  <2>3. mem[1] = res.cells[1]
    <3>1. 1 \in 1 .. Len(res.cells)
      BY <2>2
    <3> QED
      BY <1>2, <2>2, <3>1 DEF Written
  <2>4. ReadoutCleared(mem)[1] = mem[1]
    <3>1. 1 # PrefixLen[call.type][0] + 1
      BY <2>2
    <3> QED
      BY <2>2, <3>1 DEF ReadoutCleared
  <2> QED
    BY <2>1, <2>2, <2>3, <2>4 DEF FirstFrom, CountedOK, HeaderPcs
<1> QED
  BY <1>4, <1>5 DEF WavePrefix

(* The waveforms lie behind the prefix, which has bytes.                   *)
LEMMA GroupsBehind ==
    ASSUME TypeOK, call.pc \in {"wf_head", "wf_data"}
    PROVE  /\ GroupAddr(call.type, call.grp) \in Nat
           /\ GroupAddr(call.type, call.grp) > 1
           /\ 1 \in 1 .. MemSize
<1>1. /\ call.pc \in PayloadPcs
      /\ call.grp \in 1 .. NumGroups[call.type] /\ Codec[call.type] # "var"
  BY DEF TypeOK, CallOK, PayloadPcs, ReadPcs, HeaderPcs
<1>2. call.type \in Types /\ h.hdr.ver \in Nat
  BY <1>1, PayloadCall
<1> DEFINE a == GroupAddr(call.type, call.grp)
<1>3. a \in Nat /\ a > PrefixLen[call.type][CurVer[call.type]]
  BY <1>1, <1>2, GroupPlaces
<1>4. /\ PrefixLen[call.type][CurVer[call.type]] >= 1
      /\ PrefixLen[call.type][CurVer[call.type]] \in Nat
      /\ 1 \in 1 .. MemSize
  BY <1>1, <1>2, HasFirst
<1> HIDE DEF a
<1>5. a > 1
  BY <1>3, <1>4
<1> QED
  BY <1>3, <1>4, <1>5 DEF a

LEMMA HeadFirst ==
    ASSUME TypeOK, PlaceOK, NEW res, Fits(res), WaveHead(res)
    PROVE  CountedOK' /\ FirstFrom(res)
<1>0. call.pc = "wf_head" /\ Begun
  BY DEF WaveHead, WantsPayload, Begun
<1> DEFINE a   == GroupAddr(call.type, call.grp)
           mem == Copied(pkt.mem, a, res.cells)
<1>1. a \in Nat /\ 1 < a /\ 1 \in 1 .. MemSize
  BY <1>0, GroupsBehind
<1>2. Written(mem, pkt.mem, a, res.cells)
  BY <1>1, CountType, CopiedAt
<1>3. pkt' = [pkt EXCEPT !.mem = mem] /\ pkt \in Buffers /\ call \in Calls
  BY DEF WaveHead, TypeOK
<1>4. pkt'.mem = mem
  BY <1>3 DEF Buffers
<1> HIDE DEF mem, a
<1>5. pkt'.mem[1] = pkt.mem[1]
  BY <1>1, <1>2, <1>4 DEF Written
<1>6. FirstFrom(res)
  BY <1>0, <1>5 DEF FirstFrom
<1>7. CASE WaveFails(res)
  BY <1>0, <1>6, <1>7, FailsFirst
<1>8. ASSUME NEW n, call' = [call EXCEPT !.pc = "wf_data", !.nrd = @ + 1,
                                         !.counts[call.grp] = n]
      PROVE  CountedOK'
  <2>1. call'.pc = "wf_data"
    BY <1>3, <1>8 DEF Calls
  <2> QED
    BY <2>1 DEF CountedOK, HeaderPcs
<1> QED
  BY <1>6, <1>7, <1>8 DEF WaveHead

LEMMA DataFirst ==
    ASSUME TypeOK, PlaceOK, NEW res, Fits(res), WaveData(res)
    PROVE  CountedOK' /\ FirstFrom(res)
<1>0. call.pc = "wf_data" /\ Begun
  BY DEF WaveData, WantsPayload, Begun
<1> DEFINE a   == GroupAddr(call.type, call.grp)
           mem == Copied(pkt.mem, a + 1, res.cells)
<1>1. a + 1 \in Nat /\ 1 < a + 1 /\ 1 \in 1 .. MemSize
  <2>1. a \in Nat /\ 1 < a /\ 1 \in 1 .. MemSize
    BY <1>0, GroupsBehind
  <2> HIDE DEF a
  <2> QED
    BY <2>1
<1>2. Written(mem, pkt.mem, a + 1, res.cells)
  BY <1>1, CountType, CopiedAt
<1>3. pkt' = [pkt EXCEPT !.mem = mem] /\ pkt \in Buffers /\ call \in Calls
  BY DEF WaveData, TypeOK
<1>4. pkt'.mem = mem
  BY <1>3 DEF Buffers
<1>5. /\ \E pc \in {"check", "wf_head"} : call'.pc = pc
      /\ CountedOK'
  <2>1. CASE WaveFails(res)
    <3>1. call'.pc = "check"
      BY <1>3, <2>1 DEF WaveFails, Calls
    <3> QED
      BY <3>1 DEF CountedOK, HeaderPcs
  <2>2. CASE ~WaveFails(res)
    <3>1. call'.pc = IF call.grp = NumGroups[call.type] THEN "check" ELSE "wf_head"
      BY <1>3, <2>2 DEF WaveData, Calls
    <3> QED
      BY <3>1 DEF CountedOK, HeaderPcs
  <2> QED
    BY <2>1, <2>2
<1> HIDE DEF mem, a
<1>6. pkt'.mem[1] = pkt.mem[1]
  BY <1>1, <1>2, <1>4 DEF Written
<1> QED
  BY <1>0, <1>5, <1>6 DEF FirstFrom

(* The result of a read_bytes.                                             *)
LEMMA ReceiveFirst ==
    ASSUME TypeOK, PlaceOK, NEW res, Fits(res), Receive(res)
    PROVE  CountedOK' /\ FirstFrom(res) /\ out' = out
<1>1. out' = out
  BY DEF Receive, HeaderArrives, HeaderNothing, HeaderFails, SimpleRead, VarFixed,
         VarTail, WavePrefix, WaveHead, WaveData
<1>2. CASE HeaderArrives(res) \/ HeaderNothing(res) \/ HeaderFails(res)
  <2>1. Quietly
    BY <1>2, HeaderQuiet DEF HeaderArrives, HeaderNothing, HeaderFails
  <2> QED
    BY <1>1, <2>1, QuietPlace DEF PlaceOK, FirstFrom
<1> QED
  BY <1>1, <1>2, SimpleFirst, FixedFirst, TailFirst, PrefixFirst, HeadFirst, DataFirst
     DEF Receive


(* A step of the reader leaves the writer and the copies alone: the rest   *)
(* is that it balances the accounts.                                       *)
Balance(id) == UnderWay(id) + InBuffer(id) + InMemory(id) + Occurrences(id)

WritersSame == UNCHANGED <<scene, sent, w, wbuf, copies, lost>>

LEMMA ReaderStepOK ==
    ASSUME UInv, WritersSame, TypeOK', failed' \in Nat, Faults' <= scene.faults,
           NetOK', PlaceOK', OutOK',
           \A id \in DOMAIN sent : Balance(id)' <= Balance(id)
    PROVE  UInv'
<1>0. /\ SceneOK /\ NetOK /\ WriterOK /\ CountOK /\ AccountOK
      /\ UNCHANGED <<scene, sent, w, wbuf, copies, lost>>
  BY DEF UInv, WritersSame
<1>1. SceneOK'
  BY <1>0 DEF SceneOK
<1>2. WriterOK'
  BY <1>0 DEF WriterOK, DatagramOf, FirstCell
<1>3. CountOK'
  BY <1>0 DEF CountOK, Sent
<1>4. AccountOK'
  <2> SUFFICES ASSUME NEW id \in DOMAIN sent PROVE Balance(id)' <= copies[id]
    BY <1>0 DEF AccountOK, Balance
  <2>1. Balance(id)' <= Balance(id) /\ Balance(id) <= copies[id]
    BY <1>0 DEF AccountOK, Balance
  <2>2. Balance(id) \in Nat /\ copies[id] \in Nat
    BY <1>0, Terms, SMTT(30) DEF Balance, CountOK
  <2>3. Balance(id)' \in Nat
    <3>1. /\ UnderWay(id)' \in Nat /\ Occurrences(id)' \in Nat
          /\ InBuffer(id)' \in {0, 1} /\ InMemory(id)' \in {0, 1}
      <4>1. IsFiniteSet(net') /\ out' \in Seq(Nat)
        BY DEF NetOK, TypeOK
      <4>2. UnderWay(id)' \in Nat
        BY <4>1, OfFinite DEF UnderWay
      <4>3. Occurrences(id)' \in Nat
        <5>1. IsFiniteSet(DOMAIN out')
          <6>1. DOMAIN out' = 1 .. Len(out') /\ Len(out') \in Nat
            BY <4>1
          <6> QED
            BY <6>1, FS_Interval
        <5> QED
          BY <5>1, FS_Subset, FS_CardinalityType DEF Occurrences
      <4> QED
        BY <4>2, <4>3 DEF InBuffer, InMemory
    <3> QED
      BY <3>1 DEF Balance
  <2> QED
    BY <2>1, <2>2, <2>3
<1> QED
  BY <1>1, <1>2, <1>3, <1>4 DEF UInv

(* A call of the client, and what needs no read_bytes but the last step.   *)
LEMMA QuietOK ==
    ASSUME UInv, UNCHANGED <<sent, udpVars>>, Client \/ (Internal /\ ~Check)
    PROVE  UInv'
<1>0. /\ SceneOK /\ NetOK /\ PlaceOK /\ OutOK /\ TypeOK
      /\ UNCHANGED <<sent, scene, w, wbuf, net, rbuf, nout, copies, lost, failed>>
  BY DEF UInv, SceneOK, udpVars
<1>1. TypeOK'
  BY <1>0, ClientType, InternalType
<1>2. out' = out
  BY DEF Client, LLRead, LLReadRealloc, TypedRead, ClientAllocates,
         Internal, HeaderAlreadyRead, TooSmall, Dispatch, SimpleBadVersion
<1>3. PlaceOK' /\ ~Begun'
  <2>1. call \in Calls
    BY <1>0 DEF TypeOK
  <2>2. \A x, op, pc : /\ Idle(x).pc = "idle" /\ Idle(x).nrd = 0
                       /\ Calling(op, pc).pc = pc /\ Calling(op, pc).nrd = 0
                       /\ Fresh.pc = "idle" /\ Fresh.nrd = 0
    BY DEF Idle, Calling, Fresh
  <2>3. CASE Client
    <3>1. Quietly
      <4>1. CASE LLRead \/ LLReadRealloc
        BY <2>2, <4>1 DEF LLRead, LLReadRealloc, Quietly, HeaderPcs
      <4>2. ASSUME NEW t \in Types, TypedRead(t)
            PROVE  call'.nrd = 0 /\ call'.pc = "typed_header"
        <5>1. call' = [Calling("typed", "typed_header") EXCEPT !.type = t]
          BY <4>2 DEF TypedRead
        <5> QED
          BY <5>1 DEF Calling, Idle
      <4>3. ASSUME NEW cap, ClientAllocates(cap)
            PROVE  call'.nrd = 0 /\ call'.pc = "idle"
        BY <2>2, <4>3 DEF ClientAllocates
      <4> QED
        BY <2>3, <4>1, <4>2, <4>3 DEF Client, Quietly, HeaderPcs
    <3> QED
      BY <3>1, QuietPlace
  <2>4. CASE HeaderAlreadyRead
    <3>1. Quietly
      BY <1>0, <2>4, HeaderQuiet DEF HeaderAlreadyRead
    <3> QED
      BY <3>1, QuietPlace
  <2>5. CASE TooSmall \/ Dispatch
    <3>1. call.pc = "capacity" /\ call.nrd = 0
      BY <1>0, <2>5 DEF TooSmall, Dispatch, PlaceOK, CountedOK
    <3>2. \/ \E x : call' = Idle(x)
          \/ call' = [call EXCEPT !.op = "ll"]
          \/ call' = [call EXCEPT !.pc = "typed_header", !.type = h.hdr.type]
      BY <2>5 DEF TooSmall, Dispatch, ReadXReturns
    <3>3. call'.nrd = 0 /\ call'.pc \in {"idle", "capacity", "typed_header"}
      <4>1. CASE \E x : call' = Idle(x)
        BY <2>2, <4>1
      <4>2. CASE call' = [call EXCEPT !.op = "ll"]
        BY <2>1, <3>1, <4>2 DEF Calls
      <4>3. CASE call' = [call EXCEPT !.pc = "typed_header", !.type = h.hdr.type]
        BY <2>1, <3>1, <4>3 DEF Calls
      <4> QED
        BY <3>2, <4>1, <4>2, <4>3
    <3>4. Quietly
      BY <3>3 DEF Quietly, HeaderPcs
    <3> QED
      BY <3>4, QuietPlace
  <2>6. CASE SimpleBadVersion
    <3>1. call'.pc = "crashed"
      BY <2>1, <2>6 DEF SimpleBadVersion, Calls
    <3> QED
      BY <3>1 DEF PlaceOK, CountedOK, Begun, HeaderPcs
  <2> QED
    BY <2>3, <2>4, <2>5, <2>6 DEF Internal
<1>4. NetOK'
  BY <1>0 DEF NetOK, DatagramOf, FirstCell
<1>5. OutOK'
  BY <1>0, <1>2 DEF OutOK
<1>6. ASSUME NEW id PROVE Balance(id)' <= Balance(id)
  <2>1. /\ UnderWay(id)' = UnderWay(id) /\ InBuffer(id)' = InBuffer(id)
        /\ InMemory(id)' = 0 /\ Occurrences(id)' = Occurrences(id)
    BY <1>0, <1>2, <1>3 DEF UnderWay, InBuffer, InMemory, Occurrences
  <2>2. /\ UnderWay(id) \in Nat /\ Occurrences(id) \in Nat
        /\ InBuffer(id) \in {0, 1} /\ InMemory(id) \in {0, 1}
    BY <1>0, Terms
  <2> QED
    BY <2>1, <2>2 DEF Balance
<1>7. failed' \in Nat /\ Faults' <= scene.faults /\ WritersSame
  BY <1>0 DEF SceneOK, Faults, WritersSame
<1> QED
  BY <1>1, <1>3, <1>4, <1>5, <1>6, <1>7, ReaderStepOK

(* What is returned silently has the first cell of the packet at the start *)
(* of memory.                                                              *)
LEMMA SilentFirst ==
    ASSUME SceneOK, call.pc = "check", call.nrd > 0, Silent,
           NEW s, s = h.hdr.sum
    PROVE  s \in DOMAIN sent /\ s \in Nat /\ s # 0 /\ Begun /\ pkt.mem[1] = FirstCell(s)
<1> DEFINE p == sent[s]
<1>0. TypeOK
  BY DEF SceneOK
<1>1. /\ s \in DOMAIN sent
      /\ WireSlotsRead = WireSlots(p.type, p.ver, p.counts)
      /\ \A x \in WireSlotsRead : pkt.mem[AddrOf(call.type, x)] = Cell(s, x)
      /\ call.nrd = Cardinality(WireSlotsRead)
  BY DEF Silent, ChecksumOk, LengthOk
<1>2. s \in Nat /\ s # 0 /\ p \in Packets
  BY <1>0, <1>1, SentTypes DEF TypeOK
<1>3. Begun
  BY <1>1 DEF Begun, Whole
<1>4. /\ p.type \in Types /\ p.ver \in Nat /\ p.counts \in [Groups -> Nat]
  BY <1>2 DEF Packets
<1>5. /\ call.type \in Types /\ h.hdr.ver \in Nat /\ call.counts \in [Groups -> Nat]
  BY <1>0 DEF TypeOK, CallOK, Handles, Headers, Calls
<1> HIDE DEF p
(* Only a struct without a prefix is that of a variable packet.            *)
<1>6. ASSUME NEW t \in Types, NEW v \in Nat, NEW counts \in [Groups -> Nat]
      PROVE  /\ Codec[t] # "var" => Slot(0, 1) \in WireSlots(t, v, counts)
             /\ Codec[t] = "var" => /\ Slot(1, 0) \in WireSlots(t, v, counts)
                                    /\ Slot(0, 1) \notin WireSlots(t, v, counts)
  <2>1. CASE Codec[t] # "var"
    <3>1. Prefix(t, v) \in Nat /\ Prefix(t, v) >= 1
      BY <2>1, HasFirst
    <3>2. 1 \in 1 .. Prefix(t, v)
      BY <3>1
    <3> QED
      BY <2>1, <3>2 DEF WireSlots
  <2>2. CASE Codec[t] = "var"
    <3> DEFINE T == TailLen(t, v, counts[1])
    <3>1. WireSlots(t, v, counts) = {Slot(1, i) : i \in 0 .. T} /\ T \in Nat
      BY <2>2, PlainSlots
    <3>2. 0 \in 0 .. T
      BY <3>1
    <3> QED
      BY <2>2, <3>1, <3>2 DEF Slot
  <2> QED
    BY <2>1, <2>2
<1>7. CASE Codec[call.type] # "var"
  <2>1. Slot(0, 1) \in WireSlotsRead
    BY <1>5, <1>6, <1>7 DEF WireSlotsRead
  <2>2. Codec[p.type] # "var"
    BY <1>1, <1>4, <1>6, <2>1
  <2>3. AddrOf(call.type, Slot(0, 1)) = 1
    BY DEF AddrOf, Slot
  <2> QED
    BY <1>1, <1>2, <1>3, <2>1, <2>2, <2>3 DEF FirstCell, FirstSlot, p
<1>8. CASE Codec[call.type] = "var"
  <2>1. Slot(1, 0) \in WireSlotsRead /\ Slot(0, 1) \notin WireSlotsRead
    BY <1>5, <1>6, <1>8 DEF WireSlotsRead
  <2>2. Codec[p.type] = "var"
    BY <1>1, <1>4, <1>6, <2>1
  <2>3. AddrOf(call.type, Slot(1, 0)) = 1
    <3>1. GroupAddr(call.type, 1) = 1
      BY <1>5, <1>8, VarFirst
    <3>2. AddrOf(call.type, Slot(1, 0)) = GroupAddr(call.type, 1) + 0
      BY DEF AddrOf, Slot
    <3> QED
      BY <3>1, <3>2
  <2> QED
    BY <1>1, <1>2, <1>3, <2>1, <2>2, <2>3 DEF FirstCell, FirstSlot, p
<1> QED
  BY <1>7, <1>8

(* The packet in memory is returned, and the call is over.                 *)
LEMMA CheckOK ==
    ASSUME UInv, UNCHANGED <<sent, udpVars>>, Check
    PROVE  UInv'
<1>0. /\ SceneOK /\ NetOK /\ PlaceOK /\ OutOK /\ TypeOK /\ out \in Seq(Nat)
      /\ UNCHANGED <<sent, scene, w, wbuf, net, rbuf, nout, copies, lost, failed>>
  BY DEF UInv, SceneOK, TypeOK, udpVars
<1>1. TypeOK'
  BY <1>0, InternalType DEF Internal
<1>2. PlaceOK' /\ ~Begun'
  <2>1. call'.pc = "idle"
    BY DEF Check, ReadXReturns, Idle
  <2> QED
    BY <2>1 DEF PlaceOK, CountedOK, Begun, HeaderPcs
<1>3. NetOK'
  BY <1>0 DEF NetOK, DatagramOf, FirstCell
<1>4. \A id : /\ UnderWay(id)' = UnderWay(id) /\ InBuffer(id)' = InBuffer(id)
              /\ InMemory(id)' = 0
              /\ UnderWay(id) \in Nat /\ Occurrences(id) \in Nat
              /\ InBuffer(id) \in {0, 1} /\ InMemory(id) \in {0, 1}
  BY <1>0, <1>2, Terms DEF UnderWay, InBuffer, InMemory
<1>5. failed' \in Nat /\ Faults' <= scene.faults /\ WritersSame
  BY <1>0 DEF SceneOK, Faults, WritersSame
<1>6. OutOK' /\ \A id \in DOMAIN sent : Balance(id)' <= Balance(id)
  <2>1. CASE call.nrd > 0 /\ Silent
    <3> PICK s : s = h.hdr.sum
      OBVIOUS
    <3>1. s \in DOMAIN sent /\ s \in Nat /\ s # 0 /\ Begun /\ pkt.mem[1] = FirstCell(s)
      BY <1>0, <2>1, SilentFirst DEF Check
    <3>2. out' = Append(out, s)
      BY <2>1 DEF Check
    <3>3. OutOK'
      <4>1. \A i \in DOMAIN out' : (i \in DOMAIN out /\ out'[i] = out[i]) \/ out'[i] = s
        BY <1>0, <3>1, <3>2
      <4> QED
        BY <1>0, <3>1, <4>1 DEF OutOK
    <3>4. ASSUME NEW id \in DOMAIN sent PROVE Balance(id)' <= Balance(id)
      <4>1. Occurrences(id)' = Occurrences(id) + (IF s = id THEN 1 ELSE 0)
        BY <1>0, <3>1, <3>2, OccurrencesStep
      <4>2. s = id => InMemory(id) = 1
        BY <3>1 DEF InMemory
      <4> QED
        BY <1>4, <4>1, <4>2 DEF Balance
    <3> QED
      BY <3>3, <3>4
  <2>2. CASE ~(call.nrd > 0 /\ Silent)
    <3>1. out' = out \/ out' = Append(out, 0)
      BY <2>2 DEF Check
    <3>2. \A i \in DOMAIN out' : (i \in DOMAIN out /\ out'[i] = out[i]) \/ out'[i] = 0
      BY <1>0, <3>1
    <3>3. OutOK'
      BY <1>0, <3>2 DEF OutOK
    <3>4. ASSUME NEW id \in DOMAIN sent PROVE Balance(id)' <= Balance(id)
      <4>1. id # 0
        BY <1>0, <3>4 DEF TypeOK
      <4>2. Occurrences(id)' = Occurrences(id)
        <5>1. CASE out' = out
          BY <5>1 DEF Occurrences
        <5>2. CASE out' = Append(out, 0)
          <6>1. Occurrences(id)' = Occurrences(id) + (IF 0 = id THEN 1 ELSE 0)
            BY <1>0, <5>2, OccurrencesStep
          <6> QED
            BY <1>4, <4>1, <6>1
        <5> QED
          BY <3>1, <5>1, <5>2
      <4> QED
        BY <1>4, <4>2 DEF Balance
    <3> QED
      BY <3>3, <3>4
  <2> QED
    BY <2>1, <2>2
<1> QED
  BY <1>1, <1>2, <1>3, <1>5, <1>6, ReaderStepOK


(* What socket_readbytes copies out of a datagram.                         *)
LEMMA CopiedOut ==
    ASSUME TypeOK, Reading, NEW d \in Seq(AllCells), NEW from \in 0 .. Len(d),
           NEW mark \in BOOLEAN, CopyOut(d, from, mark)
    PROVE  \E res : /\ Fits(res) /\ Receive(res)
                    /\ nout' \in from .. Len(d)
                    /\ Len(res.cells) >= 1 =>
                          /\ from + 1 \in 1 .. Len(d) /\ nout' > from
                          /\ res.cells[1] = d[from + 1]
<1> DEFINE left  == Len(d) - from
           ncopy == IF left < Wanted THEN left ELSE Wanted
           cells == SubSeq(d, from + 1, from + ncopy)
           res   == [cells |-> cells, err |-> FALSE, mark |-> mark]
<1>1. Receive(res) /\ nout' = from + ncopy
  BY DEF CopyOut
<1>2. Wanted \in Nat /\ Len(d) \in Nat /\ from \in Nat /\ left \in Nat
  BY WantedType
<1>3. ncopy \in Nat /\ ncopy <= left /\ ncopy <= Wanted
  BY <1>2
<1> HIDE DEF ncopy
<1>4. from + ncopy \in from .. Len(d)
  BY <1>2, <1>3
<1>5. /\ cells \in Seq(AllCells) /\ Len(cells) = ncopy
      /\ ncopy >= 1 => cells[1] = d[from + 1]
  BY <1>2, <1>3, <1>4
<1> HIDE DEF cells
<1>6. Fits(res)
  BY <1>3, <1>5 DEF Fits, Results
<1>7. Len(res.cells) >= 1 =>
          /\ from + 1 \in 1 .. Len(d) /\ nout' > from
          /\ res.cells[1] = d[from + 1]
  BY <1>1, <1>2, <1>3, <1>5
<1> HIDE DEF res
<1> QED
  BY <1>1, <1>4, <1>6, <1>7

(* Reading on in the last datagram: its first cell passes from the buffer  *)
(* to memory.                                                              *)
LEMMA ReadOnOK == ASSUME UInv, ReadOn PROVE UInv'
<1>0. /\ SceneOK /\ NetOK /\ PlaceOK /\ OutOK /\ TypeOK
      /\ Reading /\ Len(rbuf) # nout /\ CopyOut(rbuf, nout, FALSE)
      /\ UNCHANGED <<scene, sent, w, wbuf, net, rbuf, copies, lost, failed>>
  BY DEF UInv, SceneOK, ReadOn
<1>1. rbuf \in Seq(AllCells) /\ nout \in 0 .. Len(rbuf) /\ nout \in Nat
  BY <1>0 DEF NetOK
<1>2. PICK res : /\ Fits(res) /\ Receive(res)
                 /\ nout' \in nout .. Len(rbuf)
                 /\ Len(res.cells) >= 1 =>
                       /\ nout + 1 \in 1 .. Len(rbuf) /\ nout' > nout
                       /\ res.cells[1] = rbuf[nout + 1]
  BY <1>0, <1>1, CopiedOut
<1>3. CountedOK' /\ FirstFrom(res) /\ out' = out
  BY <1>0, <1>2, ReceiveFirst
<1>4. TypeOK'
  BY <1>0, <1>2, ReceiveType DEF Fits
<1>5. nout' \in 0 .. Len(rbuf) /\ nout' \in Nat /\ nout' >= nout
  BY <1>1, <1>2
<1>6. rbuf # <<>> /\ DatagramOf(rbuf, rbuf[1][1])
  BY <1>0, <1>1 DEF NetOK
<1>7. NetOK'
  BY <1>0, <1>5 DEF NetOK, DatagramOf, FirstCell
<1>8. OutOK'
  BY <1>0, <1>3 DEF OutOK
<1>9. ASSUME Len(res.cells) >= 1
      PROVE  /\ res.cells[1][1] = rbuf[1][1] /\ rbuf[1][1] \in DOMAIN sent
             /\ \A id : res.cells[1] = FirstCell(id) =>
                           id = rbuf[1][1] /\ nout = HeadLen
  <2>1. /\ rbuf[nout + 1][1] = rbuf[1][1] /\ rbuf[1][1] \in DOMAIN sent
        /\ rbuf[nout + 1] = FirstCell(rbuf[1][1]) => nout + 1 = HeadLen + 1
    BY <1>2, <1>6, <1>9 DEF DatagramOf
  <2>2. \A id : FirstCell(id)[1] = id
    BY DEF FirstCell, Cell
  <2> QED
    BY <1>1, <1>2, <1>9, <2>1, <2>2 DEF HeadLen
<1>10. PlaceOK'
  <2>1. ASSUME Begun' PROVE pkt'.mem[1][1] \in DOMAIN sent
    BY <1>0, <1>3, <1>9, <2>1 DEF FirstFrom, PlaceOK
  <2> QED
    BY <1>0, <1>3, <2>1 DEF PlaceOK
<1>11. ASSUME NEW id \in DOMAIN sent PROVE Balance(id)' <= Balance(id)
  <2>1. UnderWay(id)' = UnderWay(id) /\ Occurrences(id)' = Occurrences(id)
        /\ FirstCell(id)' = FirstCell(id)
    BY <1>0, <1>3 DEF UnderWay, Occurrences, FirstCell
  <2>2. /\ UnderWay(id) \in Nat /\ Occurrences(id) \in Nat
        /\ InBuffer(id) \in {0, 1} /\ InMemory(id) \in {0, 1}
    BY <1>0, Terms
  <2>3. InBuffer(id)' \in {0, 1} /\ InBuffer(id)' <= InBuffer(id)
    <3>1. nout' <= HeadLen => nout <= HeadLen
      BY <1>1, <1>5 DEF HeadLen
    <3> QED
      BY <1>0, <3>1 DEF InBuffer
  <2>4. InBuffer(id)' + InMemory(id)' <= InBuffer(id) + InMemory(id)
    <3>1. CASE Begun' /\ Begun /\ pkt'.mem[1] = pkt.mem[1]
      <4>1. InMemory(id)' = InMemory(id)
        BY <2>1, <3>1 DEF InMemory
      <4> QED
        BY <2>2, <2>3, <4>1
    <3>2. CASE /\ Begun' /\ Len(res.cells) >= 1 /\ pkt'.mem[1] = res.cells[1]
               /\ res.cells[1] = FirstCell(id)
      <4>1. id = rbuf[1][1] /\ nout = HeadLen /\ nout' > nout
        BY <1>2, <1>9, <3>2
      <4>2. InBuffer(id) = 1
        BY <1>6, <4>1 DEF InBuffer, HeadLen
      <4>3. InBuffer(id)' = 0
        <5>1. ~(nout' <= HeadLen)
          BY <1>5, <4>1 DEF HeadLen
        <5> QED
          BY <5>1 DEF InBuffer
      <4>4. InMemory(id)' \in {0, 1}
        BY DEF InMemory
      <4> QED
        BY <2>2, <4>2, <4>3, <4>4
    <3>3. CASE ~(Begun' /\ pkt'.mem[1] = FirstCell(id))
      <4>1. InMemory(id)' = 0
        BY <2>1, <3>3 DEF InMemory
      <4> QED
        BY <2>2, <2>3, <4>1
    <3> QED
      BY <1>3, <3>1, <3>2, <3>3 DEF FirstFrom
  <2>5. InMemory(id)' \in {0, 1}
    BY DEF InMemory
  <2>6. /\ Balance(id)' = UnderWay(id) + (InBuffer(id)' + InMemory(id)') + Occurrences(id)
        /\ Balance(id) = UnderWay(id) + (InBuffer(id) + InMemory(id)) + Occurrences(id)
    BY <2>1, <2>2, <2>3, <2>5 DEF Balance
  <2> QED
    BY <2>2, <2>3, <2>4, <2>5, <2>6
<1>12. failed' \in Nat /\ Faults' <= scene.faults /\ WritersSame
  BY <1>0 DEF SceneOK, Faults, WritersSame
<1> QED
  BY <1>4, <1>7, <1>8, <1>10, <1>11, <1>12, ReaderStepOK

(* The next datagram: from the network into the buffer, and what of it is  *)
(* copied to memory begins with the header.                                *)
LEMMA ReadNextOK == ASSUME UInv, ReadNext PROVE UInv'
<1>0. /\ SceneOK /\ NetOK /\ PlaceOK /\ OutOK /\ TypeOK
      /\ Reading
      /\ UNCHANGED <<scene, sent, w, wbuf, copies, lost, failed>>
  BY DEF UInv, SceneOK, ReadNext
<1> PICK d \in net : net' = net \ {d} /\ rbuf' = d[1] /\ CopyOut(d[1], 0, TRUE)
  BY DEF ReadNext
<1>1. /\ DatagramOf(d[1], d[1][1][1]) /\ d[1] \in Seq(AllCells)
      /\ Len(d[1]) \in Nat /\ 0 \in 0 .. Len(d[1]) /\ IsFiniteSet(net)
  <2>1. DatagramOf(d[1], d[1][1][1]) /\ IsFiniteSet(net)
    BY <1>0 DEF NetOK
  <2>2. d[1] \in Seq(AllCells)
    BY <2>1 DEF DatagramOf
  <2> QED
    BY <2>1, <2>2
<1>2. PICK res : /\ Fits(res) /\ Receive(res)
                 /\ nout' \in 0 .. Len(d[1])
                 /\ Len(res.cells) >= 1 =>
                       1 \in 1 .. Len(d[1]) /\ res.cells[1] = d[1][1]
  <2>1. TRUE \in BOOLEAN
    OBVIOUS
  <2>2. \E res : /\ Fits(res) /\ Receive(res)
                 /\ nout' \in 0 .. Len(d[1])
                 /\ Len(res.cells) >= 1 =>
                       /\ 0 + 1 \in 1 .. Len(d[1]) /\ nout' > 0
                       /\ res.cells[1] = d[1][0 + 1]
    BY <1>0, <1>1, <2>1, CopiedOut
  <2> QED
    BY <2>2
<1>3. CountedOK' /\ FirstFrom(res) /\ out' = out
  BY <1>0, <1>2, ReceiveFirst
<1>4. TypeOK'
  BY <1>0, <1>2, ReceiveType DEF Fits
<1>5. d[1][1][1] \in DOMAIN sent
  BY <1>1 DEF DatagramOf
<1>6. NetOK'
  <2>1. IsFiniteSet(net \ {d})
    BY <1>1, OfRemoved
  <2> QED
    BY <1>0, <1>1, <1>2, <2>1 DEF NetOK, DatagramOf, FirstCell
<1>7. OutOK'
  BY <1>0, <1>3 DEF OutOK
<1>8. ASSUME Len(res.cells) >= 1
      PROVE  /\ res.cells[1][1] \in DOMAIN sent
             /\ \A id : res.cells[1] # FirstCell(id)
  <2>1. /\ res.cells[1] = d[1][1]
        /\ d[1][1] = FirstCell(d[1][1][1]) => 1 = HeadLen + 1
    BY <1>1, <1>2, <1>8 DEF DatagramOf
  <2>2. \A id : FirstCell(id)[1] = id
    BY DEF FirstCell, Cell
  <2> QED
    BY <1>5, <2>1, <2>2 DEF HeadLen
<1>9. PlaceOK'
  <2>1. ASSUME Begun' PROVE pkt'.mem[1][1] \in DOMAIN sent
    BY <1>0, <1>3, <1>8, <2>1 DEF FirstFrom, PlaceOK
  <2> QED
    BY <1>0, <1>3, <2>1 DEF PlaceOK
<1>10. ASSUME NEW id \in DOMAIN sent PROVE Balance(id)' <= Balance(id)
  <2> PICK mine : mine = IF d[1][1][1] = id THEN 1 ELSE 0
    OBVIOUS
  <2>1. UnderWay(id)' = UnderWay(id) - mine
    BY <1>1, OfRemoved DEF UnderWay
  <2>2. Occurrences(id)' = Occurrences(id) /\ FirstCell(id)' = FirstCell(id)
    BY <1>0, <1>3 DEF Occurrences, FirstCell
  <2>3. /\ UnderWay(id) \in Nat /\ Occurrences(id) \in Nat
        /\ InBuffer(id) \in {0, 1} /\ InMemory(id) \in {0, 1}
    BY <1>0, Terms
  <2>4. InBuffer(id)' \in {0, 1} /\ InBuffer(id)' <= mine
    BY DEF InBuffer
  <2>5. InMemory(id)' \in {0, 1} /\ InMemory(id)' <= InMemory(id)
    <3>1. CASE Begun' /\ Begun /\ pkt'.mem[1] = pkt.mem[1]
      <4>1. InMemory(id)' = InMemory(id)
        BY <2>2, <3>1 DEF InMemory
      <4> QED
        BY <2>3, <4>1
    <3>2. CASE ~(Begun' /\ pkt'.mem[1] = FirstCell(id))
      <4>1. InMemory(id)' = 0
        BY <2>2, <3>2 DEF InMemory
      <4> QED
        BY <2>3, <4>1
    <3> QED
      BY <1>3, <1>8, <3>1, <3>2 DEF FirstFrom
  <2>6. mine \in {0, 1}
    OBVIOUS
  <2> QED
    BY <2>1, <2>2, <2>3, <2>4, <2>5, <2>6 DEF Balance
<1>11. failed' \in Nat /\ Faults' <= scene.faults /\ WritersSame
  BY <1>0 DEF SceneOK, Faults, WritersSame
<1> QED
  BY <1>4, <1>6, <1>7, <1>9, <1>10, <1>11, ReaderStepOK

LEMMA RecvFailsOK == ASSUME UInv, ReadFails PROVE UInv'
<1> DEFINE res == [cells |-> <<>>, err |-> TRUE, mark |-> FALSE]
<1>0. /\ SceneOK /\ NetOK /\ PlaceOK /\ OutOK /\ TypeOK /\ scene.faults \in Nat
      /\ Reading /\ Faults < scene.faults /\ Receive(res) /\ failed' = failed + 1
      /\ UNCHANGED <<scene, sent, w, wbuf, net, rbuf, nout, copies, lost>>
  BY UdpAssumption DEF UInv, SceneOK, ReadFails
<1>1. Fits(res) /\ Len(res.cells) = 0
  <2>1. <<>> \in Seq(AllCells)
    OBVIOUS
  <2>2. Wanted \in Nat
    BY <1>0, WantedType
  <2> QED
    BY <2>1, <2>2 DEF Fits, Results
<1> HIDE DEF res
<1>2. CountedOK' /\ FirstFrom(res) /\ out' = out
  BY <1>0, <1>1, ReceiveFirst
<1>3. TypeOK'
  BY <1>0, <1>1, ReceiveType DEF Fits
<1>4. NetOK'
  BY <1>0 DEF NetOK, DatagramOf, FirstCell
<1>5. OutOK'
  BY <1>0, <1>2 DEF OutOK
<1>6. Begun' => Begun /\ pkt'.mem[1] = pkt.mem[1]
  BY <1>1, <1>2 DEF FirstFrom
<1>7. PlaceOK'
  <2>1. Begun' => pkt'.mem[1][1] \in DOMAIN sent
    BY <1>0, <1>6 DEF PlaceOK
  <2> QED
    BY <1>0, <1>2, <2>1 DEF PlaceOK
<1>8. ASSUME NEW id \in DOMAIN sent PROVE Balance(id)' <= Balance(id)
  <2>1. /\ UnderWay(id)' = UnderWay(id) /\ Occurrences(id)' = Occurrences(id)
        /\ InBuffer(id)' = InBuffer(id) /\ FirstCell(id)' = FirstCell(id)
    BY <1>0, <1>2 DEF UnderWay, Occurrences, InBuffer, FirstCell
  <2>2. /\ UnderWay(id) \in Nat /\ Occurrences(id) \in Nat
        /\ InBuffer(id) \in {0, 1} /\ InMemory(id) \in {0, 1}
    BY <1>0, Terms
  <2>3. InMemory(id)' \in {0, 1} /\ InMemory(id)' <= InMemory(id)
    BY <1>6, <2>1 DEF InMemory
  <2> QED
    BY <2>1, <2>2, <2>3 DEF Balance
<1>9. failed' \in Nat /\ Faults' <= scene.faults /\ WritersSame
  BY <1>0 DEF SceneOK, Faults, WritersSame
<1> QED
  BY <1>3, <1>4, <1>5, <1>7, <1>8, <1>9, ReaderStepOK

-----------------------------------------------------------------------------
(* The invariant.                                                          *)

LEMMA InitUInv == UInit => UInv
<1> SUFFICES ASSUME UInit PROVE UInv
  OBVIOUS
<1>1. /\ Init /\ scene \in Scenes /\ w = Write!FreshWriter /\ wbuf = <<>>
      /\ net = {} /\ rbuf = <<>> /\ nout = 0 /\ copies = <<>>
      /\ lost = 0 /\ failed = 0
  BY DEF UInit
<1>2. call.pc = "idle" /\ out = <<>> /\ sent = <<>>
  BY <1>1 DEF Init, Fresh, Idle
<1>3. TypeOK
  <2>1. h \in Handles /\ pkt \in Buffers
    BY <1>1 DEF Init, FreshHandle, NullPacket, NoHeader, Handles, Buffers, Headers,
                Junk, AllCells
  <2>2. call \in Calls
    BY <1>1, IdleType DEF Init, Fresh, Idle, Calls
  <2> QED
    BY <1>2, <2>1, <2>2 DEF TypeOK, CallOK, PayloadPcs, ReadPcs, HeaderPcs
<1>4. scene.faults \in Nat /\ scene.udpMax \in Nat
  BY <1>1, UdpAssumption
<1>5. SceneOK
  BY <1>1, <1>3, <1>4 DEF SceneOK, Faults
<1>6. NetOK
  BY <1>1, FS_EmptySet DEF NetOK
<1>7. WriterOK
  BY <1>1, <1>4 DEF WriterOK, Write!FreshWriter, Fields
<1>8. CountOK
  <2>1. Sent = {}
    BY <1>1 DEF Sent
  <2>2. w.counter = 0
    BY <1>1 DEF Write!FreshWriter
  <2> QED
    BY <1>1, <1>2, <2>1, <2>2, FS_EmptySet DEF CountOK
<1>9. PlaceOK /\ OutOK /\ AccountOK
  BY <1>2 DEF PlaceOK, CountedOK, Begun, OutOK, AccountOK, HeaderPcs
<1> QED
  BY <1>5, <1>6, <1>7, <1>8, <1>9 DEF UInv

LEMMA StepUInv == UInv /\ [UNext]_vars => UInv'
<1> SUFFICES ASSUME UInv, [UNext]_vars PROVE UInv'
  OBVIOUS
<1>1. CASE \E p \in Shapes : StartWrite(p)
  BY <1>1, StartWriteOK
<1>2. CASE ClientStep
  BY <1>2, QuietOK DEF ClientStep
<1>3. CASE InternalStep
  BY <1>3, QuietOK, CheckOK DEF InternalStep
<1>4. CASE UNCHANGED vars
  <2>1. /\ UNCHANGED <<sent, h, pkt, call, out, scene, w, wbuf, net, rbuf, nout,
                       copies, lost, failed>>
    BY <1>4 DEF vars, readVars, udpVars
  <2>2. ReaderSame /\ WriterOK' /\ lost' \in Nat /\ Faults' <= scene.faults
    BY <2>1 DEF UInv, SceneOK, ReaderSame, readVars, WriterOK, DatagramOf, FirstCell,
                Faults
  <2> QED
    BY <2>1, <2>2, SameAccounts DEF UInv, NetOK
<1> QED
  BY <1>1, <1>2, <1>3, <1>4, SocketWriteOK, SocketDoneOK, LoseOK, DuplicateOK,
     ReadOnOK, ReadNextOK, RecvFailsOK DEF UNext

(* For every packet table, UDP_MAX, client, network and number of faults:  *)
(* the handles keep to their types, no datagram grows beyond UDP_MAX and   *)
(* the reader's place stays within its buffer.                             *)
THEOREM UdpTypeCorrect == USpec => []UTypeOK
<1>1. UInv => UTypeOK
  <2> SUFFICES ASSUME UInv PROVE UTypeOK
    OBVIOUS
  <2>1. scene.faults \in Nat
    BY UdpAssumption DEF UInv, SceneOK
  <2>2. Faults \in 0 .. scene.faults
    BY <2>1 DEF UInv, SceneOK, Faults
  <2> QED
    BY <2>2 DEF UInv, SceneOK, NetOK, WriterOK, UTypeOK
<1> QED
  BY <1>1, InitUInv, StepUInv, PTL DEF USpec

(* packet_write_counter is the number of datagrams handed to the network,  *)
(* those cut off at UDP_MAX included and those refused not.                *)
THEOREM CounterCountsDatagrams == USpec => []CounterIsDatagrams
<1>1. UInv => CounterIsDatagrams
  BY DEF UInv, CountOK, Sent, CounterIsDatagrams
<1> QED
  BY <1>1, InitUInv, StepUInv, PTL DEF USpec

-----------------------------------------------------------------------------
(* A packet that was cut off at UDP_MAX is never whole in memory: its last *)
(* cell went into no datagram.                                             *)

LastOf(p) == SlotAt(NumGroups[p.type], LenOf(p, NumGroups[p.type]))
LastCell(id) == Cell(id, LastOf(sent[id]))

(* A cell of a packet that was sent, its last one only if all of it was.   *)
Landed(c) ==
    c[1] # 0 => c[1] \in DOMAIN sent /\ (c = LastCell(c[1]) => FitsDatagram(c[1]))

AllLanded(cells) == \A k \in 1 .. Len(cells) : Landed(cells[k])

MemoryLanded == \A a \in 1 .. MemSize : Landed(pkt.mem[a])

(* The writer's buffer has all of its packet so far, or is full.           *)
WriterRoom ==
    w.pc = "region" =>
        LET p == sent[w.id]
        IN  \/ Len(wbuf) = HeadLen + Size(p, GroupOf(p.type, w.region))
            \/ Len(wbuf) = scene.udpMax

OutFits == \A i \in DOMAIN out : out[i] # 0 => FitsDatagram(out[i])

RoomOK == /\ \A d \in net : AllLanded(d[1])
          /\ AllLanded(rbuf) /\ AllLanded(wbuf)
          /\ MemoryLanded /\ WriterRoom /\ OutFits

(* Every payload has a last cell.                                          *)
LEMMA LastSlot ==
    ASSUME NEW p \in Packets
    PROVE  /\ NumGroups[p.type] \in Nat /\ LenOf(p, NumGroups[p.type]) \in Nat
           /\ LenOf(p, NumGroups[p.type]) >= 1
           /\ LastOf(p) \in WireOf(p) /\ LastOf(p)[1] = NumGroups[p.type]
<1> PICK N : N = NumGroups[p.type]
  OBVIOUS
<1>1. N \in Nat /\ N \in 0 .. NumGroups[p.type]
      /\ p.type \in Types /\ p.ver \in Nat
      /\ LenOf(p, N) \in Nat /\ (N # 0 => LenOf(p, N) >= 1)
  BY GroupTypes
<1>2. LenOf(p, N) >= 1
  <2>1. CASE N = 0
    <3>1. Codec[p.type] # "var"
      <4>1. NumGroups[p.type] # 1
        BY <2>1
      <4> QED
        BY <1>1, <4>1, GroupsAssumption
    <3> QED
      BY <1>1, <2>1, <3>1, HasFirst DEF LenOf
  <2> QED
    BY <1>1, <2>1
<1>3. LenOf(p, N) \in 1 .. LenOf(p, N)
  BY <1>1, <1>2
<1>4. SlotAt(N, LenOf(p, N)) \in {s \in WireOf(p) : s[1] = N}
  BY <1>1, <1>3, SlotsOfGroup
<1> QED
  BY <1>1, <1>2, <1>4 DEF LastOf

(* The packets that were sent stay what they are.                          *)
LEMMA SentKept ==
    ASSUME UInv, [UNext]_vars
    PROVE  SentGrows /\ (Proper' => Proper) /\ scene' = scene
<1>1. sent \in Seq(Shapes)
  BY DEF UInv, SceneOK, TypeOK
<1>2. scene' = scene
  BY DEF UNext, StartWrite, SocketWrite, SocketDone, Lose, Duplicate, ClientStep,
         InternalStep, ReadOn, ReadNext, ReadFails, udpVars, vars
<1>3. (\E p \in Shapes : sent' = Append(sent, p)) \/ sent' = sent
  BY DEF UNext, StartWrite, SocketWrite, SocketDone, Lose, Duplicate, ClientStep,
         InternalStep, ReadOn, ReadNext, ReadFails, vars
<1>4. SentGrows
  BY <1>1, <1>3 DEF SentGrows
<1>5. Proper' => Proper
  BY <1>2, <1>4 DEF Proper, FitsDatagram, SentGrows
<1> QED
  BY <1>2, <1>4, <1>5

(* What has landed stays so.                                               *)
LEMMA LandedKept ==
    ASSUME SentGrows, scene' = scene, NEW c, Landed(c) PROVE Landed(c)'
BY DEF SentGrows, Landed, LastCell, FitsDatagram

LEMMA AllLandedKept ==
    ASSUME SentGrows, scene' = scene, NEW cells, AllLanded(cells) PROVE AllLanded(cells)'
BY LandedKept DEF AllLanded

LEMMA FitsKept ==
    ASSUME SentGrows, scene' = scene, NEW id \in DOMAIN sent, FitsDatagram(id)
    PROVE  FitsDatagram(id)'
BY DEF SentGrows, FitsDatagram

(* The cells of a header and memory that is not of a packet.               *)
LEMMA OtherLanded ==
    ASSUME TypeOK
    PROVE  /\ Landed(Zero) /\ Landed(Junk)
           /\ \A id \in DOMAIN sent : \A k : Landed(Cell(id, HeadSlot(k)))
<1>1. Landed(Zero) /\ Landed(Junk)
  BY DEF Landed, Zero, Junk
<1>2. ASSUME NEW id \in DOMAIN sent, NEW k PROVE Landed(Cell(id, HeadSlot(k)))
  <2>1. sent[id] \in Packets
    BY SentTypes
  <2>2. NumGroups[sent[id].type] \in Nat
    BY <2>1, GroupTypes
  <2>3. -1 \notin Nat
    OBVIOUS
  <2>4. Cell(id, HeadSlot(k)) # LastCell(id)
    BY <2>2, <2>3 DEF Cell, HeadSlot, LastCell, LastOf, SlotAt, Slot
  <2> QED
    BY <2>4 DEF Landed, Cell
<1> QED
  BY <1>1, <1>2

(* What goes into a buffer that has all of the packet so far, or is full.  *)
LEMMA RegionLanded ==
    ASSUME TypeOK, NEW id \in DOMAIN sent, NEW r \in 1 .. Len(Regions(id, sent[id])),
           scene.udpMax \in Nat, NEW L \in 0 .. scene.udpMax,
           \/ L = HeadLen + Size(sent[id], GroupOf(sent[id].type, r))
           \/ L = scene.udpMax,
           NEW n, n = IF Len(Regions(id, sent[id])[r]) > scene.udpMax - L
                      THEN scene.udpMax - L ELSE Len(Regions(id, sent[id])[r])
    PROVE  /\ \A k \in 1 .. n : Landed(Regions(id, sent[id])[r][k])
           /\ \/ L + n = HeadLen + Size(sent[id], GroupOf(sent[id].type, r + 1))
              \/ L + n = scene.udpMax
<1> PICK p : p = sent[id]
  OBVIOUS
<1> PICK g : g = GroupOf(p.type, r)
  OBVIOUS
<1> PICK cells : cells = Regions(id, p)[r]
  OBVIOUS
<1> PICK max : max = scene.udpMax
  OBVIOUS
<1> PICK N : N = NumGroups[p.type]
  OBVIOUS
<1> PICK m : m = LenOf(p, g)
  OBVIOUS
<1>1. p \in Packets /\ id \in Nat
  BY SentTypes
<1>2. /\ g \in 0 .. N /\ Len(cells) = m
      /\ \A k \in 1 .. m : cells[k] = Cell(id, SlotAt(g, k))
      /\ GroupOf(p.type, r + 1) = g + 1
  BY <1>1, RegionIs, Zenon
<1>3. /\ N \in Nat /\ m \in Nat /\ Size(p, g) \in Nat
      /\ Size(p, g + 1) = Size(p, g) + m
  <2>1. N \in Nat /\ m \in Nat
    BY <1>1, <1>2, GroupTypes
  <2>2. Size(p, g) \in Nat
    BY <1>1, SizeType
  <2>3. Size(p, g + 1) = Size(p, g) + LenOf(p, g)
    BY <1>1, <1>2, SizeNext
  <2> QED
    BY <2>1, <2>2, <2>3
<1> PICK a : a = Size(p, g)
  OBVIOUS
<1> PICK b : b = Size(p, g + 1)
  OBVIOUS
<1>4. /\ a \in Nat /\ b = a + m /\ n \in Nat /\ n <= m /\ L + n <= max
      /\ L = 2 + a \/ L = max
      /\ L + n = 2 + b \/ L + n = max
  <2>1. a \in Nat /\ b = a + m /\ m \in Nat /\ (L = 2 + a \/ L = max)
        /\ n = (IF m > max - L THEN max - L ELSE m) /\ L \in 0 .. max /\ max \in Nat
    BY <1>2, <1>3 DEF HeadLen
  <2> QED
    BY ONLY <2>1
<1>5. ASSUME NEW k \in 1 .. n PROVE Landed(cells[k])
  <2>1. k \in 1 .. m
    BY <1>3, <1>4
  <2>2. cells[k] = Cell(id, SlotAt(g, k)) /\ cells[k][1] = id
    BY <1>2, <2>1 DEF Cell
  <2>3. ASSUME cells[k] = LastCell(id) PROVE FitsDatagram(id)
    <3>1. SlotAt(g, k) = SlotAt(N, LenOf(p, N))
      BY <2>2, <2>3 DEF LastCell, LastOf, Cell
    <3>2. g = N
      BY <3>1 DEF SlotAt, Slot
    <3>3. k = m
      BY <1>2, <1>3, <2>1, <3>1, <3>2 DEF SlotAt, Slot
    <3>4. L + n = 2 + b
      BY ONLY <1>3, <1>4, <2>1, <3>3, k \in 1 .. n, L \in 0 .. max, max \in Nat
    <3>5. b = NumBytes(p.type, p.ver, p.counts)
      BY <1>1, <3>2, SizeEnds
    <3> QED
      BY <1>4, <3>4, <3>5 DEF FitsDatagram, HeadLen
  <2> QED
    BY <2>2, <2>3 DEF Landed
<1> QED
  BY <1>2, <1>4, <1>5 DEF HeadLen

(* What the writer's step adds to its buffer has landed.                   *)
LEMMA LandedJoined ==
    ASSUME NEW a \in Seq(AllCells), AllLanded(a), NEW b \in Seq(AllCells), NEW n \in 0 .. Len(b),
           \A k \in 1 .. n : Landed(b[k])
    PROVE  AllLanded(a \o SubSeq(b, 1, n)) /\ Len(a \o SubSeq(b, 1, n)) = Len(a) + n
<1> PICK part : part = SubSeq(b, 1, n)
  OBVIOUS
<1>1. part \in Seq(AllCells) /\ Len(part) = n /\ \A k \in 1 .. n : part[k] = b[k]
  BY FirstCells
<1> PICK all : all = a \o part
  OBVIOUS
<1>2. /\ Len(all) = Len(a) + n
      /\ \A i \in 1 .. Len(all) :
            \/ i \in 1 .. Len(a) /\ all[i] = a[i]
            \/ i - Len(a) \in 1 .. n /\ all[i] = part[i - Len(a)]
  BY <1>1, Joined
<1>3. \A i \in 1 .. Len(all) : Landed(all[i])
  BY <1>1, <1>2 DEF AllLanded
<1> QED
  BY <1>2, <1>3 DEF AllLanded

LEMMA HeadWriteRoom ==
    ASSUME UInv, RoomOK, SocketWrite, w.pc = "head"
    PROVE  AllLanded(wbuf)' /\ WriterRoom'
<1> PICK id : id = w.id
  OBVIOUS
<1> PICK max : max = scene.udpMax
  OBVIOUS
<1> PICK head : head = HeadCells(id)
  OBVIOUS
<1> PICK old : old = wbuf
  OBVIOUS
<1> PICK n : n = IF HeadLen > max - Len(old) THEN max - Len(old) ELSE HeadLen
  OBVIOUS
<1>0. /\ TypeOK /\ DOMAIN w = Fields /\ w.region = 1 /\ max \in Nat
      /\ id \in DOMAIN sent /\ id \in Nat /\ AllLanded(old)
      /\ old \in Seq(AllCells) /\ Len(old) \in Nat /\ Len(old) <= max
      /\ old = <<>> \/ max < HeadLen
  BY UdpAssumption DEF UInv, SceneOK, TypeOK, WriterOK, RoomOK
<1>1. /\ head \in Seq(AllCells) /\ Len(head) = HeadLen
      /\ \A k \in 1 .. HeadLen : head[k] = Cell(id, HeadSlot(k))
  BY <1>0 DEF HeadCells, HeadLen, Cell, HeadSlot, AllCells
<1>2. /\ wbuf' = old \o SubSeq(head, 1, n) /\ w' = Write!HeadWritten(w, n)
      /\ UNCHANGED <<scene, sent>>
  <2>1. Write!Offered(w, sent[w.id]) = head
    BY SameLayout DEF Write!Offered
  <2> QED
    BY <1>1, <2>1 DEF SocketWrite
<1>3. n \in 0 .. Len(head) /\ n <= HeadLen /\ n \in Nat
      /\ (n = HeadLen => HeadLen <= max - Len(old))
  BY <1>0, <1>1 DEF HeadLen
<1>4. \A k \in 1 .. n : Landed(head[k])
  BY <1>0, <1>1, <1>3, OtherLanded DEF HeadLen
<1>5. AllLanded(old \o SubSeq(head, 1, n))
      /\ Len(old \o SubSeq(head, 1, n)) = Len(old) + n
  BY <1>0, <1>1, <1>3, <1>4, LandedJoined
<1>6. AllLanded(wbuf)'
  <2> PICK new : new = wbuf'
    OBVIOUS
  <2>1. AllLanded(new)
    BY <1>2, <1>5
  <2>2. SentGrows
    BY <1>0, <1>2 DEF TypeOK, SentGrows
  <2>3. AllLanded(new)'
    BY <1>2, <2>1, <2>2, AllLandedKept
  <2> QED
    BY <2>3 DEF AllLanded
<1>7. CASE n = HeadLen
  <2>1. w'.pc = "region" /\ w'.id = id /\ w'.region = 1
    BY <1>0, <1>2, <1>7, HeadDone
  <2>2. old = <<>> /\ Len(old) = 0
    BY <1>0, <1>3, <1>7 DEF HeadLen
  <2>3. Len(wbuf') = HeadLen
    BY <1>2, <1>5, <1>7, <2>2 DEF HeadLen
  <2>4. sent[id] \in Packets
    BY <1>0, SentTypes
  <2>5. Size(sent[id], GroupOf(sent[id].type, 1)) = 0
    BY <2>4, FirstRegion
  <2>6. Len(wbuf') = HeadLen + Size(sent[id], GroupOf(sent[id].type, 1))
    BY <2>3, <2>5 DEF HeadLen
  <2>7. sent'[w'.id] = sent[id] /\ w'.region = 1
    BY <1>2, <2>1
  <2>8. WriterRoom'
    BY <2>6, <2>7 DEF WriterRoom
  <2> QED
    BY <1>6, <2>8
<1>8. CASE n # HeadLen
  <2>1. w' = Write!Return(w, -1)
    BY <1>2, <1>8 DEF Write!HeadWritten, Write!HeadLen, HeadLen
  <2>2. w'.pc = "idle"
    BY <1>0, <2>1, Returned
  <2> QED
    BY <1>6, <2>2 DEF WriterRoom
<1> QED
  BY <1>7, <1>8

LEMMA RegionWriteRoom ==
    ASSUME UInv, RoomOK, SocketWrite, w.pc = "region"
    PROVE  AllLanded(wbuf)' /\ WriterRoom'
<1> PICK id : id = w.id
  OBVIOUS
<1> PICK p : p = sent[id]
  OBVIOUS
<1> PICK r : r = w.region
  OBVIOUS
<1> PICK g : g = GroupOf(p.type, r)
  OBVIOUS
<1> PICK cells : cells = Regions(id, p)[r]
  OBVIOUS
<1> PICK max : max = scene.udpMax
  OBVIOUS
<1> PICK old : old = wbuf
  OBVIOUS
<1> PICK L : L = Len(old)
  OBVIOUS
<1> PICK n : n = IF Len(cells) > max - L THEN max - L ELSE Len(cells)
  OBVIOUS
<1>0. /\ TypeOK /\ WriterOK /\ max \in Nat
      /\ id \in DOMAIN sent /\ id \in Nat /\ AllLanded(old)
      /\ r \in 1 .. Len(Regions(id, p))
      /\ old \in Seq(AllCells) /\ L \in Nat /\ L <= max
      /\ L = HeadLen + Size(p, g) \/ L = max
  BY UdpAssumption DEF UInv, SceneOK, TypeOK, WriterOK, RoomOK, WriterRoom
<1>1. cells \in Seq(AllCells) /\ Len(cells) \in Nat
  <2>1. p \in Packets
    BY <1>0, SentTypes
  <2>2. cells \in Seq(AllCells)
    BY <1>0, <2>1, RegionsOf
  <2> QED
    BY <2>2
<1>2. /\ wbuf' = old \o SubSeq(cells, 1, n)
      /\ w' = Write!RegionWritten(w, n, Len(Regions(w.id, sent[w.id])))
      /\ UNCHANGED <<scene, sent>>
  <2>1. Write!Offered(w, sent[w.id]) = cells
    BY SameLayout DEF Write!Offered
  <2> QED
    BY <2>1 DEF SocketWrite
<1>3. n \in 0 .. Len(cells) /\ n \in Nat
  BY <1>0, <1>1
<1>4. /\ \A k \in 1 .. n : Landed(cells[k])
      /\ L + n = HeadLen + Size(p, GroupOf(p.type, r + 1)) \/ L + n = max
  <2>1. /\ TypeOK /\ id \in DOMAIN sent /\ r \in 1 .. Len(Regions(id, sent[id]))
        /\ scene.udpMax \in Nat /\ L \in 0 .. scene.udpMax
        /\ \/ L = HeadLen + Size(sent[id], GroupOf(sent[id].type, r))
           \/ L = scene.udpMax
    BY <1>0
  <2>2. n = IF Len(Regions(id, sent[id])[r]) > scene.udpMax - L
            THEN scene.udpMax - L ELSE Len(Regions(id, sent[id])[r])
    OBVIOUS
  <2>3. /\ \A k \in 1 .. n : Landed(Regions(id, sent[id])[r][k])
        /\ \/ L + n = HeadLen + Size(sent[id], GroupOf(sent[id].type, r + 1))
           \/ L + n = scene.udpMax
    BY ONLY <2>1, <2>2, RegionLanded
  <2> QED
    BY <2>3
<1>5. AllLanded(old \o SubSeq(cells, 1, n)) /\ Len(old \o SubSeq(cells, 1, n)) = L + n
  <2>1. /\ old \in Seq(AllCells) /\ AllLanded(old) /\ cells \in Seq(AllCells)
        /\ n \in 0 .. Len(cells) /\ \A k \in 1 .. n : Landed(cells[k])
    BY <1>0, <1>1, <1>3, <1>4
  <2> QED
    BY ONLY <2>1, LandedJoined, L = Len(old)
<1>6. AllLanded(wbuf)'
  <2> PICK new : new = wbuf'
    OBVIOUS
  <2>1. AllLanded(new)
    BY <1>2, <1>5
  <2>2. SentGrows
    BY <1>0, <1>2 DEF TypeOK, SentGrows
  <2>3. AllLanded(new)'
    BY <1>2, <2>1, <2>2, AllLandedKept
  <2> QED
    BY <2>3 DEF AllLanded
<1>7. /\ w'.id = id
      /\ w'.pc = "region" => w'.region = r + 1
  BY <1>0, <1>2, <1>3, RegionDone
<1>8. WriterRoom'
  <2>1. Len(wbuf') = L + n /\ sent'[w'.id] = p /\ scene'.udpMax = max
    BY <1>2, <1>5, <1>7
  <2> QED
    BY <1>4, <1>7, <2>1 DEF WriterRoom
<1> QED
  BY <1>6, <1>8

-----------------------------------------------------------------------------
(* What a payload reader leaves in memory was there, was just received, or *)
(* is cleared.                                                             *)
MemFrom(old, new, cells) ==
    \A a \in 1 .. MemSize : \/ new[a] \in {old[a], Zero, Junk}
                            \/ \E k \in 1 .. Len(cells) : new[a] = cells[k]

LEMMA CopiedFrom ==
    ASSUME NEW mem, NEW a \in Int, NEW cells \in Seq(AllCells)
    PROVE  MemFrom(mem, Copied(mem, a, cells), cells)
<1> PICK new : new = Copied(mem, a, cells)
  OBVIOUS
<1>1. ASSUME NEW b \in 1 .. MemSize
      PROVE  \/ new[b] \in {mem[b], Zero, Junk}
             \/ \E k \in 1 .. Len(cells) : new[b] = cells[k]
  <2>1. new[b] = IF b \in a .. a + Len(cells) - 1 THEN cells[b - a + 1] ELSE mem[b]
    BY DEF Copied
  <2>2. CASE b \in a .. a + Len(cells) - 1
    <3>1. b - a + 1 \in 1 .. Len(cells)
      BY <2>2
    <3> QED
      BY <2>1, <2>2, <3>1
  <2> QED
    BY <2>1, <2>2
<1> QED
  BY <1>1 DEF MemFrom

LEMMA ClearedFrom ==
    ASSUME NEW old, NEW mem, NEW cells, NEW from, MemFrom(old, mem, cells)
    PROVE  MemFrom(old, Cleared(mem, from), cells)
BY DEF MemFrom, Cleared

LEMMA ReadoutFrom ==
    ASSUME NEW old, NEW mem, NEW cells, MemFrom(old, mem, cells)
    PROVE  MemFrom(old, ReadoutCleared(mem), cells)
BY DEF MemFrom, ReadoutCleared

LEMMA ReceiveFrom ==
    ASSUME TypeOK, NEW res, Fits(res), Receive(res)
    PROVE  MemFrom(pkt.mem, pkt'.mem, res.cells)
<1> PICK cells : cells = res.cells
  OBVIOUS
<1> PICK mem : mem = pkt.mem
  OBVIOUS
<1>0. cells \in Seq(AllCells) /\ pkt \in Buffers /\ CallOK /\ 1 \in Int /\ 2 \in Int
  BY DEF TypeOK, Fits, Results
<1>1. \A new : pkt' = [pkt EXCEPT !.mem = new] => pkt'.mem = new
  BY <1>0 DEF Buffers
<1>2. CASE pkt' = pkt
  BY <1>2 DEF MemFrom
<1>3. \A a \in Int : MemFrom(mem, Copied(mem, a, cells), cells)
  BY <1>0, CopiedFrom
<1>4. \A a \in Int : \A from : MemFrom(mem, Cleared(Copied(mem, a, cells), from), cells)
  BY <1>3, ClearedFrom
<1>5. CASE SimpleRead(res)
  <2>1. pkt'.mem = Cleared(Copied(mem, 1, cells), Prefix(call.type, h.hdr.ver) + 1)
    BY <1>1, <1>5 DEF SimpleRead
  <2> QED
    BY <1>0, <1>4, <2>1
<1>6. CASE VarFixed(res)
  <2>1. pkt'.mem = Copied(mem, 1, cells)
    BY <1>1, <1>6 DEF VarFixed
  <2> QED
    BY <1>0, <1>3, <2>1
<1>7. CASE VarTail(res)
  <2>1. PICK from : pkt'.mem = Cleared(Copied(mem, 2, cells), from)
    BY <1>1, <1>7 DEF VarTail
  <2> QED
    BY <1>0, <1>4, <2>1
<1>8. CASE WavePrefix(res)
  <2>1. pkt'.mem = ReadoutCleared(Copied(mem, 1, cells))
    BY <1>1, <1>8 DEF WavePrefix
  <2> QED
    BY <1>0, <1>3, <2>1, ReadoutFrom
<1>9. CASE WaveHead(res) \/ WaveData(res)
  <2> PICK a : a = GroupAddr(call.type, call.grp)
    OBVIOUS
  <2>1. a \in Int /\ a + 1 \in Int
    <3>1. call.type \in Types /\ call.grp \in 1 .. NumGroups[call.type]
      BY <1>0, <1>9 DEF CallOK, WaveHead, WaveData, WantsPayload, PayloadPcs, ReadPcs,
                        HeaderPcs
    <3> QED
      BY <3>1, GroupPlaces
  <2>2. pkt'.mem = Copied(mem, a, cells) \/ pkt'.mem = Copied(mem, a + 1, cells)
    BY <1>1, <1>9 DEF WaveHead, WaveData
  <2> QED
    BY <1>3, <2>1, <2>2
<1> QED
  BY <1>2, <1>5, <1>6, <1>7, <1>8, <1>9
     DEF Receive, HeaderArrives, HeaderNothing, HeaderFails

(* What a silent reader finds complete in memory was sent in one piece.    *)
LEMMA SilentFits ==
    ASSUME SceneOK, MemoryLanded, call.pc = "check", call.nrd > 0, Silent
    PROVE  FitsDatagram(h.hdr.sum)
<1> PICK s : s = h.hdr.sum
  OBVIOUS
<1> PICK p : p = sent[s]
  OBVIOUS
<1> PICK q : q = [type |-> call.type, ver |-> h.hdr.ver, counts |-> call.counts]
  OBVIOUS
<1> PICK x : x = LastOf(p)
  OBVIOUS
<1>1. /\ s \in DOMAIN sent /\ s \in Nat /\ s # 0 /\ p \in Packets
      /\ WireSlotsRead = WireOf(p)
      /\ \A y \in WireSlotsRead : pkt.mem[AddrOf(call.type, y)] = Cell(s, y)
  <2>1. s \in DOMAIN sent /\ s \in Nat /\ s # 0
    BY SilentFirst
  <2>2. p \in Packets
    BY <2>1, SentTypes DEF SceneOK
  <2> QED
    BY <2>1, <2>2 DEF Silent, ChecksumOk, WireOf
<1>2. q \in Packets /\ q.type = call.type /\ WireOf(q) = WireSlotsRead
  BY DEF SceneOK, TypeOK, CallOK, Handles, Headers, Calls, Packets, WireOf, WireSlotsRead
<1>3. x \in WireOf(q)
  BY <1>1, <1>2, LastSlot
<1>4. AddrOf(q.type, x) \in 1 .. MemSize
  <2>1. x[1] \in 0 .. NumGroups[q.type]
    BY <1>2, <1>3, GroupOfSlot
  <2>2. x \in {SlotAt(x[1], k) : k \in 1 .. LenOf(q, x[1])}
    BY <1>2, <1>3, <2>1, SlotsOfGroup
  <2> QED
    BY <1>2, <2>1, <2>2, SlotAddr
<1>5. pkt.mem[AddrOf(q.type, x)] = LastCell(s)
  BY <1>1, <1>2, <1>3 DEF LastCell
<1> QED
  BY <1>1, <1>4, <1>5 DEF MemoryLanded, Landed, LastCell, Cell

-----------------------------------------------------------------------------
(* The steps.                                                              *)

(* A step of the reader.                                                   *)
LEMMA ReaderRoom ==
    ASSUME RoomOK, UNCHANGED <<scene, sent, w, wbuf>>, net' \subseteq net,
           rbuf' = rbuf \/ \E d \in net : rbuf' = d[1],
           \A a \in 1 .. MemSize : pkt'.mem[a] = pkt.mem[a] \/ Landed(pkt'.mem[a]),
           OutFits'
    PROVE  RoomOK'
<1>1. \A c : Landed(c)' = Landed(c)
  BY DEF Landed, LastCell, FitsDatagram
<1>2. \A cells : AllLanded(cells)' = AllLanded(cells)
  BY <1>1 DEF AllLanded
<1>3. \A d \in net' : AllLanded(d[1])'
  BY <1>2 DEF RoomOK
<1>4. AllLanded(rbuf)' /\ AllLanded(wbuf)'
  <2> PICK r : r = rbuf'
    OBVIOUS
  <2> PICK b : b = wbuf'
    OBVIOUS
  <2>1. AllLanded(r)' /\ AllLanded(b)'
    BY <1>2 DEF RoomOK
  <2> QED
    BY <2>1 DEF AllLanded
<1>5. MemoryLanded'
  <2>1. ASSUME NEW a \in 1 .. MemSize PROVE Landed(pkt.mem[a])'
    <3> PICK c : c = pkt'.mem[a]
      OBVIOUS
    <3>1. Landed(c)
      BY DEF RoomOK, MemoryLanded
    <3>2. Landed(c)'
      BY <1>1, <3>1
    <3> QED
      BY <3>2 DEF Landed, LastCell
  <2> QED
    BY <2>1 DEF MemoryLanded
<1>6. WriterRoom'
  BY DEF RoomOK, WriterRoom
<1> QED
  BY <1>3, <1>4, <1>5, <1>6 DEF RoomOK

LEMMA ReceiveRoom ==
    ASSUME UInv, RoomOK, UNCHANGED <<scene, sent, w, wbuf>>, net' \subseteq net,
           rbuf' = rbuf \/ \E d \in net : rbuf' = d[1],
           NEW res, Fits(res), Receive(res), AllLanded(res.cells)
    PROVE  RoomOK'
<1>1. TypeOK /\ PlaceOK
  BY DEF UInv, SceneOK
<1>2. out' = out
  BY <1>1, ReceiveFirst
<1>3. \A a \in 1 .. MemSize : pkt'.mem[a] = pkt.mem[a] \/ Landed(pkt'.mem[a])
  BY <1>1, ReceiveFrom, OtherLanded DEF MemFrom, AllLanded
<1>4. OutFits'
  BY <1>2 DEF RoomOK, OutFits, FitsDatagram
<1> QED
  BY <1>3, <1>4, ReaderRoom

(* What is copied out of a datagram.                                       *)
LEMMA CopyRoom ==
    ASSUME TypeOK, Reading, NEW d \in Seq(AllCells), AllLanded(d), NEW from \in 0 .. Len(d),
           NEW mark \in BOOLEAN, CopyOut(d, from, mark)
    PROVE  \E res : Fits(res) /\ Receive(res) /\ AllLanded(res.cells)
<1> PICK left : left = Len(d) - from
  OBVIOUS
<1> PICK n : n = IF left < Wanted THEN left ELSE Wanted
  OBVIOUS
<1> PICK cells : cells = SubSeq(d, from + 1, from + n)
  OBVIOUS
<1> PICK res : res = [cells |-> cells, err |-> FALSE, mark |-> mark]
  OBVIOUS
<1>1. Receive(res)
  BY DEF CopyOut
<1>2. Wanted \in Nat /\ Len(d) \in Nat /\ from \in Nat /\ left \in Nat
  BY WantedType
<1>3. n \in Nat /\ n <= left /\ n <= Wanted /\ from + n <= Len(d)
  BY <1>2
<1>4. /\ cells \in Seq(AllCells) /\ Len(cells) = n
      /\ \A k \in 1 .. n : cells[k] = d[from + k] /\ from + k \in 1 .. Len(d)
  BY <1>2, <1>3
<1>5. AllLanded(res.cells)
  BY <1>4 DEF AllLanded
<1>6. Fits(res)
  BY <1>3, <1>4 DEF Fits, Results
<1> QED
  BY <1>1, <1>5, <1>6

LEMMA ReadOnRoom == ASSUME UInv, RoomOK, ReadOn PROVE RoomOK'
<1>1. /\ TypeOK /\ Reading /\ CopyOut(rbuf, nout, FALSE)
      /\ rbuf \in Seq(AllCells) /\ nout \in 0 .. Len(rbuf) /\ AllLanded(rbuf)
      /\ UNCHANGED <<scene, sent, w, wbuf, net, rbuf>>
  BY DEF UInv, SceneOK, NetOK, ReadOn, RoomOK
<1>2. PICK res : Fits(res) /\ Receive(res) /\ AllLanded(res.cells)
  BY <1>1, CopyRoom
<1> QED
  BY <1>1, <1>2, ReceiveRoom

LEMMA ReadNextRoom == ASSUME UInv, RoomOK, ReadNext PROVE RoomOK'
<1>1. TypeOK /\ Reading /\ NetOK /\ UNCHANGED <<scene, sent, w, wbuf>>
  BY DEF UInv, SceneOK, ReadNext
<1> PICK d \in net : net' = net \ {d} /\ rbuf' = d[1] /\ CopyOut(d[1], 0, TRUE)
  BY DEF ReadNext
<1> PICK cells : cells = d[1]
  OBVIOUS
<1>2. cells \in Seq(AllCells) /\ 0 \in 0 .. Len(cells) /\ AllLanded(cells)
  <2>1. cells \in Seq(AllCells)
    BY <1>1 DEF NetOK, DatagramOf
  <2> QED
    BY <2>1 DEF RoomOK
<1>3. PICK res : Fits(res) /\ Receive(res) /\ AllLanded(res.cells)
  BY <1>1, <1>2, CopyRoom
<1>4. net' \subseteq net /\ \E e \in net : rbuf' = e[1]
  OBVIOUS
<1> QED
  BY <1>1, <1>3, <1>4, ReceiveRoom

LEMMA ReadFailsRoom == ASSUME UInv, RoomOK, ReadFails PROVE RoomOK'
<1> PICK res : res = [cells |-> <<>>, err |-> TRUE, mark |-> FALSE]
  OBVIOUS
<1>1. /\ TypeOK /\ Reading /\ Receive(res)
      /\ UNCHANGED <<scene, sent, w, wbuf, net, rbuf>>
  BY DEF UInv, SceneOK, ReadFails
<1>2. Fits(res) /\ AllLanded(res.cells)
  <2>1. <<>> \in Seq(AllCells)
    OBVIOUS
  <2>2. Wanted \in Nat
    BY <1>1, WantedType
  <2> QED
    BY <2>1, <2>2 DEF Fits, Results, AllLanded
<1> QED
  BY <1>1, <1>2, ReceiveRoom

(* The client, and what needs no datagram.                                 *)
LEMMA QuietRoom ==
    ASSUME UInv, RoomOK, UNCHANGED <<sent, udpVars>>, Client \/ Internal
    PROVE  RoomOK'
<1>0. /\ SceneOK /\ TypeOK /\ out \in Seq(Nat) /\ pkt \in Buffers /\ MemoryLanded /\ OutFits
      /\ UNCHANGED <<sent, scene, w, wbuf, net, rbuf>>
  BY DEF UInv, SceneOK, TypeOK, udpVars, RoomOK
<1>1. \A a \in 1 .. MemSize : pkt'.mem[a] = pkt.mem[a] \/ Landed(pkt'.mem[a])
  <2>1. \/ pkt' = pkt
        \/ \E cap : pkt' = NewPacket(cap)
        \/ \E head : pkt' = [pkt EXCEPT !.head = head]
    BY DEF Client, LLRead, LLReadRealloc, TypedRead, ClientAllocates, Internal,
           HeaderAlreadyRead, TooSmall, Dispatch, SimpleBadVersion, Check
  <2>2. CASE pkt' = pkt
    BY <2>2
  <2>3. CASE \E cap : pkt' = NewPacket(cap)
    <3>1. \A a \in 1 .. MemSize : pkt'.mem[a] = Junk
      BY <2>3 DEF NewPacket
    <3> QED
      BY <1>0, <3>1, OtherLanded
  <2>4. CASE \E head : pkt' = [pkt EXCEPT !.head = head]
    <3>1. pkt'.mem = pkt.mem
      BY <1>0, <2>4 DEF Buffers
    <3> QED
      BY <3>1
  <2> QED
    BY <2>1, <2>2, <2>3, <2>4
<1>2. OutFits'
  <2>1. \A id : FitsDatagram(id)' = FitsDatagram(id)
    BY <1>0 DEF FitsDatagram
  <2>2. CASE Check
    <3> PICK s : s = IF Silent THEN h.hdr.sum ELSE 0
      OBVIOUS
    <3>1. out' = out \/ (call.nrd > 0 /\ out' = Append(out, s))
      BY <2>2 DEF Check
    <3>2. call.nrd > 0 /\ s # 0 => FitsDatagram(s)
      BY <1>0, <2>2, SilentFits DEF Check
    <3>3. s \in Nat
      BY <1>0 DEF TypeOK, Handles, Headers
    <3>4. CASE out' = out
      BY <1>0, <2>1, <3>4 DEF OutFits, FitsDatagram
    <3>5. CASE call.nrd > 0 /\ out' = Append(out, s)
      <4>1. \A i \in DOMAIN out' : (i \in DOMAIN out /\ out'[i] = out[i]) \/ out'[i] = s
        BY <1>0, <3>3, <3>5
      <4>2. ASSUME NEW i \in DOMAIN out', out'[i] # 0 PROVE FitsDatagram(out'[i])
        BY <1>0, <3>2, <3>5, <4>1, <4>2 DEF OutFits
      <4> QED
        BY <1>0, <4>2 DEF OutFits, FitsDatagram
    <3> QED
      BY <3>1, <3>4, <3>5
  <2>3. CASE ~Check
    <3>1. out' = out
      BY <2>3 DEF Client, LLRead, LLReadRealloc, TypedRead, ClientAllocates,
                  Internal, HeaderAlreadyRead, TooSmall, Dispatch, SimpleBadVersion
    <3> QED
      BY <1>0, <3>1 DEF OutFits, FitsDatagram
  <2> QED
    BY <2>2, <2>3
<1> QED
  BY <1>0, <1>1, <1>2, ReaderRoom

(* A step of the writer or the network.                                    *)
LEMMA OthersRoom ==
    ASSUME UInv, RoomOK, SentGrows, scene' = scene, UNCHANGED <<pkt, out, rbuf>>,
           \A d \in net' : d[1] = wbuf \/ \E e \in net : d[1] = e[1],
           AllLanded(wbuf)', WriterRoom'
    PROVE  RoomOK'
<1>1. ASSUME NEW d \in net' PROVE AllLanded(d[1])'
  <2> PICK cells : cells = d[1]
    OBVIOUS
  <2>1. AllLanded(cells)
    BY DEF RoomOK
  <2> QED
    BY <2>1, AllLandedKept
<1>2. AllLanded(rbuf)'
  <2> PICK cells : cells = rbuf
    OBVIOUS
  <2>1. AllLanded(cells)'
    BY AllLandedKept DEF RoomOK
  <2> QED
    BY <2>1 DEF AllLanded
<1>3. MemoryLanded'
  <2>1. ASSUME NEW a \in 1 .. MemSize PROVE Landed(pkt.mem[a])'
    <3> PICK c : c = pkt.mem[a]
      OBVIOUS
    <3>1. Landed(c)'
      BY LandedKept DEF RoomOK, MemoryLanded
    <3>2. c = pkt'.mem[a]
      OBVIOUS
    <3> QED
      BY <3>1, <3>2 DEF Landed, LastCell
  <2> QED
    BY <2>1 DEF MemoryLanded
<1>4. OutFits'
  <2>1. ASSUME NEW i \in DOMAIN out, out[i] # 0 PROVE FitsDatagram(out[i])'
    <3> PICK id : id = out[i]
      OBVIOUS
    <3>1. id \in DOMAIN sent /\ FitsDatagram(id)
      BY <2>1 DEF UInv, OutOK, RoomOK, OutFits
    <3>2. FitsDatagram(id)' /\ id = out'[i]
      BY <3>1, FitsKept
    <3> QED
      BY <3>2 DEF FitsDatagram
  <2> QED
    BY <2>1 DEF OutFits
<1> QED
  BY <1>1, <1>2, <1>3, <1>4 DEF RoomOK

LEMMA InitRoom == ASSUME UInit PROVE RoomOK
<1>1. /\ pkt = NullPacket /\ out = <<>> /\ net = {} /\ rbuf = <<>> /\ wbuf = <<>>
      /\ w.pc = "idle"
  BY DEF UInit, Init, Write!FreshWriter
<1>2. MemoryLanded
  BY <1>1 DEF MemoryLanded, NullPacket, Landed, Junk
<1> QED
  BY <1>1, <1>2 DEF RoomOK, AllLanded, WriterRoom, OutFits

LEMMA StepRoom == ASSUME UInv, RoomOK, [UNext]_vars PROVE RoomOK'
<1>0. SentGrows /\ scene' = scene
  BY SentKept
<1>1. ASSUME wbuf' = wbuf PROVE AllLanded(wbuf)'
  <2> PICK cells : cells = wbuf
    OBVIOUS
  <2>1. AllLanded(cells)'
    BY <1>0, AllLandedKept DEF RoomOK
  <2> QED
    BY <1>1, <2>1 DEF AllLanded
<1>2. CASE \E p \in Shapes : StartWrite(p)
  <2>1. /\ UNCHANGED <<pkt, out, rbuf, net, wbuf>> /\ w' = Write!Begin(w, Len(sent) + 1)
        /\ DOMAIN w = Fields
    BY <1>2 DEF StartWrite, readVars, UInv, WriterOK
  <2>2. w'.pc = "head"
    BY <2>1 DEF Write!Begin, Fields
  <2>3. WriterRoom'
    BY <2>2 DEF WriterRoom
  <2> QED
    BY <1>0, <1>1, <2>1, <2>3, OthersRoom
<1>3. CASE SocketWrite
  <2>1. UNCHANGED <<pkt, out, rbuf, net>> /\ w.pc \in {"head", "region"}
    BY <1>3 DEF SocketWrite, readVars
  <2>2. AllLanded(wbuf)' /\ WriterRoom'
    BY <1>3, <2>1, HeadWriteRoom, RegionWriteRoom
  <2> QED
    BY <1>0, <2>1, <2>2, OthersRoom
<1>4. CASE SocketDone
  <2>1. /\ UNCHANGED <<pkt, out, rbuf>> /\ wbuf' = <<>> /\ DOMAIN w = Fields
        /\ \A d \in net' : d[1] = wbuf \/ \E e \in net : d[1] = e[1]
        /\ w' = Write!Done(w, 0) \/ w' = Write!Done(w, -1)
    BY <1>4 DEF SocketDone, readVars, UInv, WriterOK
  <2>2. w'.pc = "idle"
    BY <2>1 DEF Write!Done, Write!Return, Fields
  <2>3. WriterRoom' /\ AllLanded(wbuf)'
    BY <2>1, <2>2 DEF WriterRoom, AllLanded
  <2> QED
    BY <1>0, <2>1, <2>3, OthersRoom
<1>5. CASE Lose \/ Duplicate \/ UNCHANGED vars
  <2>1. /\ UNCHANGED <<pkt, out, rbuf, wbuf, w, sent>>
        /\ \A d \in net' : d[1] = wbuf \/ \E e \in net : d[1] = e[1]
    BY <1>5 DEF Lose, Duplicate, readVars, vars, udpVars
  <2>2. WriterRoom'
    BY <1>0, <2>1 DEF WriterRoom, RoomOK
  <2> QED
    BY <1>0, <1>1, <2>1, <2>2, OthersRoom
<1>6. CASE ClientStep \/ InternalStep
  BY <1>6, QuietRoom DEF ClientStep, InternalStep
<1> QED
  BY <1>2, <1>3, <1>4, <1>5, <1>6, ReadOnRoom, ReadNextRoom, ReadFailsRoom DEF UNext

LEMMA AlwaysRoom == USpec => [](UInv /\ RoomOK)
<1>1. UInit => UInv /\ RoomOK
  BY InitUInv, InitRoom
<1>2. UInv /\ RoomOK /\ [UNext]_vars => (UInv /\ RoomOK)'
  BY StepUInv, StepRoom
<1> QED
  BY <1>1, <1>2, PTL DEF USpec

(* What pueo_read_X returns without a warning was sent in one piece, and   *)
(* took up a datagram of its own: never more often than the network        *)
(* delivered it, through loss, duplicates, reordering, other datagrams     *)
(* that were cut, and failed recvs.                                        *)
THEOREM SilentTakesADatagram == USpec => []SilentAtMostAsOften
<1>1. UInv /\ RoomOK => SilentAtMostAsOften
  <2> SUFFICES ASSUME UInv, RoomOK, NEW i \in DOMAIN out, out[i] # 0
               PROVE  FitsDatagram(out[i]) /\ Occurrences(out[i]) <= copies[out[i]]
    BY DEF SilentAtMostAsOften
  <2> PICK id : id = out[i]
    OBVIOUS
  <2>1. id \in DOMAIN sent
    BY DEF UInv, OutOK
  <2>2. /\ UnderWay(id) \in Nat /\ Occurrences(id) \in Nat
        /\ InBuffer(id) \in {0, 1} /\ InMemory(id) \in {0, 1}
    BY Terms DEF UInv
  <2>3. UnderWay(id) + InBuffer(id) + InMemory(id) + Occurrences(id) <= copies[id]
    BY <2>1 DEF UInv, AccountOK
  <2>4. copies[id] \in Nat
    BY <2>1 DEF UInv, SceneOK, TypeOK, CountOK
  <2>5. Occurrences(id) <= copies[id]
    BY <2>2, <2>3, <2>4
  <2> QED
    BY <2>5 DEF RoomOK, OutFits
<1> QED
  BY <1>1, AlwaysRoom, PTL

-----------------------------------------------------------------------------
(* A reader that only uses pueo_ll_read, of packets that fit in a datagram *)
(* (Proper): every datagram is a whole packet.                             *)

IsDatagram(cells, id) ==
    /\ id \in DOMAIN sent
    /\ Len(cells) = HeadLen + NumBytes(sent[id].type, sent[id].ver, sent[id].counts)
    /\ HoldsWhole(cells, 0, id, sent[id])

WholeNet ==
    /\ \A d \in net : \E id \in DOMAIN sent : IsDatagram(d[1], id)
    /\ rbuf # <<>> => \E id \in DOMAIN sent : IsDatagram(rbuf, id)

(* What the writer has collected is its packet up to the region that is    *)
(* next.                                                                   *)
WriterClean ==
    /\ w.pc \in {"idle", "head"} => wbuf = <<>>
    /\ w.pc = "region" =>
          LET p == sent[w.id]
              g == GroupOf(p.type, w.region)
          IN  Holds(wbuf, 0, w.id, p, g) /\ Len(wbuf) = HeadLen + Size(p, g)
    /\ w.pc = "done" => IsDatagram(wbuf, w.id)

LEMMA DatagramKept ==
    ASSUME SentGrows, NEW id \in DOMAIN sent, NEW cells, IsDatagram(cells, id)
    PROVE  id \in DOMAIN sent' /\ sent'[id] = sent[id] /\ IsDatagram(cells, id)'
BY DEF SentGrows, IsDatagram

(* Datagrams are only taken, lost, doubled or read.                        *)
LEMMA NetKept ==
    ASSUME WholeNet, SentGrows, \A d \in net' : \E e \in net : d[1] = e[1],
           rbuf' = rbuf \/ \E e \in net : rbuf' = e[1]
    PROVE  WholeNet'
<1>1. ASSUME NEW cells, \E id \in DOMAIN sent : IsDatagram(cells, id)
      PROVE  \E id \in DOMAIN sent' : IsDatagram(cells, id)'
  BY <1>1, DatagramKept
<1>2. ASSUME NEW d \in net' PROVE \E id \in DOMAIN sent' : IsDatagram(d[1], id)'
  <2> PICK cells : cells = d[1]
    OBVIOUS
  <2>1. \E id \in DOMAIN sent : IsDatagram(cells, id)
    BY DEF WholeNet
  <2> QED
    BY <1>1, <2>1
<1>3. ASSUME rbuf' # <<>> PROVE \E id \in DOMAIN sent' : IsDatagram(rbuf, id)'
  <2> PICK cells : cells = rbuf'
    OBVIOUS
  <2>1. \E id \in DOMAIN sent : IsDatagram(cells, id)
    BY <1>3 DEF WholeNet
  <2>2. \E id \in DOMAIN sent' : IsDatagram(cells, id)'
    BY <1>1, <2>1
  <2> QED
    BY <2>2 DEF IsDatagram
<1> QED
  BY <1>2, <1>3 DEF WholeNet

(* The header goes into the empty buffer.                                  *)
LEMMA HeadWriteClean ==
    ASSUME UInv, WriterClean, Proper, SocketWrite, w.pc = "head"
    PROVE  WriterClean'
<1> PICK id : id = w.id
  OBVIOUS
<1> PICK p : p = sent[id]
  OBVIOUS
<1>0. /\ WriterOK /\ DOMAIN w = Fields /\ w.region = 1 /\ scene.udpMax \in Nat
      /\ id \in DOMAIN sent /\ id \in Nat /\ p \in Packets /\ wbuf = <<>>
  <2>1. /\ WriterOK /\ DOMAIN w = Fields /\ w.region = 1 /\ scene.udpMax \in Nat
        /\ id \in DOMAIN sent /\ TypeOK /\ wbuf = <<>>
    BY UdpAssumption DEF UInv, SceneOK, TypeOK, WriterOK, WriterClean
  <2> QED
    BY <2>1, SentTypes
<1>1. scene.udpMax >= HeadLen
  <2>1. NumBytes(p.type, p.ver, p.counts) \in Nat
    BY <1>0, NumBytesType, GroupTypes
  <2>2. HeadLen + NumBytes(p.type, p.ver, p.counts) <= scene.udpMax
    BY <1>0 DEF Proper, FitsDatagram
  <2> QED
    BY <1>0, <2>1, <2>2 DEF HeadLen
<1>2. /\ HeadCells(id) \in Seq(AllCells) /\ Len(HeadCells(id)) = HeadLen
  BY <1>0 DEF HeadCells, HeadLen, Cell, HeadSlot, AllCells
<1>3. /\ wbuf' = HeadCells(id) /\ w' = Write!HeadWritten(w, HeadLen)
      /\ UNCHANGED <<scene, sent>>
  <2>1. Write!Offered(w, sent[w.id]) = HeadCells(id)
    BY SameLayout DEF Write!Offered
  <2> PICK cells : cells = HeadCells(id)
    OBVIOUS
  <2>2. /\ cells \in Seq(AllCells) /\ Len(cells) = 2 /\ scene.udpMax - Len(wbuf) >= 2
    BY <1>0, <1>1, <1>2 DEF HeadLen
  <2>3. wbuf' = wbuf \o SubSeq(cells, 1, 2) /\ w' = Write!HeadWritten(w, 2)
        /\ UNCHANGED <<scene, sent>>
    BY <1>0, <2>1, <2>2 DEF SocketWrite
  <2>4. wbuf \o SubSeq(cells, 1, 2) = cells
    BY <1>0, <2>2
  <2> QED
    BY <2>3, <2>4 DEF HeadLen
<1>4. w'.pc = "region" /\ w'.id = id /\ w'.region = 1
  BY <1>0, <1>3, HeadDone
<1> DEFINE g == GroupOf(p.type, 1)
<1>5. Holds(HeadCells(id), 0, id, p, g)
  BY <1>0, HoldsHead
<1>6. Len(HeadCells(id)) = HeadLen + Size(p, g)
  BY <1>0, <1>2, FirstRegion DEF HeadLen
<1>7. sent'[w'.id] = p /\ GroupOf(p.type, w'.region) = g
  BY <1>3, <1>4
<1> HIDE DEF g
<1> QED
  BY <1>3, <1>4, <1>5, <1>6, <1>7 DEF WriterClean

(* A region goes behind what was collected, and fits.                      *)
RegionNext(id, p, r, old, max) ==
    /\ id \in Nat /\ p \in Packets /\ r \in 1 .. Len(Regions(id, p))
    /\ old \in Seq(AllCells) /\ Holds(old, 0, id, p, GroupOf(p.type, r))
    /\ Len(old) = HeadLen + Size(p, GroupOf(p.type, r))
    /\ max \in Nat /\ HeadLen + NumBytes(p.type, p.ver, p.counts) <= max

RegionFits(id, p, r, g, cells, old, max) ==
    /\ cells \in Seq(AllCells) /\ Len(cells) <= max - Len(old)
    /\ Holds(old \o cells, 0, id, p, g + 1)
    /\ Len(old \o cells) = HeadLen + Size(p, g + 1)
    /\ GroupOf(p.type, r + 1) = g + 1
    /\ Len(Regions(id, p)) \in Nat
    /\ r = Len(Regions(id, p)) <=> g = NumGroups[p.type]

LEMMA RegionJoined ==
    ASSUME NEW id, NEW p, NEW r, NEW old, NEW max, RegionNext(id, p, r, old, max)
    PROVE  RegionFits(id, p, r, GroupOf(p.type, r), Regions(id, p)[r], old, max)
<1> PICK g : g = GroupOf(p.type, r)
  OBVIOUS
<1> PICK cells : cells = Regions(id, p)[r]
  OBVIOUS
<1>0. /\ id \in Nat /\ p \in Packets /\ r \in 1 .. Len(Regions(id, p))
      /\ old \in Seq(AllCells) /\ Holds(old, 0, id, p, g)
      /\ Len(old) = HeadLen + Size(p, g)
      /\ max \in Nat /\ HeadLen + NumBytes(p.type, p.ver, p.counts) <= max
  BY DEF RegionNext
<1> USE <1>0
<1> PICK m : m = LenOf(p, g)
  OBVIOUS
<1> PICK n : n = NumBytes(p.type, p.ver, p.counts)
  OBVIOUS
<1>1. /\ g \in 0 .. NumGroups[p.type] /\ cells \in Seq(AllCells) /\ Len(cells) = LenOf(p, g)
      /\ \A k \in 1 .. LenOf(p, g) : cells[k] = Cell(id, SlotAt(g, k))
      /\ GroupOf(p.type, r + 1) = g + 1
      /\ r = Len(Regions(id, p)) <=> g = NumGroups[p.type]
  BY RegionIs, Zenon
<1>2. NumGroups[p.type] \in Nat /\ m \in Nat /\ n \in Nat /\ Len(Regions(id, p)) \in Nat
  <2>1. NumGroups[p.type] \in Nat /\ m \in Nat
    BY <1>1, GroupTypes
  <2>2. n \in Nat
    BY GroupTypes, NumBytesType
  <2>3. Len(Regions(id, p)) \in Nat
    BY RegionsOf
  <2> QED
    BY <2>1, <2>2, <2>3
<1> PICK a : a = Size(p, g)
  OBVIOUS
<1> PICK b : b = Size(p, g + 1)
  OBVIOUS
<1>3. a \in Nat /\ b = a + m
  <2>1. Size(p, g) \in Nat
    BY SizeType
  <2>2. Size(p, g + 1) = Size(p, g) + LenOf(p, g)
    BY <1>1, SizeNext
  <2> QED
    BY <2>1, <2>2
<1>4. a + m <= n
  <2> PICK N : N = NumGroups[p.type]
    OBVIOUS
  <2>1. N + 1 \in Int /\ g \in 0 .. N /\ g < N + 1
    BY <1>1, <1>2
  <2>2. Size(p, g) + LenOf(p, g) <= Size(p, N + 1)
    BY <2>1, SizeGrows
  <2>3. Size(p, N + 1) = n
    BY SizeEnds
  <2> QED
    BY <2>2, <2>3
<1> PICK new : new = old \o cells
  OBVIOUS
<1> PICK L : L = Len(old)
  OBVIOUS
<1>5. L = 2 + a /\ Len(cells) = m /\ 2 + n <= max
  BY <1>1 DEF HeadLen
<1>6. /\ L \in Nat /\ Len(new) = L + m /\ m <= max - L
  <2>1. old \in Seq(AllCells) /\ cells \in Seq(AllCells) /\ max \in Nat
    BY <1>1
  <2>2. Len(new) = L + Len(cells)
    BY ONLY <2>1, new = old \o cells, L = Len(old)
  <2> QED
    BY ONLY <1>2, <1>3, <1>4, <1>5, <2>1, <2>2
<1>7. /\ \A i \in 1 .. L : new[i] = old[i]
      /\ \A k \in 1 .. m : new[L + k] = cells[k]
  <2>1. L = Len(old) /\ new = old \o cells /\ old \in Seq(AllCells)
        /\ cells \in Seq(AllCells) /\ Len(cells) = m
    BY <1>1
  <2>2. \A i \in 1 .. L : new[i] = old[i]
    BY ONLY <2>1
  <2>3. \A k \in 1 .. m : new[L + k] = cells[k]
    BY ONLY <2>1
  <2> QED
    BY <2>2, <2>3
<1>8. Holds(new, 0, id, p, g + 1)
  <2> PICK z : z = 0
    OBVIOUS
  <2>1. /\ z \in Nat /\ L \in Nat /\ L = z + HeadLen + Size(p, g)
        /\ g \in 0 .. NumGroups[p.type] /\ Holds(old, z, id, p, g)
    BY <1>1, <1>3, <1>5, <1>6 DEF HeadLen
  <2>2. \A k \in 1 .. LenOf(p, g) : new[L + k] = Cell(id, SlotAt(g, k))
    BY <1>1, <1>7
  <2>3. Holds(new, z, id, p, g + 1)
    BY ONLY <1>7, <2>1, <2>2, HoldsMore, <1>0
  <2> QED
    BY <2>3
<1>9. Len(new) = HeadLen + b
  BY ONLY <1>2, <1>3, <1>5, <1>6 DEF HeadLen
<1> QED
  <2>1. RegionFits(id, p, r, g, cells, old, max)
    BY <1>1, <1>2, <1>5, <1>6, <1>8, <1>9 DEF RegionFits
  <2> QED
    BY ONLY <2>1, g = GroupOf(p.type, r), cells = Regions(id, p)[r]

LEMMA RegionWriteClean ==
    ASSUME UInv, WriterClean, Proper, SocketWrite, w.pc = "region"
    PROVE  WriterClean'
<1> PICK id : id = w.id
  OBVIOUS
<1> PICK p : p = sent[id]
  OBVIOUS
<1> PICK r : r = w.region
  OBVIOUS
<1> PICK g : g = GroupOf(p.type, r)
  OBVIOUS
<1> PICK cells : cells = Regions(id, p)[r]
  OBVIOUS
<1> PICK last : last = Len(Regions(id, p))
  OBVIOUS
<1> PICK max : max = scene.udpMax
  OBVIOUS
<1> PICK old : old = wbuf
  OBVIOUS
<1>0. /\ WriterOK /\ DOMAIN w = Fields /\ max \in Nat /\ w.nwr \in Nat
      /\ id \in DOMAIN sent /\ id \in Nat /\ p \in Packets /\ r \in 1 .. last
      /\ old \in Seq(AllCells)
  <2>1. /\ WriterOK /\ DOMAIN w = Fields /\ scene.udpMax \in Nat /\ w.nwr \in Nat
        /\ w.id \in DOMAIN sent /\ TypeOK /\ wbuf \in Seq(AllCells)
        /\ w.region \in 1 .. Len(Regions(w.id, sent[w.id]))
    BY UdpAssumption DEF UInv, SceneOK, TypeOK, WriterOK
  <2>2. sent[w.id] \in Packets /\ w.id \in Nat
    BY <2>1, SentTypes
  <2> QED
    BY <2>1, <2>2
<1>1. Holds(old, 0, id, p, g) /\ Len(old) = HeadLen + Size(p, g)
  BY DEF WriterClean
<1>2. HeadLen + NumBytes(p.type, p.ver, p.counts) <= max
  BY <1>0 DEF Proper, FitsDatagram
<1>3. /\ cells \in Seq(AllCells) /\ Len(cells) <= max - Len(old)
      /\ Holds(old \o cells, 0, id, p, g + 1)
      /\ Len(old \o cells) = HeadLen + Size(p, g + 1)
      /\ GroupOf(p.type, r + 1) = g + 1 /\ last \in Nat
      /\ r = last <=> g = NumGroups[p.type]
  <2>1. /\ r \in 1 .. Len(Regions(id, p)) /\ g = GroupOf(p.type, r)
        /\ cells = Regions(id, p)[r] /\ last = Len(Regions(id, p))
    BY <1>0
  <2> QED
    <3>1. /\ id \in Nat /\ p \in Packets /\ max \in Nat /\ old \in Seq(AllCells)
      BY <1>0
    <3>2. RegionNext(id, p, r, old, max)
      BY ONLY <1>1, <1>2, <2>1, <3>1 DEF RegionNext
    <3>3. RegionFits(id, p, r, GroupOf(p.type, r), Regions(id, p)[r], old, max)
      BY ONLY <3>2, RegionJoined
    <3> QED
      BY ONLY <2>1, <3>3 DEF RegionFits
<1> PICK m : m = Len(cells)
  OBVIOUS
<1>4. m \in Nat /\ ~(m > max - Len(old))
  <2>1. m \in Nat /\ Len(old) \in Nat
    BY <1>0, <1>3
  <2> QED
    BY <1>0, <1>3, <2>1
<1>5. /\ wbuf' = old \o cells /\ w' = Write!RegionWritten(w, m, last)
      /\ UNCHANGED <<scene, sent>>
  <2>1. Write!Offered(w, sent[w.id]) = cells
    BY SameLayout DEF Write!Offered
  <2>2. SubSeq(cells, 1, m) = cells
    BY <1>3
  <2>3. /\ wbuf' = wbuf \o SubSeq(cells, 1, m) /\ w' = Write!RegionWritten(w, m, last)
        /\ UNCHANGED <<scene, sent>>
    <3>1. m = IF Len(cells) > scene.udpMax - Len(wbuf) THEN scene.udpMax - Len(wbuf)
              ELSE Len(cells)
      BY <1>4
    <3>2. Len(Regions(w.id, sent[w.id])) = last
      OBVIOUS
    <3> QED
      BY ONLY SocketWrite, w.pc = "region", <2>1, <3>1, <3>2 DEF SocketWrite
  <2> QED
    BY <2>2, <2>3
<1>6. CASE r < last
  <2>1. w' = [w EXCEPT !.nwr = @ + m, !.region = @ + 1]
    BY <1>5, <1>6 DEF Write!RegionWritten
  <2>2. w'.pc = "region" /\ w'.id = id /\ w'.region = r + 1
    BY <1>0, <2>1 DEF Fields
  <2>3. sent'[w'.id] = p /\ GroupOf(p.type, w'.region) = g + 1
    BY <1>3, <1>5, <2>2
  <2>4. Holds(wbuf', 0, id, p, g + 1) /\ Len(wbuf') = HeadLen + Size(p, g + 1)
    BY <1>3, <1>5
  <2> QED
    BY <2>2, <2>3, <2>4 DEF WriterClean
<1>7. CASE ~(r < last)
  <2>1. g = NumGroups[p.type]
    <3>1. r = last
      BY <1>0, <1>3, <1>7
    <3> QED
      BY <1>3, <3>1
  <2>2. ~(w.nwr + m < 0)
    BY <1>0, <1>4
  <2>3. w' = [w EXCEPT !.nwr = @ + m, !.pc = "done"]
    BY <1>5, <1>7, <2>2 DEF Write!RegionWritten
  <2>4. w'.pc = "done" /\ w'.id = id
    BY <1>0, <2>3 DEF Fields
  <2> PICK new : new = old \o cells
    OBVIOUS
  <2>5. IsDatagram(new, id)'
    <3>1. Size(p, g + 1) = NumBytes(p.type, p.ver, p.counts)
      BY <1>0, <2>1, SizeEnds
    <3>2. HoldsWhole(new, 0, id, p)
      BY <1>3, <2>1 DEF HoldsWhole
    <3>3. id \in DOMAIN sent' /\ sent'[id] = p
      BY <1>0, <1>5
    <3>4. Len(new) = HeadLen + NumBytes(p.type, p.ver, p.counts)
      BY <1>3, <3>1
    <3> QED
      BY <3>2, <3>3, <3>4 DEF IsDatagram
  <2>6. wbuf' = new
    BY <1>5
  <2> QED
    BY <2>4, <2>5, <2>6 DEF WriterClean, IsDatagram
<1> QED
  BY <1>6, <1>7


(* What the writer has collected, by a step that is not its own.           *)
LEMMA WriterKept ==
    ASSUME WriterClean, UNCHANGED <<w, wbuf, sent>> PROVE WriterClean'
<1>1. w' = w /\ wbuf' = wbuf /\ sent' = sent
  OBVIOUS
<1>2. w.pc = "done" => IsDatagram(wbuf, w.id)'
  BY <1>1 DEF WriterClean, IsDatagram
<1> QED
  BY <1>1, <1>2 DEF WriterClean

(* The datagram that is sent is the whole packet.                          *)
LEMMA SendClean ==
    ASSUME UInv, WholeNet, WriterClean, SocketDone PROVE WholeNet' /\ WriterClean'
<1>1. /\ w.pc = "done" /\ wbuf' = <<>> /\ sent' = sent /\ rbuf' = rbuf
      /\ DOMAIN w = Fields /\ IsDatagram(wbuf, w.id)
  BY DEF SocketDone, WriterClean, UInv, WriterOK
<1>2. \A d \in net' : d \in net \/ d[1] = wbuf
  BY DEF SocketDone
<1>3. WholeNet'
  <2>1. \A cells, id : IsDatagram(cells, id)' = IsDatagram(cells, id)
    BY <1>1 DEF IsDatagram
  <2>2. ASSUME NEW d \in net' PROVE \E id \in DOMAIN sent' : IsDatagram(d[1], id)'
    <3> PICK cells : cells = d[1]
      OBVIOUS
    <3>1. \E id \in DOMAIN sent : IsDatagram(cells, id)
      BY <1>1, <1>2 DEF WholeNet, IsDatagram
    <3> QED
      BY <1>1, <2>1, <3>1
  <2>3. ASSUME rbuf # <<>> PROVE \E id \in DOMAIN sent' : IsDatagram(rbuf, id)'
    <3> PICK cells : cells = rbuf
      OBVIOUS
    <3>1. \E id \in DOMAIN sent : IsDatagram(cells, id)
      BY <2>3 DEF WholeNet
    <3>2. cells = rbuf'
      BY <1>1
    <3>3. \E id \in DOMAIN sent' : IsDatagram(cells, id)'
      BY <1>1, <2>1, <3>1
    <3> QED
      BY <3>2, <3>3 DEF IsDatagram
  <2> QED
    BY <1>1, <2>2, <2>3 DEF WholeNet
<1>4. w'.pc = "idle"
  <2>1. w' = Write!Done(w, 0) \/ w' = Write!Done(w, -1)
    BY DEF SocketDone
  <2> QED
    BY <1>1, <2>1 DEF Write!Done, Write!Return, Fields
<1>5. WriterClean'
  BY <1>1, <1>4 DEF WriterClean
<1> QED
  BY <1>3, <1>5

(* Every step keeps the datagrams whole.                                   *)
LEMMA NetClean ==
    ASSUME UInv, WholeNet, WriterClean, Proper, [UNext]_vars
    PROVE  WholeNet' /\ WriterClean'
<1>1. SentGrows
  BY SentKept
<1>2. CASE \E p \in Shapes : StartWrite(p)
  <2> PICK p \in Shapes : StartWrite(p)
    BY <1>2
  <2>1. /\ w.pc = "idle" /\ wbuf' = wbuf /\ net' = net /\ rbuf' = rbuf
        /\ w' = Write!Begin(w, Len(sent) + 1) /\ DOMAIN w = Fields
    BY DEF StartWrite, UInv, WriterOK
  <2>2. w'.pc = "head"
    BY <2>1 DEF Write!Begin, Fields
  <2>3. WriterClean'
    BY <2>1, <2>2 DEF WriterClean
  <2> QED
    BY <1>1, <2>1, <2>3, NetKept
<1>3. CASE SocketWrite
  <2>1. w.pc \in {"head", "region"} /\ net' = net /\ rbuf' = rbuf
    BY <1>3 DEF SocketWrite
  <2>2. WriterClean'
    BY <1>3, <2>1, HeadWriteClean, RegionWriteClean
  <2> QED
    BY <1>1, <2>1, <2>2, NetKept
<1>4. CASE SocketDone
  BY <1>4, SendClean
<1>5. CASE Lose
  <2>1. UNCHANGED <<w, wbuf, sent, rbuf>> /\ net' \subseteq net
    BY <1>5 DEF Lose
  <2> QED
    BY <1>1, <2>1, NetKept, WriterKept
<1>6. CASE Duplicate
  <2>1. UNCHANGED <<w, wbuf, sent, rbuf>>
    BY <1>6 DEF Duplicate
  <2>2. PICK d \in net : \E n : net' = net \cup {<<d[1], n>>}
    BY <1>6 DEF Duplicate
  <2>3. \A e \in net' : \E f \in net : e[1] = f[1]
    BY <2>2
  <2> QED
    BY <1>1, <2>1, <2>3, NetKept, WriterKept
<1>7. CASE ClientStep \/ InternalStep \/ ReadOn \/ ReadFails \/ UNCHANGED vars
  <2>1. UNCHANGED <<w, wbuf, sent, rbuf, net>>
    BY <1>7 DEF ClientStep, InternalStep, ReadOn, ReadFails, vars, udpVars
  <2> QED
    BY <1>1, <2>1, NetKept, WriterKept
<1>8. CASE ReadNext
  <2>1. UNCHANGED <<w, wbuf, sent>>
    BY <1>8 DEF ReadNext
  <2>2. PICK d \in net : net' = net \ {d} /\ rbuf' = d[1]
    BY <1>8 DEF ReadNext
  <2> QED
    BY <1>1, <2>1, <2>2, NetKept, WriterKept
<1> QED
  BY <1>2, <1>3, <1>4, <1>5, <1>6, <1>7, <1>8 DEF UNext


-----------------------------------------------------------------------------
(* The reader of such datagrams, while no recv has failed; id is the       *)
(* packet that last_read_header is of.                                     *)

AtStart == ~h.head /\ nout \in {0, Len(rbuf)}

HasHeader(id) ==
    /\ h.head /\ id \in DOMAIN sent /\ h.hdr = HeaderOf(id, sent[id])
    /\ IsDatagram(rbuf, id) /\ nout = HeadLen

Reads(id) ==
    InPlace(id) /\ IsDatagram(rbuf, id) /\ nout = HeadLen + call.nrd

ReaderAt(id) ==
    /\ call.pc = "idle" => IF h.required = 0 THEN AtStart ELSE HasHeader(id)
    /\ call.pc = "ll_header" => AtStart
    /\ call.pc \in {"capacity", "typed_header"} => HasHeader(id)
    /\ call.pc \in PayloadPcs => Reads(id)
    /\ call.pc = "check" => InPlace(id) /\ nout \in {0, Len(rbuf)}

ReaderClean ==
    /\ LLInv /\ call.ret # EIO
    /\ \A i \in DOMAIN out : out[i] # 0
    /\ \A id \in {h.hdr.sum} : ReaderAt(id)

(* What the reader knows is untouched by the others.                       *)
LEMMA ReaderKept ==
    ASSUME ReaderClean, SentGrows, UNCHANGED <<readVars, rbuf, nout>>
    PROVE  ReaderClean'
<1> PICK id : id = h.hdr.sum
  OBVIOUS
<1>1. h' = h /\ pkt' = pkt /\ call' = call /\ out' = out /\ rbuf' = rbuf /\ nout' = nout
  BY DEF readVars
<1>2. LLInv'
  BY <1>1 DEF ReaderClean, LLInv, HandleConsistent
<1>3. ASSUME id \in DOMAIN sent
      PROVE  id \in DOMAIN sent' /\ sent'[id] = sent[id]
             /\ (IsDatagram(rbuf, id) => IsDatagram(rbuf, id)')
  <2>1. id \in DOMAIN sent' /\ sent'[id] = sent[id]
    BY <1>3 DEF SentGrows
  <2> QED
    BY <1>1, <2>1 DEF IsDatagram
<1>4. HasHeader(id) => HasHeader(id)'
  BY <1>1, <1>3 DEF HasHeader
<1>5. InPlace(id) => InPlace(id)' /\ id \in DOMAIN sent
  <2> SUFFICES ASSUME InPlace(id) PROVE InPlace(id)' /\ id \in DOMAIN sent
    OBVIOUS
  <2>1. id \in DOMAIN sent
    BY DEF InPlace
  <2>2. sent'[id] = sent[id] /\ id \in DOMAIN sent'
    BY <1>3, <2>1
  <2> PICK p : p = sent[id]
    OBVIOUS
  <2> PICK g : g = ReadGroup
    OBVIOUS
  <2>3. ReadGroup' = g /\ ReadCells' = ReadCells
    BY <1>1 DEF ReadGroup, ReadCells
  <2>4. MemoryHolds(id, p, g)' = MemoryHolds(id, p, g)
    BY <1>1 DEF MemoryHolds
  <2>5. /\ h.hdr = HeaderOf(id, p) /\ call.type = p.type
        /\ call.nrd = Size(p, g) + ReadCells
        /\ MemoryHolds(id, p, g)
        /\ ReadCells = 1 =>
              /\ call.counts[g] = p.counts[g]
              /\ pkt.mem[AddrOf(p.type, SlotAt(g, 1))] = Cell(id, SlotAt(g, 1))
    BY DEF InPlace
  <2> QED
    BY <1>1, <2>1, <2>2, <2>3, <2>4, <2>5 DEF InPlace
<1>6. Reads(id) => Reads(id)'
  BY <1>1, <1>3, <1>5 DEF Reads
<1>7. ReaderAt(id)'
  BY <1>1, <1>4, <1>5, <1>6 DEF ReaderClean, ReaderAt, AtStart
<1> QED
  BY <1>1, <1>2, <1>7 DEF ReaderClean

(* The client makes its next call.                                         *)
LEMMA ClientClean ==
    ASSUME Proper, UInv, ReaderClean, ClientStep PROVE ReaderClean'
<1> PICK id : id = h.hdr.sum
  OBVIOUS
<1>0. TypeOK /\ LLInv
  BY DEF UInv, SceneOK, ReaderClean
<1>1. Client /\ UNCHANGED <<sent, rbuf, nout>> /\ call'.op # "typed"
  BY DEF Proper, ClientStep, udpVars
<1>2. LLInv'
  BY <1>0, <1>1, ClientLL
<1>3. h' = h /\ out' = out /\ call.pc = "idle"
  BY <1>1 DEF Client, LLRead, LLReadRealloc, TypedRead, ClientAllocates
<1>4. IF h.required = 0 THEN AtStart ELSE HasHeader(id)
  BY <1>3 DEF ReaderClean, ReaderAt
<1>5. (AtStart => AtStart') /\ (HasHeader(id) => HasHeader(id)')
  BY <1>1, <1>3 DEF AtStart, HasHeader, IsDatagram
<1>6. /\ \/ call'.pc = "idle"
         \/ call'.pc = IF h.required = 0 THEN "ll_header" ELSE "capacity"
      /\ call'.ret = 0
  <2>1. ASSUME NEW t, TypedRead(t) PROVE FALSE
    BY <1>1, <2>1 DEF TypedRead, Calling, Idle
  <2>2. CASE LLRead \/ LLReadRealloc
    BY <2>2 DEF LLRead, LLReadRealloc, Calling, Idle
  <2>3. ASSUME NEW cap, ClientAllocates(cap) PROVE call'.pc = "idle" /\ call'.ret = 0
    BY <2>3 DEF ClientAllocates, Fresh, Idle
  <2> QED
    BY <1>1, <2>1, <2>2, <2>3 DEF Client
<1>7. ReaderAt(id)'
  BY <1>3, <1>4, <1>5, <1>6 DEF ReaderAt, PayloadPcs, ReadPcs, HeaderPcs
<1> QED
  BY <1>2, <1>3, <1>6, <1>7 DEF ReaderClean, EIO

(* What needs no read_bytes and is not the end of a call.                  *)
LEMMA InternalClean ==
    ASSUME UInv, ReaderClean, UNCHANGED <<sent, rbuf, nout>>, Internal, ~Check
    PROVE  ReaderClean'
<1> PICK id : id = h.hdr.sum
  OBVIOUS
<1>0. TypeOK /\ LLInv /\ call \in Calls /\ h \in Handles /\ pkt \in Buffers /\ PlaceOK
  BY DEF UInv, SceneOK, TypeOK, ReaderClean
<1>1. LLInv' /\ h'.hdr.sum = id
  BY <1>0, InternalLL
<1>2. sent' = sent /\ rbuf' = rbuf /\ nout' = nout
  OBVIOUS
<1>3. out' = out
  BY DEF Internal, HeaderAlreadyRead, TooSmall, Dispatch, SimpleBadVersion
<1>4. ReaderAt(id)
  BY DEF ReaderClean
<1>5. h' = h => (HasHeader(id) => HasHeader(id)')
  BY <1>2 DEF HasHeader, IsDatagram
<1>6. call.ret # EIO /\ EMSGSIZE # EIO
  BY DEF ReaderClean, EIO, EMSGSIZE
<1>7. ReaderAt(id)' /\ call'.ret # EIO => ReaderClean'
  BY <1>1, <1>3 DEF ReaderClean
<1>8. CASE HeaderAlreadyRead
  <2>1. call.pc = "typed_header" /\ HasHeader(id) /\ TypedHeader(h)
    <3>1. call.pc \in HeaderPcs /\ h.head /\ HeaderDone(h, 0)
      BY <1>8 DEF HeaderAlreadyRead
    <3>2. call.pc # "ll_header"
      BY <1>4, <3>1 DEF ReaderAt, AtStart
    <3>3. call.pc = "typed_header"
      BY <3>1, <3>2 DEF HeaderPcs
    <3> QED
      BY <1>4, <3>1, <3>3 DEF ReaderAt, HeaderDone
  <2>2. /\ call.type = h.hdr.type /\ id \in DOMAIN sent /\ h.hdr = HeaderOf(id, sent[id])
        /\ sent[id] \in Packets /\ IsDatagram(rbuf, id) /\ nout = HeadLen
    BY <1>0, <2>1, SentTypes DEF LLInv, HasHeader
  <2>3. call.nrd = 0
    BY <1>0, <2>1 DEF PlaceOK, CountedOK, HeaderPcs
  <2>4. h' = [h EXCEPT !.head = FALSE] /\ call' = [call EXCEPT !.pc = FirstRead(call.type)]
    BY <2>1, <2>2 DEF TypedHeader
  <2>5. /\ h'.hdr = h.hdr /\ call'.pc = FirstRead(call'.type) /\ call'.nrd = 0
        /\ call'.type = call.type /\ call'.ret = call.ret
    BY <1>0, <2>3, <2>4 DEF Handles, Calls
  <2>6. call'.type = sent[id].type
    <3>1. HeaderOf(id, sent[id]).type = sent[id].type
      BY DEF HeaderOf
    <3> QED
      BY <2>2, <2>5, <3>1
  <2>7. InPlace(id)' /\ call'.pc \in PayloadPcs
    BY <1>2, <2>2, <2>5, <2>6, StartsInPlace
  <2>8. Reads(id)'
    <3>1. IsDatagram(rbuf, id)'
      BY <1>2, <2>2 DEF IsDatagram
    <3>2. nout' = HeadLen + call'.nrd
      BY <1>2, <2>2, <2>5 DEF HeadLen
    <3> QED
      BY <2>7, <3>1, <3>2 DEF Reads
  <2>9. ReaderAt(id)'
    BY <2>7, <2>8 DEF ReaderAt, PayloadPcs, ReadPcs, HeaderPcs
  <2> QED
    BY <1>6, <1>7, <2>5, <2>9
<1>9. CASE TooSmall
  <2>1. /\ call.pc = "capacity" /\ pkt.cap < h.required /\ h' = h
        /\ \/ call' = Idle(EMSGSIZE)
           \/ call' = [call EXCEPT !.op = "ll"]
    BY <1>9 DEF TooSmall
  <2>2. h.required # 0 /\ HasHeader(id)
    BY <1>0, <1>4, <2>1 DEF ReaderAt, Buffers
  <2>3. call'.pc \in {"idle", "capacity"} /\ call'.ret # EIO
    BY <1>0, <1>6, <2>1 DEF Calls, Idle
  <2>4. ReaderAt(id)'
    BY <1>5, <2>1, <2>2, <2>3 DEF ReaderAt, PayloadPcs, ReadPcs, HeaderPcs
  <2> QED
    BY <1>7, <2>3, <2>4
<1>10. CASE Dispatch
  <2>1. call.pc = "capacity" /\ HasHeader(id)
    BY <1>4, <1>10 DEF Dispatch, ReaderAt
  <2>2. h.hdr.type \in Types
    <3>1. id \in DOMAIN sent /\ h.hdr.type = sent[id].type
      BY <2>1 DEF HasHeader, HeaderOf
    <3>2. sent[id] \in Packets
      BY <1>0, <3>1, SentTypes
    <3> QED
      BY <3>1, <3>2 DEF Packets
  <2>3. h' = h /\ call'.pc = "typed_header" /\ call'.ret = call.ret
    <3>1. call' = [call EXCEPT !.pc = "typed_header", !.type = h.hdr.type] /\ h' = h
      BY <1>10, <2>2 DEF Dispatch
    <3> QED
      BY <1>0, <3>1 DEF Calls
  <2>4. ReaderAt(id)'
    BY <1>5, <2>1, <2>3 DEF ReaderAt, PayloadPcs, ReadPcs, HeaderPcs
  <2> QED
    BY <1>6, <1>7, <2>3, <2>4
<1>11. CASE SimpleBadVersion
  <2>1. call'.pc = "crashed" /\ call'.ret = call.ret
    BY <1>0, <1>11 DEF SimpleBadVersion, Calls
  <2>2. ReaderAt(id)'
    BY <2>1 DEF ReaderAt, PayloadPcs, ReadPcs, HeaderPcs
  <2> QED
    BY <1>6, <1>7, <2>1, <2>2
<1> QED
  BY <1>8, <1>9, <1>10, <1>11 DEF Internal

(* The end of a call: the packet is returned without a warning, and its    *)
(* datagram is used up, or the next one is untouched.                      *)
LEMMA CheckClean ==
    ASSUME UInv, ReaderClean, UNCHANGED <<sent, rbuf, nout>>, Check
    PROVE  ReaderClean'
<1> PICK id : id = h.hdr.sum
  OBVIOUS
<1>0. TypeOK /\ LLInv /\ h \in Handles /\ call \in Calls /\ out \in Seq(Nat)
  BY DEF UInv, SceneOK, TypeOK, ReaderClean
<1>1. LLInv' /\ h'.hdr = h.hdr
  BY <1>0, InternalLL DEF Internal
<1>2. call.pc = "check" /\ rbuf' = rbuf /\ nout' = nout
  BY DEF Check
<1>3. InPlace(id) /\ nout \in {0, Len(rbuf)}
  BY <1>2 DEF ReaderClean, ReaderAt
<1>4. Silent /\ call.nrd > 0 /\ id \in DOMAIN sent
  BY <1>0, <1>2, <1>3, CheckServed DEF InPlace
<1>5. out' = Append(out, id) /\ ReadXReturns([h EXCEPT !.bytesRead = @ + call.nrd], call.nrd)
  BY <1>4 DEF Check
<1>6. call.op # "typed"
  BY <1>0, <1>2 DEF LLInv
<1>7. /\ call'.pc = "idle" /\ h'.required = 0 /\ ~h'.head /\ call'.ret = call.nrd
  <2> PICK n : n = call.nrd
    OBVIOUS
  <2> DEFINE u == [h EXCEPT !.bytesRead = @ + n]
  <2>1. call' = Idle(n) /\ h' = [u EXCEPT !.required = 0, !.head = FALSE]
    BY <1>5, <1>6 DEF ReadXReturns
  <2> QED
    BY <1>0, <2>1 DEF Handles, Idle
<1>8. call'.ret # EIO
  <2>1. call.nrd \in Int
    BY <1>0 DEF Calls
  <2> QED
    BY <1>4, <1>7, <2>1 DEF EIO
<1>9. \A i \in DOMAIN out' : out'[i] # 0
  <2>1. id # 0
    BY <1>0, <1>4 DEF TypeOK
  <2>2. \A i \in DOMAIN out : out[i] # 0
    BY DEF ReaderClean
  <2> QED
    BY <1>0, <1>5, <2>1, <2>2
<1>10. ReaderAt(id)'
  BY <1>2, <1>3, <1>7 DEF ReaderAt, AtStart, PayloadPcs, ReadPcs, HeaderPcs
<1> QED
  BY <1>1, <1>8, <1>9, <1>10 DEF ReaderClean


(* What socket_readbytes returns when the datagram has as much as is asked *)
(* for.                                                                    *)
LEMMA CopiedAll ==
    ASSUME TypeOK, Reading, NEW d \in Seq(AllCells), NEW from \in Nat,
           NEW mark \in BOOLEAN, from + Wanted <= Len(d), CopyOut(d, from, mark)
    PROVE  \E res \in Results :
              /\ Receive(res) /\ ~res.err /\ res.mark = mark
              /\ Len(res.cells) = Wanted
              /\ \A k \in 1 .. Wanted : res.cells[k] = d[from + k]
              /\ nout' = from + Wanted
<1> PICK n : n = Wanted
  OBVIOUS
<1> DEFINE res == [cells |-> SubSeq(d, from + 1, from + n), err |-> FALSE, mark |-> mark]
<1>1. n \in Nat /\ Len(d) \in Nat /\ from + n <= Len(d)
  BY WantedType
<1>2. Receive(res) /\ nout' = from + n
  <2>1. (IF Len(d) - from < n THEN Len(d) - from ELSE n) = n
    BY <1>1
  <2> QED
    BY <2>1 DEF CopyOut
<1>3. /\ SubSeq(d, from + 1, from + n) \in Seq(AllCells)
      /\ Len(SubSeq(d, from + 1, from + n)) = n
      /\ \A k \in 1 .. n : SubSeq(d, from + 1, from + n)[k] = d[from + k]
  BY <1>1
<1> PICK cells : cells = SubSeq(d, from + 1, from + n)
  OBVIOUS
<1>4. res = [cells |-> cells, err |-> FALSE, mark |-> mark]
  OBVIOUS
<1>5. res \in Results /\ ~res.err /\ res.mark = mark /\ res.cells = cells
  BY <1>3, <1>4 DEF Results
<1> HIDE DEF res
<1> QED
  BY <1>2, <1>3, <1>5

(* The header comes out of an untouched datagram.                          *)
LEMMA HeaderTaken ==
    ASSUME UInv, ReaderClean, Reading, call.pc = "ll_header", UNCHANGED sent,
           NEW d \in Seq(AllCells), rbuf' = d, NEW id, IsDatagram(d, id),
           NEW mark \in BOOLEAN, CopyOut(d, 0, mark)
    PROVE  ReaderClean'
<1> PICK p : p = sent[id]
  OBVIOUS
<1>0. /\ TypeOK /\ LLInv /\ call \in Calls /\ h \in Handles /\ ~h.head /\ h.required = 0
      /\ id \in DOMAIN sent /\ p \in Packets /\ Wanted = HeadLen /\ sent' = sent
  <2>1. /\ TypeOK /\ LLInv /\ call \in Calls /\ h \in Handles /\ id \in DOMAIN sent
    BY DEF UInv, SceneOK, TypeOK, ReaderClean, IsDatagram
  <2>2. ~h.head
    BY DEF Reading, ReadPcs, HeaderPcs
  <2>3. h.required = 0
    BY <2>1 DEF LLInv
  <2>4. Wanted = HeadLen
    BY DEF Wanted, HeaderPcs
  <2> QED
    BY <2>1, <2>2, <2>3, <2>4, SentTypes
<1>1. 0 + Wanted <= Len(d)
  <2>1. NumBytes(p.type, p.ver, p.counts) \in Nat
    BY <1>0, NumBytesType, GroupTypes
  <2>2. Len(d) = HeadLen + NumBytes(p.type, p.ver, p.counts)
    BY DEF IsDatagram
  <2> QED
    BY <1>0, <2>1, <2>2 DEF HeadLen
<1>2. PICK res \in Results :
         /\ Receive(res) /\ ~res.err /\ res.mark = mark
         /\ Len(res.cells) = Wanted
         /\ \A k \in 1 .. Wanted : res.cells[k] = d[0 + k]
         /\ nout' = 0 + Wanted
  BY <1>0, <1>1, CopiedAll
<1>3. LLInv'
  BY <1>0, <1>2, ReceiveLL
<1>4. Len(res.cells) = HeadLen /\ \A k \in 1 .. HeadLen : res.cells[k] = Cell(id, HeadSlot(k))
  <2>1. \A k \in 1 .. HeadLen : d[0 + k] = Cell(id, HeadSlot(k))
    BY DEF IsDatagram, HoldsWhole, Holds
  <2> QED
    BY <1>0, <1>2, <2>1
<1>5. Overlaid(h.hdr, res.cells) = {HeaderOf(id, p)}
  BY <1>0, <1>4, HeaderServed
<1>6. HeaderArrives(res) /\ out' = out
  <2>1. ~(Len(res.cells) = 0)
    BY ONLY <1>4 DEF HeadLen
  <2>2. ~HeaderNothing(res)
    BY ONLY <2>1 DEF HeaderNothing
  <2>3. HeaderArrives(res)
    BY <1>2, <2>2 DEF Receive, HeaderFails, SimpleRead, VarFixed, VarTail,
       WavePrefix, WaveHead, WaveData, WantsPayload
  <2> QED
    BY <2>3 DEF HeaderArrives
<1> PICK hdr : hdr = HeaderOf(id, p)
  OBVIOUS
<1> DEFINE u == [h EXCEPT !.hdr = hdr, !.head = TRUE, !.bytesRead = @ + HeadLen]
<1>7. HeaderDone(u, HeadLen)
  BY <1>4, <1>5, <1>6 DEF HeaderArrives
<1>8. /\ u.hdr = hdr /\ u.head
      /\ DOMAIN u = {"hdr", "required", "head", "bytesRead"}
  BY <1>0 DEF Handles
<1> HIDE DEF u
<1>9. /\ h' = u \/ h' = [u EXCEPT !.required = SizeOf(u.hdr.type)]
      /\ call' = [call EXCEPT !.pc = "capacity"]
  BY <1>7 DEF HeaderDone, LLHeader, HeadLen
<1>10. h'.hdr = hdr /\ h'.head /\ call'.pc = "capacity" /\ call'.ret = call.ret
  BY <1>0, <1>8, <1>9 DEF Calls
<1>11. HasHeader(id)'
  <2>1. IsDatagram(rbuf, id)'
    BY <1>0 DEF IsDatagram
  <2>2. nout' = HeadLen
    BY <1>0, <1>2 DEF HeadLen
  <2> QED
    BY <1>0, <1>10, <2>1, <2>2 DEF HasHeader
<1>12. h'.hdr.sum = id
  BY <1>10 DEF HeaderOf
<1>13. ReaderAt(id)'
  BY <1>10, <1>11 DEF ReaderAt, PayloadPcs, ReadPcs, HeaderPcs
<1>14. call'.ret # EIO /\ \A i \in DOMAIN out' : out'[i] # 0
  BY <1>6, <1>10 DEF ReaderClean
<1> QED
  BY <1>3, <1>12, <1>13, <1>14 DEF ReaderClean

(* What a read of the payload leaves, wherever the bytes came from.        *)
LEMMA PayloadTaken ==
    ASSUME UInv, ReaderClean, call.pc \in PayloadPcs, UNCHANGED sent,
           NEW id, id = h.hdr.sum, NEW res \in Results, Served(id, res), Receive(res),
           call'.pc \in PayloadPcs => Reads(id)',
           call'.pc = "check" => nout' \in {0, Len(rbuf')}
    PROVE  ReaderClean'
<1>0. TypeOK /\ LLInv /\ InPlace(id)
  <2>1. ReaderAt(id)
    BY DEF ReaderClean
  <2> QED
    BY <2>1 DEF UInv, SceneOK, ReaderClean, ReaderAt, Reads
<1>1. LLInv'
  BY <1>0, ReceiveLL
<1>2. /\ InPlace(id)' /\ call'.pc \in PayloadPcs \cup {"check"} /\ call'.ret = call.ret
      /\ h'.hdr = h.hdr /\ out' = out
  BY <1>0, PayloadServed
<1>3. ReaderAt(id)'
  BY <1>2 DEF ReaderAt, PayloadPcs, ReadPcs, HeaderPcs
<1> QED
  BY <1>1, <1>2, <1>3 DEF ReaderClean

(* Reading on in a datagram.                                               *)
LEMMA ReadOnClean ==
    ASSUME UInv, WholeNet, ReaderClean, ReadOn PROVE ReaderClean'
<1> PICK id : id = h.hdr.sum
  OBVIOUS
<1> PICK d : d = rbuf
  OBVIOUS
<1>0. /\ TypeOK /\ Reading /\ Len(rbuf) # nout /\ CopyOut(d, nout, FALSE)
      /\ sent' = sent /\ rbuf' = d /\ d \in Seq(AllCells) /\ nout \in 0 .. Len(d)
      /\ ReaderAt(id) /\ call \in Calls /\ LLInv
  BY DEF UInv, SceneOK, NetOK, ReadOn, ReaderClean, TypeOK
<1>1. CASE call.pc \in HeaderPcs
  <2>1. call.pc = "ll_header"
    <3>1. ~h.head
      BY <1>0, <1>1 DEF Reading, ReadPcs, HeaderPcs
    <3> QED
      BY <1>0, <1>1, <3>1 DEF LLInv, HeaderPcs
  <2>2. nout = 0 /\ d # <<>>
    <3>1. nout = 0
      BY <1>0, <2>1 DEF ReaderAt, AtStart
    <3> QED
      BY <1>0, <3>1
  <2>3. PICK i \in DOMAIN sent : IsDatagram(d, i)
    BY <2>2 DEF WholeNet
  <2>4. CopyOut(d, 0, FALSE)
    BY <1>0, <2>2
  <2> QED
    BY <1>0, <2>1, <2>3, <2>4, HeaderTaken
<1>2. CASE call.pc \in PayloadPcs
  <2> PICK k : k = call.nrd
    OBVIOUS
  <2> PICK v : v = Wanted
    OBVIOUS
  <2> PICK p : p = sent[id]
    OBVIOUS
  <2> PICK m : m = NumBytes(p.type, p.ver, p.counts)
    OBVIOUS
  <2>1. /\ InPlace(id) /\ IsDatagram(d, id) /\ nout = HeadLen + k /\ id \in DOMAIN sent
        /\ HoldsWhole(d, 0, id, p) /\ Len(d) = HeadLen + m
    BY <1>0, <1>2 DEF ReaderAt, Reads, IsDatagram
  <2>2. m \in Nat /\ k \in Nat /\ v \in Nat /\ k + v <= m
    BY <1>0, <1>2, <2>1, AsksForItsOwn
  <2>3. nout \in Nat /\ nout + v <= Len(d)
    BY <2>1, <2>2 DEF HeadLen
  <2>4. PICK res \in Results :
           /\ Receive(res) /\ ~res.err /\ Len(res.cells) = Wanted
           /\ \A i \in 1 .. Wanted : res.cells[i] = d[nout + i]
           /\ nout' = nout + Wanted
    BY <1>0, <2>3, CopiedAll
  <2>5. Served(id, res)
    <3> PICK z : z = 0
      OBVIOUS
    <3>1. \A i \in 1 .. Wanted :
             d[z + HeadLen + call.nrd + i] = Cell(id, SlotAt(ReadGroup, ReadCells + i))
      <4>1. z \in Nat /\ HoldsWhole(d, z, id, sent[id])
        BY <2>1
      <4> QED
        BY <1>0, <1>2, <2>1, <4>1, WholeServes
    <3>2. z + HeadLen + call.nrd = nout
      BY <2>1, <2>2 DEF HeadLen
    <3> QED
      BY <2>4, <3>1, <3>2 DEF Served
  <2>6. /\ InPlace(id)' /\ call'.pc \in PayloadPcs \cup {"check"}
        /\ call'.nrd = call.nrd + Wanted
    BY <1>0, <1>2, <2>1, <2>4, <2>5, PayloadServed
  <2>7. nout' = HeadLen + call'.nrd
    BY <2>1, <2>2, <2>4, <2>6 DEF HeadLen
  <2>8. call'.pc \in PayloadPcs => Reads(id)'
    <3>1. IsDatagram(rbuf, id)'
      BY <1>0, <2>1 DEF IsDatagram
    <3> QED
      BY <2>6, <2>7, <3>1 DEF Reads
  <2>9. call'.pc = "check" => nout' = Len(rbuf')
    <3> SUFFICES ASSUME call'.pc = "check" PROVE nout' = Len(rbuf')
      OBVIOUS
    <3>1. call'.nrd = m
      <4>1. ReadGroup' = NumGroups[p.type] + 1 /\ ReadCells' = 0
        <5>1. call'.type = p.type
          BY <1>0, <2>6 DEF InPlace
        <5> QED
          BY <5>1 DEF ReadGroup, ReadCells
      <4>2. call'.nrd = Size(p, NumGroups[p.type] + 1) + 0
        BY <1>0, <2>6, <4>1 DEF InPlace
      <4>3. p \in Packets
        BY <1>0, <2>1, SentTypes
      <4>4. Size(p, NumGroups[p.type] + 1) = m
        BY <4>3, SizeEnds
      <4> QED
        BY <2>2, <4>2, <4>4
    <3> QED
      BY <1>0, <2>1, <2>7, <3>1
  <2> QED
    BY <1>0, <1>2, <2>4, <2>5, <2>8, <2>9, PayloadTaken
<1> QED
  BY <1>0, <1>1, <1>2 DEF Reading, PayloadPcs, ReadPcs, HeaderPcs

(* The next datagram is taken for a header, or because the empty end of a  *)
(* packet is read when its own datagram is used up: then it is untouched.  *)
LEMMA ReadNextClean ==
    ASSUME UInv, WholeNet, ReaderClean, ReadNext PROVE ReaderClean'
<1> PICK id : id = h.hdr.sum
  OBVIOUS
<1>0. /\ TypeOK /\ Reading /\ Len(rbuf) = nout /\ NetOK
      /\ sent' = sent /\ ReaderAt(id) /\ call \in Calls /\ LLInv
  BY DEF UInv, SceneOK, ReadNext, ReaderClean, TypeOK
<1> PICK e \in net : rbuf' = e[1] /\ CopyOut(e[1], 0, TRUE)
  BY DEF ReadNext
<1> PICK d : d = e[1] /\ rbuf' = d /\ CopyOut(d, 0, TRUE)
  BY Zenon
<1>1. d \in Seq(AllCells) /\ rbuf' = d /\ CopyOut(d, 0, TRUE) /\ Len(d) \in Nat
  <2>1. d \in Seq(AllCells)
    BY <1>0 DEF NetOK, DatagramOf
  <2>2. Len(d) \in Nat
    BY <2>1
  <2> QED
    BY <2>1, <2>2, Zenon
<1>2. PICK j \in DOMAIN sent : IsDatagram(d, j)
  BY DEF WholeNet
<1>3. CASE call.pc \in HeaderPcs
  <2>1. call.pc = "ll_header"
    <3>1. ~h.head
      BY <1>0, <1>3 DEF Reading, ReadPcs, HeaderPcs
    <3> QED
      BY <1>0, <1>3, <3>1 DEF LLInv, HeaderPcs
  <2> QED
    BY <1>0, <1>1, <1>2, <2>1, HeaderTaken
<1>4. CASE call.pc \in PayloadPcs
  <2> PICK p : p = sent[id]
    OBVIOUS
  <2> PICK m : m = NumBytes(p.type, p.ver, p.counts)
    OBVIOUS
  <2>1. /\ InPlace(id) /\ nout = HeadLen + call.nrd /\ Len(rbuf) = HeadLen + m
        /\ call.type = p.type
    BY <1>0, <1>4 DEF ReaderAt, Reads, IsDatagram, InPlace
  <2>2. m \in Nat /\ call.nrd \in Nat
        /\ (call.nrd = m => /\ Wanted = 0 /\ call.pc \in {"tail", "wf_data"}
                            /\ ReadGroup = NumGroups[p.type])
    BY <1>0, <1>4, <2>1, AsksForItsOwn
  <2>3. /\ Wanted = 0 /\ call.pc \in {"tail", "wf_data"}
        /\ ReadGroup = NumGroups[call.type]
    <3>1. call.nrd = m
      BY <1>0, <2>1, <2>2, SMTT(30) DEF HeadLen
    <3> QED
      BY <2>1, <2>2, <3>1
  <2>4. 0 + Wanted <= Len(d)
    BY <1>1, <2>3
  <2>5. PICK res \in Results :
           /\ Receive(res) /\ ~res.err /\ Len(res.cells) = Wanted
           /\ nout' = 0 + Wanted
    BY <1>0, <1>1, <2>4, CopiedAll
  <2>6. Served(id, res)
    BY <2>3, <2>5 DEF Served
  <2>7. call'.pc = "check"
    BY <1>0, <1>4, <2>1, <2>3, <2>5, <2>6, PayloadServed
  <2>8. call'.pc \notin PayloadPcs /\ nout' = 0
    BY <2>3, <2>5, <2>7 DEF PayloadPcs, ReadPcs, HeaderPcs
  <2> QED
    BY <1>0, <1>4, <2>5, <2>6, <2>8, PayloadTaken
<1> QED
  BY <1>0, <1>3, <1>4 DEF Reading, PayloadPcs, ReadPcs, HeaderPcs


(* As long as the reader and the packets are so, and no recv has failed.   *)
CleanOK == Proper => /\ WholeNet /\ WriterClean
                     /\ failed = 0 => ReaderClean

LEMMA InitClean == ASSUME UInit PROVE CleanOK
<1>1. /\ Init /\ net = {} /\ rbuf = <<>> /\ nout = 0 /\ wbuf = <<>> /\ w.pc = "idle"
  BY DEF UInit, Write!FreshWriter
<1>2. /\ ~h.head /\ h.required = 0 /\ out = <<>> /\ call.ret = 0
      /\ call.pc = "idle" /\ call.op = "fresh"
  BY <1>1 DEF Init, Fresh, Idle, FreshHandle
<1>3. LLInv
  BY <1>2 DEF LLInv, HandleConsistent, PayloadPcs, ReadPcs, HeaderPcs
<1>4. \A id : ReaderAt(id)
  BY <1>1, <1>2 DEF ReaderAt, AtStart, PayloadPcs, ReadPcs, HeaderPcs
<1>5. ReaderClean
  BY <1>2, <1>3, <1>4 DEF ReaderClean, EIO
<1> QED
  BY <1>1, <1>5 DEF CleanOK, WholeNet, WriterClean

LEMMA StepClean == ASSUME UInv, CleanOK, [UNext]_vars PROVE CleanOK'
<1>1. SentGrows /\ (Proper' => Proper)
  BY SentKept
<1> SUFFICES ASSUME Proper'
             PROVE  /\ WholeNet' /\ WriterClean'
                    /\ failed' = 0 => ReaderClean'
  BY DEF CleanOK
<1>2. /\ Proper /\ WholeNet /\ WriterClean
      /\ failed = 0 => ReaderClean
  BY <1>1 DEF CleanOK
<1>3. WholeNet' /\ WriterClean'
  BY <1>2, NetClean
<1>4. ASSUME failed' = 0 PROVE ReaderClean'
  <2>1. failed = 0 /\ ~ReadFails
    <3>1. failed \in Nat
      BY DEF UInv, SceneOK
    <3>2. ReadFails \/ failed' = failed
      BY DEF UNext, StartWrite, SocketWrite, SocketDone, Lose, Duplicate, ClientStep,
             InternalStep, ReadOn, ReadNext, ReadFails, udpVars, vars
    <3>3. ReadFails => failed' = failed + 1
      BY DEF ReadFails
    <3> QED
      BY <1>4, <3>1, <3>2, <3>3
  <2>2. ReaderClean
    BY <1>2, <2>1
  <2>3. CASE \/ \E p \in Shapes : StartWrite(p)
             \/ SocketWrite \/ SocketDone \/ Lose \/ Duplicate \/ UNCHANGED vars
    <3>1. UNCHANGED <<readVars, rbuf, nout>>
      BY <2>3 DEF StartWrite, SocketWrite, SocketDone, Lose, Duplicate, udpVars, vars
    <3> QED
      BY <1>1, <2>2, <3>1, ReaderKept
  <2>4. CASE ClientStep
    BY <1>2, <2>2, <2>4, ClientClean
  <2>5. CASE InternalStep
    <3>1. Internal /\ UNCHANGED <<sent, rbuf, nout>>
      BY <2>5 DEF InternalStep, udpVars
    <3> QED
      BY <2>2, <3>1, InternalClean, CheckClean
  <2>6. CASE ReadOn
    BY <1>2, <2>2, <2>6, ReadOnClean
  <2>7. CASE ReadNext
    BY <1>2, <2>2, <2>7, ReadNextClean
  <2> QED
    BY <2>1, <2>3, <2>4, <2>5, <2>6, <2>7 DEF UNext
<1> QED
  BY <1>3, <1>4

LEMMA AlwaysClean == USpec => [](UInv /\ CleanOK)
<1>1. UInit => UInv /\ CleanOK
  BY InitUInv, InitClean
<1>2. UInv /\ CleanOK /\ [UNext]_vars => (UInv /\ CleanOK)'
  BY StepUInv, StepClean
<1> QED
  BY <1>1, <1>2, PTL DEF USpec

(* Through loss, duplication, reordering and refused sends, and as long as *)
(* no recv fails, a pueo_ll_read reader is between two datagrams whenever  *)
(* it is between two packets: one that ends with an empty array included,  *)
(* for which it takes the next datagram off the socket.                    *)
THEOREM DatagramIsAPacket == USpec => []PacketPerDatagram
<1>1. UInv /\ CleanOK => PacketPerDatagram
  BY DEF CleanOK, ReaderClean, ReaderAt, AtStart, PacketPerDatagram
<1> QED
  BY <1>1, AlwaysClean, PTL

(* Every packet such a reader returns was sent and is returned without a   *)
(* warning, no more often than its datagram was delivered.                 *)
THEOREM ReaderGetsWhatWasSent == USpec => []IntactAtMostAsOften
<1>1. CleanOK /\ SilentAtMostAsOften => IntactAtMostAsOften
  BY DEF CleanOK, ReaderClean, SilentAtMostAsOften, IntactAtMostAsOften
<1> QED
  BY <1>1, AlwaysClean, SilentTakesADatagram, PTL

(* Such a reader gets no -EIO from what the network does: only a recv that *)
(* failed leads to it.                                                     *)
THEOREM EIOTakesAFailedRecv == USpec => []EIOOnlyAfterFailedRecv
<1>1. UInv /\ CleanOK => EIOOnlyAfterFailedRecv
  <2> SUFFICES ASSUME UInv, CleanOK, Proper, call.ret = EIO PROVE failed > 0
    BY DEF EIOOnlyAfterFailedRecv
  <2>1. failed # 0
    BY DEF CleanOK, ReaderClean
  <2>2. failed \in Nat
    BY DEF UInv, SceneOK
  <2> QED
    BY <2>1, <2>2
<1> QED
  BY <1>1, AlwaysClean, PTL
=============================================================================
