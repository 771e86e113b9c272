-------------------------- MODULE FileStream_proofs -------------------------
(***************************************************************************)
(* FileStream for every packet table, every medium and client, and any     *)
(* number of packets, crashes, short writes and failed reads: what the     *)
(* reader returns without a warning was written so, whole and in order.    *)
(***************************************************************************)
EXTENDS FileStream, PacketReading_proofs

-----------------------------------------------------------------------------
(* The tape: what was accepted from the writer, flushed or not.            *)

TapeLen == Len(stream) + Len(buf)
Tape == [i \in 1 .. TapeLen |->
            IF i <= Len(stream) THEN stream[i] ELSE buf[i - Len(stream)]]

(* The order in which cells are written: by packet, by group, by index;    *)
(* header cells have group -1.                                             *)
Before(c, d) ==
    \/ c[1] < d[1]
    \/ c[1] = d[1] /\ c[2][1] < d[2][1]
    \/ c[1] = d[1] /\ c[2][1] = d[2][1] /\ c[2][2] < d[2][2]

OnTape == {Tape[i] : i \in 1 .. TapeLen}

Headed(id) == \A k \in 1 .. HeadLen : Cell(id, HeadSlot(k)) \in OnTape

TapeOK ==
    /\ \A i \in 1 .. TapeLen : Tape[i] \in AnyCell
    /\ \A i, j \in 1 .. TapeLen : i < j => Before(Tape[i], Tape[j])
    /\ \A j \in 1 .. TapeLen : Tape[j][2][1] # -1 =>
          \A k \in 1 .. HeadLen : \E i \in 1 .. j :
              Tape[i] = Cell(Tape[j][1], HeadSlot(k))

WriterRec == [pc : {"idle", "head", "region", "done"}, id : Nat, region : Nat,
              nwr : Int, counter : Nat, bytes : Nat, ret : Int]

(* The writer writes the latest packet, in the order of its cells.         *)
WriterOK ==
    /\ w \in WriterRec
    /\ w.pc = "idle" => w.id = 0
    /\ w.pc # "idle" => w.id = Len(sent) /\ w.id # 0
    /\ w.pc = "head" => /\ w.region = 1 /\ w.nwr = 0
                        /\ \A c \in OnTape : c[1] < w.id
    /\ w.pc = "region" =>
          /\ w.region \in 1 .. Len(Regions(w.id, sent[w.id]))
          /\ Headed(w.id)
          /\ \A c \in OnTape :
                c[1] = w.id => c[2][1] < GroupOf(sent[w.id].type, w.region)
    /\ w.pc = "done" => w.nwr >= 0

Shaped ==
    /\ TypeOK
    /\ scene \in Scenes
    /\ stream \in Seq(AllCells) /\ buf \in Seq(AllCells)
    /\ scene.medium = "pipe" => buf = <<>>
    /\ rpos \in 0 .. Len(stream)
    /\ faults \in 0 .. scene.faults

-----------------------------------------------------------------------------
(* The reader: the cells that arrived, the packets returned silently, and  *)
(* the cells that come after those packets.                                *)

Arrived == {stream[i] : i \in 1 .. rpos}
Returned == {out[i] : i \in DOMAIN out} \ {0}

WireCells(id) ==
    {Cell(id, s) : s \in WireSlots(sent[id].type, sent[id].ver, sent[id].counts)}

Later == {c \in AllCells : \A id \in Returned : id <= c[1] /\ c \notin WireCells(id)}

(* What this call has read.                                                *)
News == Arrived \cap Later

ReaderOK ==
    /\ Returned \subseteq DOMAIN sent
    /\ \A i \in rpos + 1 .. TapeLen : Tape[i] \in Later
    /\ \A id \in Returned :
          /\ WireCells(id) \subseteq Arrived
          /\ \A k \in 1 .. HeadLen : Cell(id, HeadSlot(k)) \in Arrived
    /\ \A i, j \in DOMAIN out : i < j /\ out[i] # 0 /\ out[j] # 0 => out[i] < out[j]

(* A payload reader that has lost nothing so far has filled memory with    *)
(* cells of this call up to its place.                                     *)
HasPrefix == \A i \in 1 .. Prefix(call.type, h.hdr.ver) : pkt.mem[i] \in News

HasGroups(n) ==
    \A g \in 1 .. n : \A i \in 0 .. TailLen(call.type, h.hdr.ver, call.counts[g]) :
        pkt.mem[GroupAddr(call.type, g) + i] \in News

Whole == IF Codec[call.type] = "wave" THEN call.nrd # -1
         ELSE call.nrd = Cardinality(WireSlotsRead)

PlaceOK ==
    /\ call.pc \in HeaderPcs \cup {"capacity", "simple", "fixed", "prefix"} =>
          call.nrd = 0
    /\ call.pc = "tail" => call.nrd <= 1 /\ (call.nrd = 1 => pkt.mem[1] \in News)
    /\ call.pc \in {"wf_head", "wf_data"} => HasPrefix /\ HasGroups(call.grp - 1)
    /\ call.pc = "wf_data" => pkt.mem[GroupAddr(call.type, call.grp)] \in News
    /\ call.pc = "check" /\ Whole =>
          /\ \A s \in WireSlotsRead : pkt.mem[AddrOf(call.type, s)] \in News
          /\ Codec[call.type] # "wave" =>
                \A a \in 1 .. MemSize :
                    a > Cardinality(WireSlotsRead) => pkt.mem[a] = Zero

SInv == Shaped /\ TapeOK /\ WriterOK /\ ReaderOK /\ PlaceOK

-----------------------------------------------------------------------------
(* What a packet is written from.                                          *)

LEMMA SameLayout ==
    ASSUME NEW id, NEW p
    PROVE  /\ Write!Regions(id, p) = Regions(id, p)
           /\ Write!HeadCells(id) = HeadCells(id)
           /\ Write!HeadLen = HeadLen
<1>1. \A t, v, n : Write!TailLen(t, v, n) = TailLen(t, v, n)
  BY DEF Write!TailLen, TailLen
<1>2. \A g, n : Write!GroupCells(id, g, n) = GroupCells(id, g, n)
  BY DEF Write!GroupCells, GroupCells, Write!Cell, Cell, Write!Slot, Slot
<1>3. \A t, v : Write!PrefixCells(id, t, v) = PrefixCells(id, t, v)
  BY DEF Write!PrefixCells, PrefixCells, Write!Cell, Cell, Write!Slot, Slot,
         Write!Prefix, Prefix, Write!KnownVer, KnownVer
<1>4. Write!Regions(id, p) = Regions(id, p)
  BY <1>1, <1>2, <1>3 DEF Write!Regions, Regions
<1> QED
  BY <1>4 DEF Write!HeadCells, HeadCells, Write!HeadLen, HeadLen, Write!Cell, Cell,
              Write!HeadSlot, HeadSlot

-----------------------------------------------------------------------------
(* Steps on the tape and on the history of packets.                        *)

SentGrows == /\ sent' \in Seq(Shapes)
             /\ DOMAIN sent \subseteq DOMAIN sent'
             /\ \A id \in DOMAIN sent : sent'[id] = sent[id]

(* The tape is left alone, or loses its end.                               *)
TapeKept == /\ TapeLen' \in 0 .. TapeLen
            /\ \A i \in 1 .. TapeLen' : Tape'[i] = Tape[i]

TapeGrows(new) == /\ TapeLen' = TapeLen + Len(new)
                  /\ \A i \in 1 .. TapeLen : Tape'[i] = Tape[i]
                  /\ \A k \in 1 .. Len(new) : Tape'[TapeLen + k] = new[k]

LEMMA TapeType ==
    ASSUME Shaped
    PROVE  /\ TapeLen \in Nat /\ Len(stream) \in Nat /\ Len(buf) \in Nat
           /\ \A i \in 1 .. TapeLen : Tape[i] \in AllCells
           /\ \A i \in 1 .. Len(stream) : Tape[i] = stream[i] /\ i \in 1 .. TapeLen
<1>1. TapeLen \in Nat /\ Len(stream) \in Nat /\ Len(buf) \in Nat
  BY DEF Shaped, TapeLen
<1>2. ASSUME NEW i \in 1 .. TapeLen PROVE Tape[i] \in AllCells
  <2>1. CASE i <= Len(stream)
    BY <1>1, <2>1 DEF Tape, Shaped
  <2>2. CASE ~(i <= Len(stream))
    <3>1. i - Len(stream) \in 1 .. Len(buf)
      BY <1>1, <2>2 DEF TapeLen
    <3> QED
      BY <2>2, <3>1 DEF Tape, Shaped
  <2> QED
    BY <2>1, <2>2
<1> QED
  BY <1>1, <1>2 DEF Tape, TapeLen

LEMMA AnyCellGrows ==
    ASSUME SentGrows
    PROVE  /\ AnyCell \subseteq AnyCell'
           /\ \A id \in DOMAIN sent : CellsOf(id)' = CellsOf(id) /\ WireCells(id)' = WireCells(id)
<1>1. \A id \in DOMAIN sent : CellsOf(id)' = CellsOf(id)
  BY DEF SentGrows, CellsOf
<1>2. \A id \in DOMAIN sent : WireCells(id)' = WireCells(id)
  BY DEF SentGrows, WireCells
<1>3. ASSUME NEW c \in AnyCell PROVE c \in AnyCell'
  <2>1. PICK id \in DOMAIN sent : c \in CellsOf(id)
    BY DEF AnyCell
  <2>2. id \in DOMAIN sent' /\ c \in CellsOf(id)'
    BY <1>1, <2>1 DEF SentGrows
  <2> QED
    BY <2>2 DEF AnyCell
<1> QED
  BY <1>1, <1>2, <1>3

(* A cell of a packet that was sent carries its identifier.                *)
LEMMA CellIsOf ==
    ASSUME NEW c \in AnyCell
    PROVE  c[1] \in DOMAIN sent /\ c \in CellsOf(c[1])
<1>1. PICK id \in DOMAIN sent : c \in CellsOf(id)
  BY DEF AnyCell
<1>2. c[1] = id
  BY <1>1 DEF CellsOf, Cell
<1> QED
  BY <1>1, <1>2

LEMMA TapeKeptOK ==
    ASSUME Shaped, TapeOK, SentGrows, TapeKept
    PROVE  TapeOK' /\ OnTape' \subseteq OnTape
<1>1. TapeLen \in Nat /\ TapeLen' \in Nat /\ TapeLen' <= TapeLen
  BY TapeType DEF TapeKept
<1>2. \A i \in 1 .. TapeLen' : i \in 1 .. TapeLen /\ Tape'[i] = Tape[i]
  BY <1>1 DEF TapeKept
<1>3. AnyCell \subseteq AnyCell'
  BY AnyCellGrows
<1>4. \A i \in 1 .. TapeLen' : Tape'[i] \in AnyCell'
  BY <1>2, <1>3 DEF TapeOK
<1>5. \A i, j \in 1 .. TapeLen' : i < j => Before(Tape'[i], Tape'[j])
  BY <1>2 DEF TapeOK
<1>6. ASSUME NEW j \in 1 .. TapeLen', Tape'[j][2][1] # -1, NEW k \in 1 .. HeadLen
      PROVE  \E i \in 1 .. j : Tape'[i] = Cell(Tape'[j][1], HeadSlot(k))
  <2>1. PICK i \in 1 .. j : Tape[i] = Cell(Tape[j][1], HeadSlot(k))
    BY <1>2, <1>6 DEF TapeOK
  <2>2. i \in 1 .. TapeLen'
    BY <1>1
  <2> QED
    BY <1>2, <2>1, <2>2
<1>7. TapeOK'
  BY <1>4, <1>5, <1>6 DEF TapeOK, Before
<1>8. OnTape' \subseteq OnTape
  BY <1>2 DEF OnTape
<1> QED
  BY <1>7, <1>8

(* Cells of a packet that come after what is on the tape.                  *)
LEMMA TapeGrowsOK ==
    ASSUME Shaped, TapeOK, UNCHANGED sent, NEW new \in Seq(AllCells), TapeGrows(new),
           NEW id \in DOMAIN sent,
           \A k \in 1 .. Len(new) : /\ new[k] \in CellsOf(id) /\ new[k][1] = id
                                    /\ new[k][2][1] # -1 => Headed(id),
           \A k, l \in 1 .. Len(new) : k < l => Before(new[k], new[l]),
           \A c \in OnTape : \A k \in 1 .. Len(new) : Before(c, new[k])
    PROVE  /\ TapeOK'
           /\ OnTape' = OnTape \cup {new[k] : k \in 1 .. Len(new)}
<1> DEFINE n == Len(new)
<1>1. TapeLen \in Nat /\ n \in Nat /\ TapeLen' = TapeLen + n
  BY TapeType DEF TapeGrows
<1>2. \A i \in 1 .. TapeLen : i \in 1 .. TapeLen' /\ Tape'[i] = Tape[i] /\ Tape[i] \in OnTape
  BY <1>1 DEF TapeGrows, OnTape
<1>3. \A k \in 1 .. n : TapeLen + k \in 1 .. TapeLen' /\ Tape'[TapeLen + k] = new[k]
  BY <1>1 DEF TapeGrows
<1>4. \A i \in 1 .. TapeLen' : i \in 1 .. TapeLen \/ \E k \in 1 .. n : i = TapeLen + k
  <2>1. \A i \in 1 .. TapeLen' : i \in 1 .. TapeLen \/ i - TapeLen \in 1 .. n
    BY <1>1
  <2>2. \A i \in 1 .. TapeLen' : i = TapeLen + (i - TapeLen)
    BY <1>1
  <2> QED
    BY <2>1, <2>2
<1>5. AnyCell' = AnyCell /\ CellsOf(id) \subseteq AnyCell
  BY DEF AnyCell, CellsOf
<1> HIDE DEF n
<1>6. \A i \in 1 .. TapeLen' : Tape'[i] \in AnyCell'
  <2>1. \A i \in 1 .. TapeLen : Tape'[i] \in AnyCell'
    BY <1>2, <1>5 DEF TapeOK
  <2>2. \A k \in 1 .. n : Tape'[TapeLen + k] \in AnyCell'
    BY <1>3, <1>5 DEF n
  <2> QED
    BY <1>4, <2>1, <2>2
<1>7. ASSUME NEW i \in 1 .. TapeLen', NEW j \in 1 .. TapeLen', i < j
      PROVE  Before(Tape'[i], Tape'[j])
  <2>1. CASE j \in 1 .. TapeLen
    <3>1. i \in 1 .. TapeLen
      BY <1>1, <1>7, <2>1
    <3> QED
      BY <1>2, <1>7, <2>1, <3>1 DEF TapeOK
  <2>2. ASSUME NEW l \in 1 .. n, j = TapeLen + l PROVE Before(Tape'[i], Tape'[j])
    <3>1. CASE i \in 1 .. TapeLen
      BY <1>2, <1>3, <2>2, <3>1 DEF n
    <3>2. ASSUME NEW k \in 1 .. n, i = TapeLen + k PROVE Before(Tape'[i], Tape'[j])
      <4>1. k < l
        BY <1>1, <1>7, <2>2, <3>2
      <4> QED
        BY <1>3, <2>2, <3>2, <4>1 DEF n
    <3> QED
      BY <1>4, <3>1, <3>2
  <2> QED
    BY <1>4, <2>1, <2>2
<1>8. ASSUME NEW j \in 1 .. TapeLen', Tape'[j][2][1] # -1, NEW k \in 1 .. HeadLen
      PROVE  \E i \in 1 .. j : Tape'[i] = Cell(Tape'[j][1], HeadSlot(k))
  <2>1. CASE j \in 1 .. TapeLen
    <3>1. PICK i \in 1 .. j : Tape[i] = Cell(Tape[j][1], HeadSlot(k))
      BY <1>2, <1>8, <2>1 DEF TapeOK
    <3>2. i \in 1 .. TapeLen
      BY <1>1, <2>1
    <3> QED
      BY <1>2, <2>1, <3>1, <3>2
  <2>2. ASSUME NEW l \in 1 .. n, j = TapeLen + l
        PROVE  \E i \in 1 .. j : Tape'[i] = Cell(Tape'[j][1], HeadSlot(k))
    <3>1. Tape'[j] = new[l] /\ Tape'[j][1] = id /\ Headed(id)
      BY <1>3, <1>8, <2>2 DEF n
    <3>2. PICK i \in 1 .. TapeLen : Tape[i] = Cell(id, HeadSlot(k))
      BY <3>1 DEF Headed, OnTape
    <3>3. i \in 1 .. j
      BY <1>1, <2>2
    <3> QED
      BY <1>2, <3>1, <3>2, <3>3
  <2> QED
    BY <1>4, <2>1, <2>2
<1>9. TapeOK'
  BY <1>6, <1>7, <1>8 DEF TapeOK, Before
<1>10. OnTape' = OnTape \cup {new[k] : k \in 1 .. n}
  BY <1>2, <1>3, <1>4 DEF OnTape
<1> QED
  BY <1>9, <1>10 DEF n

(* What was offered is appended, to the buffer or to the stream.           *)
LEMMA Appended ==
    ASSUME Shaped, NEW new \in Seq(AllCells),
           \/ buf' = buf \o new /\ stream' = stream
           \/ stream' = stream \o new /\ buf' = buf /\ buf = <<>>
    PROVE  /\ TapeGrows(new)
           /\ stream' \in Seq(AllCells) /\ buf' \in Seq(AllCells)
           /\ Len(stream) <= Len(stream')
           /\ \A i \in 1 .. Len(stream) : stream'[i] = stream[i]
<1>1. /\ Len(stream) \in Nat /\ Len(buf) \in Nat /\ Len(new) \in Nat
      /\ TapeLen = Len(stream) + Len(buf)
      /\ stream \in Seq(AllCells) /\ buf \in Seq(AllCells)
  BY DEF Shaped, TapeLen
<1>2. TapeLen' = Len(stream') + Len(buf')
  BY DEF TapeLen
<1>3. CASE buf' = buf \o new /\ stream' = stream
  <2>1. Len(buf') = Len(buf) + Len(new) /\ TapeLen' = TapeLen + Len(new)
    BY <1>1, <1>2, <1>3
  <2>2. ASSUME NEW i \in 1 .. TapeLen PROVE Tape'[i] = Tape[i]
    <3>1. /\ i \in 1 .. TapeLen'
          /\ ~(i <= Len(stream)) => i - Len(stream) \in 1 .. Len(buf)
      BY <1>1, <2>1
    <3>2. \A k \in 1 .. Len(buf) : buf'[k] = buf[k]
      BY <1>1, <1>3
    <3>3. /\ Tape[i] = IF i <= Len(stream) THEN stream[i] ELSE buf[i - Len(stream)]
          /\ Tape'[i] = IF i <= Len(stream) THEN stream[i] ELSE buf'[i - Len(stream)]
      BY <1>3, <3>1 DEF Tape
    <3> QED
      BY <3>1, <3>2, <3>3
  <2>3. ASSUME NEW k \in 1 .. Len(new) PROVE Tape'[TapeLen + k] = new[k]
    <3>1. /\ TapeLen + k \in 1 .. TapeLen' /\ ~(TapeLen + k <= Len(stream))
          /\ (TapeLen + k) - Len(stream) = Len(buf) + k
      BY <1>1, <2>1
    <3>2. Tape'[TapeLen + k] = buf'[(TapeLen + k) - Len(stream)]
      <4>1. \A i \in 1 .. TapeLen' :
               Tape'[i] = IF i <= Len(stream) THEN stream[i] ELSE buf'[i - Len(stream)]
        BY <1>3 DEF Tape
      <4> QED
        BY <3>1, <4>1
    <3>3. (buf \o new)[Len(buf) + k] = new[k]
      BY <1>1
    <3> QED
      BY <1>3, <3>1, <3>2, <3>3
  <2> QED
    BY <1>1, <1>3, <2>1, <2>2, <2>3 DEF TapeGrows
<1>4. CASE stream' = stream \o new /\ buf' = buf /\ buf = <<>>
  <2>1. /\ Len(stream') = Len(stream) + Len(new) /\ TapeLen' = TapeLen + Len(new)
        /\ TapeLen = Len(stream)
    BY <1>1, <1>2, <1>4
  <2>2. ASSUME NEW i \in 1 .. TapeLen PROVE Tape'[i] = Tape[i]
    <3>1. i \in 1 .. TapeLen' /\ i <= Len(stream')
      BY <1>1, <2>1
    <3> QED
      BY <1>1, <1>4, <2>1, <3>1 DEF Tape
  <2>3. ASSUME NEW k \in 1 .. Len(new) PROVE Tape'[TapeLen + k] = new[k]
    <3>1. TapeLen + k \in 1 .. TapeLen' /\ TapeLen + k <= Len(stream')
      BY <1>1, <2>1
    <3>2. Tape'[TapeLen + k] = stream'[Len(stream) + k]
      BY <2>1, <3>1 DEF Tape
    <3> QED
      BY <1>1, <1>4, <3>2
  <2> QED
    BY <1>1, <1>4, <2>1, <2>2, <2>3 DEF TapeGrows
<1> QED
  BY <1>3, <1>4

(* To flush leaves the tape alone.                                         *)
LEMMA Flushed ==
    ASSUME Shaped, NEW n \in 1 .. Len(buf),
           stream' = stream \o SubSeq(buf, 1, n), buf' = SubSeq(buf, n + 1, Len(buf))
    PROVE  /\ TapeKept /\ TapeLen' = TapeLen
           /\ stream' \in Seq(AllCells) /\ buf' \in Seq(AllCells)
           /\ Len(stream) <= Len(stream')
           /\ \A i \in 1 .. Len(stream) : stream'[i] = stream[i]
<1>1. /\ Len(stream) \in Nat /\ Len(buf) \in Nat /\ n \in Nat
      /\ TapeLen = Len(stream) + Len(buf)
      /\ stream \in Seq(AllCells) /\ buf \in Seq(AllCells)
  BY DEF Shaped, TapeLen
<1> DEFINE front == SubSeq(buf, 1, n)
<1>2. /\ front \in Seq(AllCells) /\ Len(front) = n
      /\ \A i \in 1 .. n : front[i] = buf[i]
      /\ stream' = stream \o front
  BY <1>1
<1> HIDE DEF front
<1>3. /\ buf' \in Seq(AllCells) /\ Len(buf') = Len(buf) - n
      /\ \A i \in 1 .. Len(buf) - n : buf'[i] = buf[n + i]
  BY <1>1, SMTT(30)
<1>4. /\ stream' \in Seq(AllCells) /\ Len(stream') = Len(stream) + n
      /\ \A i \in 1 .. Len(stream) : stream'[i] = stream[i]
      /\ \A i \in 1 .. n : stream'[Len(stream) + i] = buf[i]
  BY <1>1, <1>2
<1>5. TapeLen' = TapeLen
  <2>1. TapeLen' = Len(stream') + Len(buf')
    BY DEF TapeLen
  <2> QED
    BY <1>1, <1>3, <1>4, <2>1
<1>6. ASSUME NEW i \in 1 .. TapeLen PROVE Tape'[i] = Tape[i]
  <2>1. Tape'[i] = IF i <= Len(stream') THEN stream'[i] ELSE buf'[i - Len(stream')]
    BY <1>5 DEF Tape
  <2>2. Tape[i] = IF i <= Len(stream) THEN stream[i] ELSE buf[i - Len(stream)]
    BY DEF Tape
  <2>3. CASE i <= Len(stream)
    BY <1>1, <1>4, <2>1, <2>2, <2>3
  <2>4. CASE i > Len(stream) /\ i <= Len(stream')
    <3> DEFINE k == i - Len(stream)
    <3>1. k \in 1 .. n /\ i = Len(stream) + k
      BY <1>1, <1>4, <2>4
    <3> QED
      BY <1>1, <1>4, <2>1, <2>2, <2>4, <3>1
  <2>5. CASE i > Len(stream')
    <3> DEFINE k == i - Len(stream')
    <3>1. k \in 1 .. Len(buf) - n /\ n + k = i - Len(stream) /\ ~(i <= Len(stream))
          /\ ~(i <= Len(stream'))
      BY <1>1, <1>4, <2>5
    <3> QED
      BY <1>3, <2>1, <2>2, <3>1
  <2> QED
    BY <1>1, <1>4, <2>3, <2>4, <2>5
<1>7. TapeKept
  BY <1>1, <1>5, <1>6 DEF TapeKept
<1> QED
  BY <1>1, <1>3, <1>4, <1>5, <1>7

(* What the writer offers comes after what is on the tape.                 *)
LEMMA OfferedCells ==
    ASSUME Shaped, TapeOK, WriterOK, w.pc \in {"head", "region"},
           NEW cells, cells = Write!Offered(w, sent[w.id])
    PROVE  /\ w.id \in DOMAIN sent /\ cells \in Seq(AllCells)
           /\ \A k \in 1 .. Len(cells) :
                 /\ cells[k] \in CellsOf(w.id) /\ cells[k][1] = w.id
                 /\ cells[k][2][1] # -1 => Headed(w.id)
                 /\ cells[k][2][1] =
                       IF w.pc = "head" THEN -1 ELSE GroupOf(sent[w.id].type, w.region)
           /\ \A k, l \in 1 .. Len(cells) : k < l => Before(cells[k], cells[l])
           /\ \A c \in OnTape : \A k \in 1 .. Len(cells) : Before(c, cells[k])
           /\ w.pc = "head" => /\ Len(cells) = HeadLen
                               /\ \A k \in 1 .. HeadLen : cells[k] = Cell(w.id, HeadSlot(k))
<1> DEFINE p == sent[w.id]
<1>1. w.id = Len(sent) /\ w.id # 0 /\ w \in WriterRec /\ sent \in Seq(Shapes)
  BY DEF WriterOK, Shaped, TypeOK
<1>2. w.id \in DOMAIN sent /\ w.id \in Nat /\ p \in Packets
  BY <1>1, ShapesAssumption
<1>3. \A c \in OnTape : c \in AllCells /\ c[1] <= w.id
  <2>1. \A c \in OnTape : c \in AnyCell /\ c \in AllCells
    BY TapeType DEF OnTape, TapeOK
  <2>2. \A c \in AnyCell : c[1] \in DOMAIN sent
    BY CellIsOf
  <2> QED
    BY <1>1, <2>1, <2>2
<1>4. CASE w.pc = "head"
  <2>1. cells = [i \in 1 .. 2 |-> <<w.id, <<-1, i>>>>]
    BY <1>4, SameLayout DEF Write!Offered, HeadCells, HeadLen, Cell, HeadSlot
  <2>2. cells \in Seq(AllCells) /\ Len(cells) = 2
    BY <1>2, <2>1 DEF AllCells
  <2>3. \A k \in 1 .. 2 : cells[k] = <<w.id, <<-1, k>>>>
    BY <2>1
  <2>4. \A k \in 1 .. 2 : cells[k] \in CellsOf(w.id)
    BY <2>3 DEF CellsOf, Cell, HeadSlot, HeadLen
  <2>5. \A k, l \in 1 .. 2 : k < l => Before(cells[k], cells[l])
    BY <2>3 DEF Before
  <2>6. \A c \in OnTape : c[1] < w.id
    BY <1>4 DEF WriterOK
  <2>7. \A k \in 1 .. 2 : /\ cells[k][1] = w.id /\ cells[k][2][1] = -1
                          /\ cells[k] = Cell(w.id, HeadSlot(k))
    BY <2>3 DEF Cell, HeadSlot
  <2>8. \A c \in OnTape : \A k \in 1 .. 2 : Before(c, cells[k])
    BY <2>6, <2>7 DEF Before
  <2> QED
    BY <1>2, <1>4, <2>2, <2>4, <2>5, <2>7, <2>8 DEF HeadLen
<1>5. CASE w.pc = "region"
  <2> DEFINE g == GroupOf(p.type, w.region)
             from == IF g = 0 THEN 0 ELSE 1
  <2>1. /\ cells = Regions(w.id, p)[w.region]
        /\ w.region \in 1 .. Len(Regions(w.id, p)) /\ Headed(w.id)
        /\ \A c \in OnTape : c[1] = w.id => c[2][1] < g
    BY <1>5, SameLayout DEF Write!Offered, WriterOK
  <2> HIDE DEF p
  <2>2. /\ cells \in Seq(AllCells) /\ g \in Nat
        /\ \A k \in 1 .. Len(cells) :
              /\ cells[k] = Cell(w.id, Slot(g, IF g = 0 THEN k ELSE k - 1))
              /\ cells[k][2] \in WireSlots(p.type, p.ver, p.counts)
    <3>1. \A r \in 1 .. Len(Regions(w.id, p)) :
             LET rs == Regions(w.id, p)[r]
                 gr == GroupOf(p.type, r)
             IN  /\ rs \in Seq(AllCells) /\ gr \in Nat
                 /\ \A k \in 1 .. Len(rs) :
                       /\ rs[k] = Cell(w.id, Slot(gr, IF gr = 0 THEN k ELSE k - 1))
                       /\ rs[k][2] \in WireSlots(p.type, p.ver, p.counts)
      BY <1>2, RegionsOf DEF p
    <3> QED
      BY <2>1, <3>1
  <2> HIDE DEF g
  <2>3. \A k \in 1 .. Len(cells) : cells[k] = <<w.id, <<g, k - from>>>>
    BY <2>2 DEF Cell, Slot
  <2>4. \A k \in 1 .. Len(cells) : cells[k] \in CellsOf(w.id)
    BY <2>2, <2>3 DEF CellsOf, Cell, p
  <2>5. \A k, l \in 1 .. Len(cells) : k < l => Before(cells[k], cells[l])
    BY <1>2, <2>2, <2>3 DEF Before
  <2>6. \A c \in OnTape : \A k \in 1 .. Len(cells) : Before(c, cells[k])
    <3>1. \A k \in 1 .. Len(cells) : cells[k][1] = w.id /\ cells[k][2][1] = g
      BY <2>3
    <3>2. \A c \in OnTape : c[1] \in Nat
      BY <1>3 DEF AllCells
    <3> QED
      BY <1>2, <1>3, <2>1, <3>1, <3>2 DEF Before
  <2> QED
    BY <1>2, <1>5, <2>1, <2>2, <2>3, <2>4, <2>5, <2>6 DEF p, g
<1> QED
  BY <1>4, <1>5

-----------------------------------------------------------------------------
(* The writer's steps.                                                     *)

StreamGrows == /\ Len(stream) <= Len(stream')
               /\ \A i \in 1 .. Len(stream) : stream'[i] = stream[i]

(* The tape gets cells of the latest packet, after all it has.             *)
TapeContinued ==
    \E new \in Seq(AllCells) :
        /\ TapeGrows(new) /\ UNCHANGED sent
        /\ \A k \in 1 .. Len(new) : new[k][1] = Len(sent)
        /\ \A c \in OnTape : \A k \in 1 .. Len(new) : Before(c, new[k])

LEMMA SameShaped ==
    ASSUME Shaped, UNCHANGED <<scene, readVars>>, SentGrows,
           stream' \in Seq(AllCells), buf' \in Seq(AllCells),
           scene.medium = "pipe" => buf' = <<>>,
           StreamGrows, UNCHANGED rpos, faults' \in 0 .. scene.faults
    PROVE  Shaped'
<1>1. TypeOK'
  BY DEF Shaped, TypeOK, CallOK, SentGrows, readVars
<1>2. rpos' \in 0 .. Len(stream')
  BY DEF Shaped, StreamGrows
<1> QED
  BY <1>1, <1>2 DEF Shaped

(* The first n cells of what was offered, none if n is -1.                 *)
LEMMA FirstCells ==
    ASSUME NEW cells \in Seq(AllCells), NEW n \in -1 .. Len(cells)
    PROVE  /\ SubSeq(cells, 1, n) \in Seq(AllCells)
           /\ Len(SubSeq(cells, 1, n)) = IF n < 0 THEN 0 ELSE n
           /\ \A k \in 1 .. Len(SubSeq(cells, 1, n)) :
                 k \in 1 .. Len(cells) /\ SubSeq(cells, 1, n)[k] = cells[k]
<1>1. CASE n = -1
  BY <1>1
<1>2. CASE n \in 0 .. Len(cells)
  BY <1>2
<1> QED
  BY <1>1, <1>2

(* The records a writer becomes.                                           *)
LEMMA RecOf ==
    ASSUME NEW u, u = [x \in {"pc", "id", "region", "nwr", "counter", "bytes", "ret"} |-> u[x]],
           u.pc \in {"idle", "head", "region", "done"}, u.id \in Nat, u.region \in Nat,
           u.nwr \in Int, u.counter \in Nat, u.bytes \in Nat, u.ret \in Int
    PROVE  u \in WriterRec
BY DEF WriterRec

LEMMA ReturnRec ==
    ASSUME NEW v \in WriterRec, NEW ret \in Int, NEW u, u = Write!Return(v, ret)
    PROVE  /\ u \in WriterRec /\ u.pc = "idle" /\ u.id = 0
           /\ u.counter = v.counter /\ u.bytes = v.bytes
<1>1. /\ u.pc = "idle" /\ u.id = 0 /\ u.region = 0 /\ u.nwr = 0
      /\ u.counter = v.counter /\ u.bytes = v.bytes /\ u.ret = ret
  BY DEF WriterRec, Write!Return
<1>2. u = [x \in {"pc", "id", "region", "nwr", "counter", "bytes", "ret"} |-> u[x]]
  BY DEF WriterRec, Write!Return
<1>3. v.counter \in Nat /\ v.bytes \in Nat
  BY DEF WriterRec
<1> QED
  BY <1>1, <1>2, <1>3, RecOf

LEMMA HeadRec ==
    ASSUME NEW v \in WriterRec, NEW u, u = [v EXCEPT !.pc = "region", !.bytes = @ + 2]
    PROVE  /\ u \in WriterRec /\ u.pc = "region" /\ u.id = v.id
           /\ u.region = v.region /\ u.nwr = v.nwr
           /\ u.counter = v.counter /\ u.bytes = v.bytes + 2
<1>1. /\ u.pc = "region" /\ u.id = v.id /\ u.region = v.region /\ u.nwr = v.nwr
      /\ u.counter = v.counter /\ u.bytes = v.bytes + 2 /\ u.ret = v.ret
  BY DEF WriterRec
<1>2. u = [x \in {"pc", "id", "region", "nwr", "counter", "bytes", "ret"} |-> u[x]]
  BY DEF WriterRec
<1>3. /\ v.id \in Nat /\ v.region \in Nat /\ v.nwr \in Int /\ v.counter \in Nat
      /\ v.bytes + 2 \in Nat /\ v.ret \in Int
  BY DEF WriterRec
<1> QED
  BY <1>1, <1>2, <1>3, RecOf

LEMMA RegionRec ==
    ASSUME NEW v \in WriterRec, NEW n \in Int, v.pc = "region",
           NEW u, u = [v EXCEPT !.nwr = @ + n, !.region = @ + 1]
    PROVE  /\ u \in WriterRec /\ u.pc = "region" /\ u.id = v.id
           /\ u.nwr = v.nwr + n /\ u.region = v.region + 1
           /\ u.counter = v.counter /\ u.bytes = v.bytes
<1>1. /\ u.pc = "region" /\ u.id = v.id /\ u.nwr = v.nwr + n
      /\ u.region = v.region + 1
      /\ u.counter = v.counter /\ u.bytes = v.bytes /\ u.ret = v.ret
  BY DEF WriterRec
<1>2. u = [x \in {"pc", "id", "region", "nwr", "counter", "bytes", "ret"} |-> u[x]]
  BY DEF WriterRec
<1>3. /\ v.id \in Nat /\ v.region + 1 \in Nat /\ v.nwr + n \in Int
      /\ v.counter \in Nat /\ v.bytes \in Nat /\ v.ret \in Int
  BY DEF WriterRec
<1> QED
  BY <1>1, <1>2, <1>3, RecOf

LEMMA DoneRec ==
    ASSUME NEW v \in WriterRec, NEW n \in Int,
           NEW u, u = [v EXCEPT !.nwr = @ + n, !.pc = "done"]
    PROVE  /\ u \in WriterRec /\ u.pc = "done" /\ u.id = v.id
           /\ u.nwr = v.nwr + n
           /\ u.counter = v.counter /\ u.bytes = v.bytes
<1>1. /\ u.pc = "done" /\ u.id = v.id /\ u.nwr = v.nwr + n
      /\ u.region = v.region
      /\ u.counter = v.counter /\ u.bytes = v.bytes /\ u.ret = v.ret
  BY DEF WriterRec
<1>2. u = [x \in {"pc", "id", "region", "nwr", "counter", "bytes", "ret"} |-> u[x]]
  BY DEF WriterRec
<1>3. /\ v.id \in Nat /\ v.region \in Nat /\ v.nwr + n \in Int
      /\ v.counter \in Nat /\ v.bytes \in Nat /\ v.ret \in Int
  BY DEF WriterRec
<1> QED
  BY <1>1, <1>2, <1>3, RecOf

(* write_bytes returned.                                                   *)
LEMMA AcceptOK ==
    ASSUME Shaped, TapeOK, WriterOK, w.pc \in {"head", "region"},
           UNCHANGED <<scene, readVars, sent, rpos>>, faults' \in 0 .. scene.faults,
           NEW n \in -1 .. Len(Write!Offered(w, sent[w.id])), Accept(n)
    PROVE  Shaped' /\ TapeOK' /\ WriterOK' /\ StreamGrows /\ TapeContinued
<1> DEFINE cells == Write!Offered(w, sent[w.id])
           new   == SubSeq(cells, 1, n)
           id    == w.id
           t     == sent[w.id].type
<1>0. SentGrows /\ w \in WriterRec /\ id = Len(sent)
  BY DEF SentGrows, Shaped, TypeOK, WriterOK
<1>1. /\ id \in DOMAIN sent /\ cells \in Seq(AllCells)
      /\ \A k \in 1 .. Len(cells) :
            /\ cells[k] \in CellsOf(id) /\ cells[k][1] = id
            /\ cells[k][2][1] # -1 => Headed(id)
            /\ cells[k][2][1] = IF w.pc = "head" THEN -1 ELSE GroupOf(t, w.region)
      /\ \A k, l \in 1 .. Len(cells) : k < l => Before(cells[k], cells[l])
      /\ \A c \in OnTape : \A k \in 1 .. Len(cells) : Before(c, cells[k])
      /\ w.pc = "head" => /\ Len(cells) = HeadLen
                          /\ \A k \in 1 .. HeadLen : cells[k] = Cell(id, HeadSlot(k))
  BY OfferedCells
<1>2. /\ w' = IF w.pc = "head" THEN Write!HeadWritten(w, n)
              ELSE Write!RegionWritten(w, n, Len(Regions(id, sent[id])))
      /\ \/ buf' = buf \o new /\ stream' = stream /\ scene.medium # "pipe"
         \/ stream' = stream \o new /\ buf' = buf /\ scene.medium = "pipe"
  BY StreamAssumption DEF Accept, Shaped
<1>n. n \in Int /\ -1 \in Int
  BY <1>1
<1> HIDE DEF cells
<1>3. /\ new \in Seq(AllCells) /\ Len(new) = IF n < 0 THEN 0 ELSE n
      /\ \A k \in 1 .. Len(new) : k \in 1 .. Len(cells) /\ new[k] = cells[k]
  BY <1>1, FirstCells DEF cells
<1> HIDE DEF new
<1>4. /\ TapeGrows(new) /\ StreamGrows
      /\ stream' \in Seq(AllCells) /\ buf' \in Seq(AllCells)
  <2>1. scene.medium = "pipe" => buf = <<>>
    BY DEF Shaped
  <2> QED
    BY <1>2, <1>3, <2>1, Appended DEF StreamGrows
<1>5. Shaped'
  <2>1. scene.medium = "pipe" => buf' = <<>>
    BY <1>2 DEF Shaped
  <2> QED
    BY <1>0, <1>4, <2>1, SameShaped
<1>6. /\ \A k \in 1 .. Len(new) : /\ new[k] \in CellsOf(id) /\ new[k][1] = id
                                  /\ new[k][2][1] # -1 => Headed(id)
      /\ \A k, l \in 1 .. Len(new) : k < l => Before(new[k], new[l])
      /\ \A c \in OnTape : \A k \in 1 .. Len(new) : Before(c, new[k])
  BY <1>1, <1>3, SMTT(30)
<1>7. TapeOK' /\ OnTape' = OnTape \cup {new[k] : k \in 1 .. Len(new)}
  BY <1>1, <1>3, <1>4, <1>6, TapeGrowsOK
<1>8. TapeContinued
  BY <1>0, <1>3, <1>4, <1>6 DEF TapeContinued
<1>9. WriterOK'
  <2>1. CASE w.pc = "head" /\ n # HeadLen
    <3>1. w' = Write!Return(w, -1)
      BY <1>2, <2>1, SameLayout DEF Write!HeadWritten
    <3>2. w' \in WriterRec /\ w'.pc = "idle" /\ w'.id = 0
      BY <1>0, <1>n, <3>1, ReturnRec
    <3> QED
      BY <3>2 DEF WriterOK
  <2>2. CASE w.pc = "head" /\ n = HeadLen
    <3>1. w' = [w EXCEPT !.pc = "region", !.bytes = @ + 2]
      BY <1>2, <2>2, SameLayout DEF Write!HeadWritten, HeadLen
    <3>2. /\ w' \in WriterRec /\ w'.pc = "region" /\ w'.id = id
          /\ w'.region = 1 /\ w'.nwr = 0
      <4>1. w.region = 1 /\ w.nwr = 0
        BY <2>2 DEF WriterOK
      <4> QED
        BY <1>0, <3>1, <4>1, HeadRec
    <3>3. 1 \in 1 .. Len(Regions(id, sent[id])) /\ GroupOf(t, 1) >= 0
      <4>1. id \in Nat /\ sent[id] \in Packets
        BY <1>0, <1>1, SentTypes DEF Shaped
      <4>2. /\ Len(Regions(id, sent[id])) \in Nat
            /\ Len(Regions(id, sent[id])) >= 1
        BY <4>1, RegionsOf
      <4>3. GroupOf(t, 1) \in {0, 1}
        BY DEF GroupOf
      <4> HIDE DEF id, t
      <4>4. 1 \in 1 .. Len(Regions(id, sent[id]))
        BY <4>2
      <4> QED
        BY <4>3, <4>4
    <3>4. \A k \in 1 .. HeadLen : new[k] = Cell(id, HeadSlot(k)) /\ k \in 1 .. Len(new)
      BY <1>1, <1>3, <2>2 DEF HeadLen
    <3>5. \A k \in 1 .. HeadLen : Cell(id, HeadSlot(k)) \in OnTape'
      BY <1>7, <3>4
    <3>6. ASSUME NEW c \in OnTape', c[1] = id PROVE c[2][1] < GroupOf(t, 1)
      <4>1. CASE c \in OnTape
        BY <1>0, <2>2, <3>6, <4>1 DEF WriterOK, WriterRec
      <4>2. CASE c \in {new[k] : k \in 1 .. Len(new)}
        <5>1. c[2][1] = -1
          BY <1>1, <1>3, <2>2, <4>2
        <5>2. GroupOf(t, 1) \in {0, 1}
          BY DEF GroupOf
        <5> QED
          BY <5>1, <5>2
      <4> QED
        BY <1>7, <4>1, <4>2
    <3> QED
      BY <1>0, <1>1, <3>2, <3>3, <3>5, <3>6 DEF WriterOK, Headed
  <2> DEFINE regions == Len(Regions(id, sent[id]))
  <2>3. CASE w.pc = "region" /\ w.region < regions
    <3>1. w' = [w EXCEPT !.nwr = @ + n, !.region = @ + 1]
      BY <1>2, <2>3 DEF Write!RegionWritten
    <3>2. /\ w' \in WriterRec /\ w'.pc = "region" /\ w'.id = id
          /\ w'.region = w.region + 1
      BY <1>0, <1>n, <2>3, <3>1, RegionRec, ZenonT(30)
    <3>3. w.region + 1 \in 1 .. regions /\ w.region \in Nat
      <4>1. id \in Nat /\ sent[id] \in Packets
        BY <1>0, <1>1, SentTypes DEF Shaped
      <4>2. regions \in Nat
        BY <4>1, RegionsOf
      <4> QED
        BY <1>0, <2>3, <4>2 DEF WriterRec
    <3>4. Headed(id) /\ \A k \in 1 .. HeadLen : Cell(id, HeadSlot(k)) \in OnTape'
      BY <1>7, <2>3 DEF WriterOK, Headed
    <3>5. ASSUME NEW c \in OnTape', c[1] = id
          PROVE  c[2][1] < GroupOf(t, w.region + 1)
      <4>1. GroupOf(t, w.region + 1) = GroupOf(t, w.region) + 1
            /\ GroupOf(t, w.region) \in Int
        BY <3>3 DEF GroupOf
      <4>2. CASE c \in OnTape
        <5>1. c[2][1] < GroupOf(t, w.region)
          BY <2>3, <3>5, <4>2 DEF WriterOK
        <5>2. c[2][1] \in Int
          BY <4>2, TapeType DEF OnTape, AllCells
        <5> QED
          BY <4>1, <5>1, <5>2
      <4>3. CASE c \in {new[k] : k \in 1 .. Len(new)}
        <5>1. c[2][1] = GroupOf(t, w.region)
          BY <1>1, <1>3, <2>3, <4>3
        <5> QED
          BY <4>1, <5>1
      <4> QED
        BY <1>7, <4>2, <4>3
    <3> QED
      BY <1>0, <1>1, <3>2, <3>3, <3>4, <3>5 DEF WriterOK, Headed
  <2>4. CASE w.pc = "region" /\ ~(w.region < regions) /\ w.nwr + n < 0
    <3>1. w' = Write!Return(w, w.nwr + n)
      BY <1>2, <2>4 DEF Write!RegionWritten
    <3>2. w.nwr + n \in Int
      BY <1>0, <1>n DEF WriterRec
    <3>3. w' \in WriterRec /\ w'.pc = "idle" /\ w'.id = 0
      BY <1>0, <3>1, <3>2, ReturnRec
    <3> QED
      BY <3>3 DEF WriterOK
  <2>5. CASE w.pc = "region" /\ ~(w.region < regions) /\ ~(w.nwr + n < 0)
    <3>1. w' = [w EXCEPT !.nwr = @ + n, !.pc = "done"]
      BY <1>2, <2>5 DEF Write!RegionWritten
    <3>2. w.nwr + n \in Int /\ w.nwr + n >= 0
      BY <1>0, <1>n, <2>5 DEF WriterRec
    <3>3. /\ w' \in WriterRec /\ w'.pc = "done" /\ w'.id = id
          /\ w'.nwr = w.nwr + n
      <4>1. w \in WriterRec /\ n \in Int
        BY <1>0, <1>n
      <4>2. /\ w' \in WriterRec /\ w'.pc = "done" /\ w'.id = w.id
            /\ w'.nwr = w.nwr + n
        BY <3>1, <4>1, DoneRec, ZenonT(30)
      <4> QED
        BY <4>2
    <3>4. id # 0
      BY <2>5 DEF WriterOK
    <3> QED
      BY <1>0, <3>2, <3>3, <3>4 DEF WriterOK
  <2> QED
    BY <2>1, <2>2, <2>3, <2>4, <2>5
<1> QED
  BY <1>4, <1>5, <1>7, <1>8, <1>9

(* An identifier on the tape is that of a packet.                          *)
LEMMA IdOnTape ==
    ASSUME Shaped, TapeOK, NEW c \in OnTape
    PROVE  c \in AnyCell /\ c \in AllCells /\ c[1] \in 1 .. Len(sent) /\ c[2][1] \in Int
<1>1. c \in AnyCell /\ c \in AllCells
  BY TapeType DEF OnTape, TapeOK
<1>2. c[1] \in DOMAIN sent
  BY <1>1, CellIsOf
<1> QED
  BY <1>1, <1>2, SMTT(30) DEF Shaped, TypeOK, AllCells

LEMMA StartOK ==
    ASSUME Shaped, TapeOK, WriterOK, UNCHANGED scene, NEW p \in Shapes, StartWrite(p)
    PROVE  Shaped' /\ TapeOK' /\ WriterOK' /\ StreamGrows /\ SentGrows /\ TapeKept
<1>1. /\ sent \in Seq(Shapes) /\ sent' = Append(sent, p) /\ w \in WriterRec
      /\ w' = [w EXCEPT !.pc = "head", !.id = Len(sent) + 1, !.region = 1, !.nwr = 0]
      /\ UNCHANGED <<scene, readVars, buf, stream, rpos, faults>>
  BY DEF StartWrite, Write!Begin, Shaped, TypeOK, WriterOK
<1>2. /\ sent' \in Seq(Shapes) /\ Len(sent') = Len(sent) + 1 /\ Len(sent) \in Nat
      /\ \A id \in 1 .. Len(sent) : sent'[id] = sent[id]
  BY <1>1
<1>3. SentGrows
  BY <1>1, <1>2 DEF SentGrows
<1>4. StreamGrows /\ TapeKept /\ Tape' = Tape /\ TapeLen' = TapeLen
  BY <1>1, TapeType DEF StreamGrows, TapeKept, Tape, TapeLen
<1>5. Shaped'
  BY <1>1, <1>3, <1>4, SameShaped DEF Shaped
<1>6. TapeOK' /\ OnTape' \subseteq OnTape
  BY <1>3, <1>4, TapeKeptOK
<1>7. /\ w' \in WriterRec /\ w'.pc = "head" /\ w'.id = Len(sent) + 1
      /\ w'.region = 1 /\ w'.nwr = 0
  <2>1. /\ w'.pc = "head" /\ w'.id = Len(sent) + 1 /\ w'.region = 1 /\ w'.nwr = 0
        /\ w'.counter = w.counter /\ w'.bytes = w.bytes /\ w'.ret = w.ret
    BY <1>1 DEF WriterRec
  <2>2. w' = [x \in {"pc", "id", "region", "nwr", "counter", "bytes", "ret"} |-> w'[x]]
    BY <1>1 DEF WriterRec
  <2>3. w.counter \in Nat /\ w.bytes \in Nat /\ w.ret \in Int
    BY <1>1 DEF WriterRec
  <2> QED
    BY <1>2, <2>1, <2>2, <2>3, RecOf
<1>8. \A c \in OnTape' : c[1] < Len(sent) + 1
  BY <1>2, <1>6, IdOnTape
<1>9. WriterOK'
  BY <1>2, <1>7, <1>8 DEF WriterOK
<1> QED
  BY <1>3, <1>4, <1>5, <1>6, <1>9

LEMMA FinishOK ==
    ASSUME Shaped, TapeOK, WriterOK, UNCHANGED scene, FinishWrite
    PROVE  Shaped' /\ TapeOK' /\ WriterOK' /\ StreamGrows /\ SentGrows /\ TapeKept
<1>1. /\ w \in WriterRec /\ w.nwr \in Nat
      /\ UNCHANGED <<scene, readVars, sent, buf, stream, rpos, faults>>
  BY DEF FinishWrite, WriterOK, WriterRec
<1>2. SentGrows /\ StreamGrows /\ TapeKept
  BY <1>1, TapeType DEF SentGrows, StreamGrows, TapeKept, Tape, TapeLen, Shaped, TypeOK
<1>3. Shaped'
  BY <1>1, <1>2, SameShaped DEF Shaped
<1>4. TapeOK'
  BY <1>2, TapeKeptOK
<1>5. w' \in WriterRec /\ w'.pc = "idle" /\ w'.id = 0
  <2> DEFINE u == Write!Return(w, HeadLen + w.nwr)
  <2>1. HeadLen + w.nwr \in Int
    BY <1>1 DEF HeadLen
  <2>2. u \in WriterRec /\ u.pc = "idle" /\ u.id = 0
    BY <1>1, <2>1, ReturnRec
  <2>3. w' = [u EXCEPT !.bytes = @ + w.nwr, !.counter = @ + 1]
    BY SameLayout DEF FinishWrite, Write!Done
  <2> HIDE DEF u
  <2>4. /\ w'.pc = "idle" /\ w'.id = 0 /\ w'.region = u.region /\ w'.nwr = u.nwr
        /\ w'.counter = u.counter + 1 /\ w'.bytes = u.bytes + w.nwr /\ w'.ret = u.ret
    BY <2>2, <2>3 DEF WriterRec
  <2>5. w' = [x \in {"pc", "id", "region", "nwr", "counter", "bytes", "ret"} |-> w'[x]]
    BY <2>2, <2>3 DEF WriterRec
  <2>6. /\ u.region \in Nat /\ u.nwr \in Int /\ u.counter + 1 \in Nat
        /\ u.bytes + w.nwr \in Nat /\ u.ret \in Int
    BY <1>1, <2>2 DEF WriterRec
  <2> QED
    BY <2>4, <2>5, <2>6, RecOf
<1> QED
  BY <1>2, <1>3, <1>4, <1>5 DEF WriterOK

LEMMA FlushOK ==
    ASSUME Shaped, TapeOK, WriterOK, UNCHANGED scene, Flush
    PROVE  Shaped' /\ TapeOK' /\ WriterOK' /\ StreamGrows /\ SentGrows /\ TapeKept
<1>1. PICK n \in 1 .. Len(buf) :
         stream' = stream \o SubSeq(buf, 1, n) /\ buf' = SubSeq(buf, n + 1, Len(buf))
  BY DEF Flush
<1>2. UNCHANGED <<scene, readVars, sent, w, rpos, faults>> /\ buf # <<>>
  BY DEF Flush
<1>3. /\ TapeKept /\ StreamGrows /\ SentGrows
      /\ stream' \in Seq(AllCells) /\ buf' \in Seq(AllCells)
  BY <1>1, <1>2, Flushed DEF StreamGrows, SentGrows, Shaped, TypeOK
<1>4. Shaped'
  BY <1>2, <1>3, SameShaped DEF Shaped
<1>5. TapeOK' /\ OnTape' = OnTape
  <2>1. TapeOK' /\ OnTape' \subseteq OnTape
    BY <1>3, TapeKeptOK
  <2>2. TapeLen' = TapeLen
    BY <1>1, Flushed
  <2> QED
    BY <1>3, <2>1, <2>2 DEF TapeKept, OnTape
<1>6. WriterOK'
  BY <1>2, <1>5 DEF WriterOK, Headed
<1> QED
  BY <1>3, <1>4, <1>5, <1>6

LEMMA CrashOK ==
    ASSUME Shaped, TapeOK, WriterOK, UNCHANGED scene, Crash
    PROVE  Shaped' /\ TapeOK' /\ WriterOK' /\ StreamGrows /\ SentGrows /\ TapeKept
<1>1. /\ buf' = <<>> /\ faults' = faults + 1 /\ faults < scene.faults
      /\ UNCHANGED <<scene, readVars, sent, stream, rpos>>
  BY DEF Crash
<1>2. SentGrows /\ StreamGrows
  BY <1>1 DEF SentGrows, StreamGrows, Shaped, TypeOK
<1>3. TapeKept
  <2>1. TapeLen' = Len(stream) /\ TapeLen' \in 0 .. TapeLen
    BY <1>1, TapeType DEF TapeLen
  <2> QED
    BY <1>1, <2>1, TapeType DEF TapeKept, Tape
<1>4. faults' \in 0 .. scene.faults
  BY <1>1, StreamAssumption DEF Shaped
<1>5. Shaped'
  BY <1>1, <1>2, <1>4, SameShaped DEF Shaped
<1>6. TapeOK'
  BY <1>2, <1>3, TapeKeptOK
<1>7. w' = [pc |-> "idle", id |-> 0, region |-> 0, nwr |-> 0,
            counter |-> 0, bytes |-> 0, ret |-> 0]
  BY DEF Crash, Write!FreshWriter
<1>8. w' \in WriterRec /\ w'.pc = "idle" /\ w'.id = 0
  BY <1>7 DEF WriterRec
<1> QED
  BY <1>2, <1>3, <1>5, <1>6, <1>8 DEF WriterOK

Writes == \/ \E p \in Shapes : StartWrite(p)
          \/ WriteBytes \/ WriteShort \/ FinishWrite \/ Flush \/ Crash

(* Whatever the writing process does.                                      *)
LEMMA WritesOK ==
    ASSUME Shaped, TapeOK, WriterOK, UNCHANGED scene, Writes
    PROVE  /\ Shaped' /\ TapeOK' /\ WriterOK' /\ StreamGrows /\ SentGrows
           /\ TapeKept \/ TapeContinued
           /\ UNCHANGED <<readVars, rpos>>
<1>1. CASE WriteBytes
  <2>1. Len(Write!Offered(w, sent[w.id])) \in -1 .. Len(Write!Offered(w, sent[w.id]))
    <3>1. Write!Offered(w, sent[w.id]) \in Seq(AllCells)
      BY <1>1, OfferedCells DEF WriteBytes
    <3> QED
      BY <3>1
  <2> QED
    BY <1>1, <2>1, AcceptOK DEF WriteBytes, SentGrows, Shaped, TypeOK
<1>2. CASE WriteShort
  <2>1. Write!Offered(w, sent[w.id]) \in Seq(AllCells)
    BY <1>2, OfferedCells DEF WriteShort
  <2>2. PICK n \in -1 .. Len(Write!Offered(w, sent[w.id])) - 1 : Accept(n)
    BY <1>2 DEF WriteShort
  <2>3. n \in -1 .. Len(Write!Offered(w, sent[w.id]))
    BY <2>1
  <2>4. faults' \in 0 .. scene.faults
    BY <1>2, StreamAssumption DEF WriteShort, Shaped
  <2> QED
    BY <1>2, <2>2, <2>3, <2>4, AcceptOK DEF WriteShort, SentGrows, Shaped, TypeOK
<1>3. UNCHANGED <<readVars, rpos>>
  BY DEF Writes, StartWrite, WriteBytes, WriteShort, FinishWrite, Flush, Crash
<1> QED
  BY <1>1, <1>2, <1>3, StartOK, FinishOK, FlushOK, CrashOK DEF Writes

-----------------------------------------------------------------------------
(* What the reader has got, as the writer goes on.                         *)

(* Cells that come one after the other are two.                            *)
LEMMA NotBefore == ASSUME NEW c \in AllCells PROVE ~Before(c, c)
BY DEF Before, AllCells

(* What arrived lies on the tape.                                          *)
LEMMA ArrivedOnTape ==
    ASSUME Shaped
    PROVE  /\ rpos \in Nat /\ rpos <= Len(stream) /\ rpos <= TapeLen
           /\ \A i \in 1 .. rpos : stream[i] = Tape[i] /\ i \in 1 .. TapeLen
           /\ Arrived \subseteq OnTape
<1>1. TapeLen \in Nat /\ Len(stream) \in Nat /\ Len(buf) \in Nat
  BY TapeType
<1>2. rpos \in Nat /\ rpos <= Len(stream) /\ rpos <= TapeLen
  BY <1>1 DEF Shaped, TapeLen
<1>3. \A i \in 1 .. rpos : stream[i] = Tape[i] /\ i \in 1 .. TapeLen
  BY <1>1, <1>2, TapeType
<1> QED
  BY <1>2, <1>3 DEF Arrived, OnTape

(* As long as nothing is returned, what comes later stays the same.        *)
LEMMA LaterSame ==
    ASSUME SentGrows, UNCHANGED out, Returned \subseteq DOMAIN sent
    PROVE  Later' = Later /\ Returned' = Returned
<1>1. Returned' = Returned
  BY DEF Returned
<1>2. \A id \in Returned : WireCells(id)' = WireCells(id)
  BY AnyCellGrows
<1> QED
  BY <1>1, <1>2 DEF Later

LEMMA WritesReaderOK ==
    ASSUME Shaped, TapeOK, WriterOK, ReaderOK, PlaceOK, UNCHANGED scene, Writes
    PROVE  ReaderOK' /\ PlaceOK'
<1>1. /\ StreamGrows /\ SentGrows
      /\ TapeKept \/ TapeContinued
      /\ UNCHANGED <<readVars, rpos>>
  BY WritesOK
<1>2. Later' = Later /\ Returned' = Returned
  BY <1>1, LaterSame DEF ReaderOK, readVars
<1>3. Arrived' = Arrived
  BY <1>1, ArrivedOnTape DEF Arrived, StreamGrows
<1>4. News' = News
  BY <1>2, <1>3 DEF News
<1>5. PlaceOK'
  BY <1>1, <1>4 DEF PlaceOK, readVars, HasPrefix, HasGroups, Whole, WireSlotsRead
<1>6. ASSUME NEW i \in rpos' + 1 .. TapeLen' PROVE Tape'[i] \in Later
  <2>0. rpos \in Nat /\ TapeLen \in Nat /\ rpos' = rpos
    BY <1>1, TapeType, ArrivedOnTape
  <2>1. CASE i \in rpos + 1 .. TapeLen
    <3>1. Tape[i] \in Later
      BY <2>1 DEF ReaderOK
    <3>2. Tape'[i] = Tape[i]
      <4>1. CASE TapeKept
        BY <1>6, <2>0, <4>1 DEF TapeKept
      <4>2. CASE TapeContinued
        BY <2>0, <2>1, <4>2 DEF TapeContinued, TapeGrows
      <4> QED
        BY <1>1, <4>1, <4>2
    <3> QED
      BY <3>1, <3>2
  <2>2. CASE ~(i \in rpos + 1 .. TapeLen)
    <3>1. TapeContinued
      BY <1>1, <1>6, <2>0, <2>2 DEF TapeKept
    <3>2. PICK new \in Seq(AllCells) :
             /\ TapeGrows(new)
             /\ \A k \in 1 .. Len(new) : new[k][1] = Len(sent)
             /\ \A c \in OnTape : \A k \in 1 .. Len(new) : Before(c, new[k])
      BY <3>1 DEF TapeContinued
    <3> DEFINE k == i - TapeLen
    <3>3. k \in 1 .. Len(new) /\ i = TapeLen + k
      BY <1>6, <2>0, <2>2, <3>2 DEF TapeGrows
    <3> HIDE DEF k
    <3>4. Tape'[i] = new[k] /\ new[k] \in AllCells /\ new[k][1] = Len(sent)
      BY <3>2, <3>3 DEF TapeGrows
    <3>5. ASSUME NEW id \in Returned PROVE id <= Len(sent) /\ new[k] \notin WireCells(id)
      <4>1. id \in DOMAIN sent /\ WireCells(id) \subseteq OnTape
        BY ArrivedOnTape DEF ReaderOK
      <4>2. id <= Len(sent)
        BY <4>1 DEF Shaped, TypeOK
      <4> QED
        BY <3>2, <3>3, <3>4, <4>1, <4>2, NotBefore
    <3> QED
      BY <3>4, <3>5 DEF Later
  <2> QED
    BY <2>1, <2>2
<1>7. \A id \in Returned : WireCells(id)' = WireCells(id)
  BY <1>1, AnyCellGrows DEF ReaderOK
<1>8. ReaderOK'
  BY <1>1, <1>2, <1>3, <1>6, <1>7 DEF ReaderOK, readVars, SentGrows
<1> QED
  BY <1>5, <1>8

-----------------------------------------------------------------------------
(* The payload readers.                                                    *)

(* The result of a read_bytes of this reader: no more than was asked for,  *)
(* and cells that come after all that was returned.                        *)
Fed(res) ==
    /\ res \in Results
    /\ Len(res.cells) <= Wanted
    /\ res.err => Len(res.cells) = 0
    /\ News \subseteq News'
    /\ \A k \in 1 .. Len(res.cells) : res.cells[k] \in News'

(* A simple packet has arrived whole if its length is that of its prefix.   *)
LEMMA SimplePlace ==
    ASSUME TypeOK, PlaceOK, NEW res, Fed(res), SimpleRead(res)
    PROVE  PlaceOK'
<1> DEFINE P   == Prefix(call.type, h.hdr.ver)
           mem == Copied(pkt.mem, 1, res.cells)
<1>0. call.pc = "simple" /\ call.nrd = 0 /\ call.pc \in PayloadPcs
  BY DEF SimpleRead, WantsPayload, PlaceOK, PayloadPcs, ReadPcs, HeaderPcs
<1>1. /\ call.type \in Types /\ h.hdr.ver \in Nat /\ call.counts \in [Groups -> Nat]
      /\ Codec[call.type] = "simple"
  BY <1>0, PayloadCall DEF TypeOK, CallOK
<1>2. /\ call' = [call EXCEPT !.pc = "check", !.nrd = @ + Count(res)]
      /\ pkt' = [pkt EXCEPT !.mem = Cleared(mem, P + 1)]
      /\ h' = [h EXCEPT !.head = @ \/ res.mark]
  BY DEF SimpleRead, GoOn, Marked
<1>3. /\ call'.pc = "check" /\ call'.type = call.type /\ call'.counts = call.counts
      /\ call'.nrd = Count(res) /\ h'.hdr = h.hdr
      /\ pkt'.mem = Cleared(mem, P + 1)
  <2>1. Count(res) \in Int
    BY DEF Count, Fed, Results
  <2> QED
    BY <1>0, <1>2, <2>1, PayloadCall DEF Calls, Handles, Buffers
<1>4. P \in Nat /\ P <= MemSize /\ MemSize \in Nat
  BY <1>1, PrefixPlace, ReadAssumption
<1>5. /\ WireSlotsRead' = {Slot(0, i) : i \in 1 .. P}
      /\ Cardinality(WireSlotsRead') = P
  BY <1>1, <1>3, PlainSlots DEF WireSlotsRead
<1> HIDE DEF P, mem
<1>6. ASSUME Whole' PROVE Len(res.cells) = P
  BY <1>1, <1>3, <1>4, <1>5, <1>6 DEF Whole, Count
<1>7. ASSUME Whole', NEW i \in 1 .. P PROVE pkt'.mem[i] \in News'
  <2>1. mem[i] = res.cells[i] /\ i \in 1 .. MemSize /\ i \in 1 .. Len(res.cells)
    <3>1. i \in 1 .. Len(res.cells) /\ i \in 1 .. MemSize /\ i + 1 = 1 + i
      BY <1>4, <1>6, <1>7
    <3>2. res.cells \in Seq(AllCells)
      BY DEF Fed, Results
    <3>3. Written(mem, pkt.mem, 1, res.cells)
      BY <3>2, CopiedAt DEF mem
    <3>4. mem[i] = res.cells[i]
      BY <3>1, <3>3 DEF Written
    <3> QED
      BY <3>1, <3>4
  <2>2. Cleared(mem, P + 1)[i] = mem[i]
    BY <1>4, <2>1 DEF Cleared
  <2> QED
    BY <1>3, <2>1, <2>2 DEF Fed
<1>8. ASSUME NEW a \in 1 .. MemSize, a > P PROVE pkt'.mem[a] = Zero
  BY <1>3, <1>4, <1>8 DEF Cleared
<1>9. \A i : AddrOf(call'.type, Slot(0, i)) = i
  BY DEF AddrOf, Slot
<1>10. ASSUME Whole', NEW s \in WireSlotsRead'
       PROVE  pkt'.mem[AddrOf(call'.type, s)] \in News'
  BY <1>5, <1>7, <1>9, <1>10
<1> QED
  BY <1>3, <1>5, <1>8, <1>10 DEF PlaceOK, HeaderPcs

LEMMA CountType ==
    ASSUME NEW res, Fed(res)
    PROVE  /\ res.cells \in Seq(AllCells) /\ Len(res.cells) \in Nat
           /\ Count(res) \in Int /\ Count(res) <= Len(res.cells)
           /\ Count(res) >= 0 => Count(res) = Len(res.cells)
BY DEF Count, Fed, Results

LEMMA FixedPlace ==
    ASSUME TypeOK, PlaceOK, NEW res, Fed(res), VarFixed(res)
    PROVE  PlaceOK'
<1> DEFINE mem == Copied(pkt.mem, 1, res.cells)
<1>0. call.pc = "fixed" /\ call.nrd = 0 /\ call.pc \in PayloadPcs
  BY DEF VarFixed, WantsPayload, PlaceOK, PayloadPcs, ReadPcs, HeaderPcs
<1>1. call.type \in Types /\ Codec[call.type] = "var"
  BY <1>0, PayloadCall DEF TypeOK, CallOK
<1>2. Written(mem, pkt.mem, 1, res.cells)
  BY CountType, CopiedAt
<1> HIDE DEF mem
<1>3. PICK n : /\ pkt' = [pkt EXCEPT !.mem = mem]
               /\ call' = [call EXCEPT !.pc = "tail", !.nrd = @ + Count(res),
                                       !.counts[1] = n]
  BY DEF VarFixed, mem
<1>4. call'.pc = "tail" /\ call'.nrd = Count(res) /\ pkt'.mem = mem
  BY <1>0, <1>3, CountType, PayloadCall DEF Calls, Buffers
<1>5. Len(res.cells) <= 1
  BY <1>0 DEF Fed, Wanted, HeaderPcs
<1>6. 1 \in 1 .. MemSize
  <2>1. 1 \in 1 .. NumGroups[call.type]
    BY <1>1, GroupsAssumption
  <2>2. GroupAddr(call.type, 1) \in Nat /\ GroupAddr(call.type, 1) > PrefixLen[call.type][CurVer[call.type]]
        /\ GroupAddr(call.type, 1) + MaxCount[call.type] <= MemSize
    BY <1>1, <2>1, GroupPlaces
  <2>3. /\ MaxCount[call.type] \in Nat
        /\ PrefixLen[call.type][CurVer[call.type]] \in Nat
    BY <1>1, TableAssumption
  <2>4. MemSize \in Nat
    BY ReadAssumption
  <2> QED
    BY <2>2, <2>3, <2>4
<1>7. ASSUME call'.nrd = 1 PROVE mem[1] \in News'
  <2>1. 1 \in 1 .. Len(res.cells)
    <3>1. Count(res) = 1
      BY <1>4, <1>7
    <3>2. Count(res) >= 0 => Count(res) = Len(res.cells)
      BY CountType
    <3> QED
      BY <3>1, <3>2
  <2>2. mem[1] = res.cells[1]
    BY <1>2, <1>6, <2>1 DEF Written
  <2> QED
    BY <2>1, <2>2 DEF Fed
<1> QED
  BY <1>4, <1>5, <1>7, CountType DEF PlaceOK, HeaderPcs

(* A variable packet has arrived whole if its fixed part and its tail did. *)
LEMMA TailPlace ==
    ASSUME TypeOK, PlaceOK, NEW res, Fed(res), VarTail(res)
    PROVE  PlaceOK'
<1> DEFINE T    == TailLen(call.type, h.hdr.ver, call.counts[1])
           kept == IF call.type \in ClearsByRead THEN call.nrd + Count(res) ELSE 1 + T
           mem  == Copied(pkt.mem, 2, res.cells)
<1>0. /\ call.pc = "tail" /\ call.nrd <= 1 /\ call.pc \in PayloadPcs
      /\ call.nrd = 1 => pkt.mem[1] \in News
  BY DEF VarTail, WantsPayload, PlaceOK, PayloadPcs, ReadPcs, HeaderPcs
<1>1. /\ call.type \in Types /\ h.hdr.ver \in Nat /\ call.counts \in [Groups -> Nat]
      /\ Codec[call.type] = "var" /\ call.nrd \in Int
  BY <1>0, PayloadCall DEF TypeOK, CallOK
<1>2. Written(mem, pkt.mem, 2, res.cells)
  BY CountType, CopiedAt
<1>3. /\ call' = [call EXCEPT !.pc = "check", !.nrd = @ + Count(res)]
      /\ pkt' = [pkt EXCEPT !.mem = Cleared(mem, kept + 1)]
      /\ h' = [h EXCEPT !.head = @ \/ res.mark]
  BY DEF VarTail, GoOn, Marked
<1>4. /\ call'.pc = "check" /\ call'.type = call.type /\ call'.counts = call.counts
      /\ call'.nrd = call.nrd + Count(res) /\ h'.hdr = h.hdr
      /\ pkt'.mem = Cleared(mem, kept + 1)
  BY <1>0, <1>3, CountType, PayloadCall DEF Calls, Handles, Buffers
<1>5. /\ WireSlotsRead' = {Slot(1, i) : i \in 0 .. T}
      /\ Cardinality(WireSlotsRead') = 1 + T /\ T \in Nat /\ 1 \in Groups
  BY <1>1, <1>4, PlainSlots DEF WireSlotsRead
<1>6. \A i \in 0 .. T : AddrOf(call.type, Slot(1, i)) = 1 + i /\ 1 + i <= MemSize
  <2>1. 1 \in 1 .. NumGroups[call.type]
    BY <1>1, GroupsAssumption
  <2>2. GroupAddr(call.type, 1) + MaxCount[call.type] <= MemSize
    BY <1>1, <2>1, GroupPlaces
  <2>3. T <= MaxCount[call.type] /\ PrefixLen[call.type][CurVer[call.type]] = 0
    BY <1>1, <1>5, PrefixPlace
  <2>4. GroupAddr(call.type, 1) = 1
    BY <1>1, <2>3, TableAssumption DEF GroupAddr
  <2>5. \A i : AddrOf(call.type, Slot(1, i)) = 1 + i
    BY <2>4 DEF AddrOf, Slot
  <2> HIDE DEF T
  <2> QED
    BY <1>1, <1>5, <2>2, <2>3, <2>4, <2>5, TableAssumption, ReadAssumption, SMTT(30)
<1>7. Len(res.cells) <= T
  BY <1>0 DEF Fed, Wanted, HeaderPcs
<1> HIDE DEF T, mem
<1>8. ASSUME Whole' PROVE call.nrd = 1 /\ Len(res.cells) = T /\ kept = 1 + T
  <2>1. call.nrd + Count(res) = 1 + T
    BY <1>1, <1>4, <1>5, <1>8 DEF Whole
  <2> QED
    BY <1>0, <1>1, <1>5, <1>7, <2>1, CountType
<1> HIDE DEF kept
<1>9. ASSUME Whole', NEW i \in 0 .. T PROVE pkt'.mem[1 + i] \in News'
  <2>1. 1 + i \in 1 .. MemSize /\ 1 + i < kept + 1
    BY <1>5, <1>6, <1>8, <1>9, ReadAssumption
  <2>2. pkt'.mem[1 + i] = mem[1 + i]
    BY <1>4, <1>5, <1>8, <1>9, <2>1 DEF Cleared
  <2>3. CASE i = 0
    <3>1. mem[1] = pkt.mem[1]
      BY <1>2, <2>1, <2>3 DEF Written
    <3> QED
      BY <1>0, <1>8, <1>9, <2>2, <2>3, <3>1 DEF Fed
  <2>4. CASE i # 0
    <3>1. i \in 1 .. Len(res.cells) /\ (1 + i) + 1 = 2 + i
      BY <1>5, <1>8, <1>9, <2>4
    <3>2. mem[1 + i] = res.cells[i]
      BY <1>2, <2>1, <3>1 DEF Written
    <3> QED
      BY <2>2, <3>1, <3>2 DEF Fed
  <2> QED
    BY <2>3, <2>4
<1>10. ASSUME Whole', NEW a \in 1 .. MemSize, a > 1 + T PROVE pkt'.mem[a] = Zero
  BY <1>4, <1>5, <1>8, <1>10 DEF Cleared
<1>11. ASSUME Whole', NEW s \in WireSlotsRead'
       PROVE  pkt'.mem[AddrOf(call'.type, s)] \in News'
  BY <1>4, <1>5, <1>6, <1>9, <1>11
<1> QED
  BY <1>4, <1>5, <1>10, <1>11 DEF PlaceOK, HeaderPcs

(* A waveform packet whose read fails has -1 for its length.               *)
LEMMA FailsPlace ==
    ASSUME TypeOK, call.pc \in {"prefix", "wf_head", "wf_data"}, NEW res, WaveFails(res)
    PROVE  PlaceOK'
<1>1. call \in Calls /\ Codec[call.type] = "wave"
  BY DEF TypeOK, CallOK
<1>2. call'.pc = "check" /\ call'.nrd = -1 /\ call'.type = call.type
  BY <1>1 DEF WaveFails, Calls
<1>3. ~Whole'
  BY <1>1, <1>2 DEF Whole
<1> QED
  BY <1>2, <1>3 DEF PlaceOK, HeaderPcs

LEMMA PrefixOfWave ==
    ASSUME TypeOK, PlaceOK, NEW res, Fed(res), WavePrefix(res)
    PROVE  PlaceOK'
<1> DEFINE P   == Prefix(call.type, h.hdr.ver)
           mem == Copied(pkt.mem, 1, res.cells)
<1>0. call.pc = "prefix" /\ call.nrd = 0 /\ call.pc \in PayloadPcs
  BY DEF WavePrefix, WantsPayload, PlaceOK, PayloadPcs, ReadPcs, HeaderPcs
<1>1. call.type \in Types /\ h.hdr.ver \in Nat
  BY <1>0, PayloadCall
<1>2. Written(mem, pkt.mem, 1, res.cells)
  BY CountType, CopiedAt
<1>3. pkt' = [pkt EXCEPT !.mem = ReadoutCleared(mem)]
  BY DEF WavePrefix
<1>4. CASE WaveFails(res)
  BY <1>0, <1>4, FailsPlace
<1>5. CASE /\ Complete(res, P) /\ Marked(res)
           /\ call' = [call EXCEPT !.pc = "wf_head", !.nrd = @ + Count(res), !.grp = 1]
  <2>1. /\ call'.pc = "wf_head" /\ call'.type = call.type /\ call'.grp = 1
        /\ h'.hdr = h.hdr /\ pkt'.mem = ReadoutCleared(mem)
    BY <1>0, <1>3, <1>5, PayloadCall DEF Calls, Handles, Buffers, Marked
  <2>2. P \in Nat /\ P <= MemSize /\ MemSize \in Nat /\ Len(res.cells) = P
    BY <1>1, <1>5, PrefixPlace, ReadAssumption DEF Complete
  <2> HIDE DEF mem
  <2>3. ASSUME NEW i \in 1 .. P PROVE pkt'.mem[i] \in News'
    <3>1. i \in 1 .. MemSize /\ i \in 1 .. Len(res.cells) /\ i + 1 = 1 + i
      BY <2>2, <2>3
    <3>2. mem[i] = res.cells[i]
      BY <1>2, <3>1 DEF Written
    <3>3. h.hdr.ver = 0 => P = PrefixLen[call.type][0]
      <4>1. CurVer[call.type] \in Nat
        BY <1>1, TableAssumption
      <4> QED
        BY <4>1 DEF Prefix, KnownVer
    <3>4. h.hdr.ver = 0 => i # PrefixLen[call.type][0] + 1
      BY <2>2, <3>3
    <3>5. ReadoutCleared(mem)[i] = mem[i]
      BY <3>1, <3>4 DEF ReadoutCleared
    <3> QED
      BY <2>1, <3>1, <3>2, <3>5 DEF Fed
  <2>4. HasPrefix'
    BY <2>1, <2>3 DEF HasPrefix
  <2>5. HasGroups(call.grp - 1)'
    BY <2>1 DEF HasGroups
  <2> QED
    BY <2>1, <2>4, <2>5 DEF PlaceOK, HeaderPcs
<1> QED
  BY <1>4, <1>5 DEF WavePrefix

(* Reading a waveform leaves the prefix and the waveforms before it alone. *)
LEMMA EarlierGroups ==
    ASSUME TypeOK, call.type \in Types, call.counts \in [Groups -> Nat],
           h.hdr.ver \in Nat, NEW g \in 1 .. NumGroups[call.type],
           NumGroups[call.type] \in Nat,
           HasPrefix, HasGroups(g - 1), News \subseteq News',
           call'.type = call.type, h'.hdr = h.hdr,
           \A k \in 1 .. g - 1 : call'.counts[k] = call.counts[k],
           \A b \in 1 .. MemSize :
              b < GroupAddr(call.type, g) => pkt'.mem[b] = pkt.mem[b]
    PROVE  HasPrefix' /\ HasGroups(g - 1)'
<1> DEFINE a == GroupAddr(call.type, g)
           P == Prefix(call.type, h.hdr.ver)
<1>1. /\ a \in Nat /\ a > PrefixLen[call.type][CurVer[call.type]]
      /\ a + MaxCount[call.type] <= MemSize
      /\ \A k \in 1 .. g - 1 : GroupAddr(call.type, k) + MaxCount[call.type] < a
  BY GroupPlaces
<1>2. P \in Nat /\ P <= PrefixLen[call.type][CurVer[call.type]]
  BY PrefixPlace
<1>3. /\ MaxCount[call.type] \in Nat /\ MemSize \in Nat
      /\ PrefixLen[call.type][CurVer[call.type]] \in Nat
  BY TableAssumption, ReadAssumption
<1> HIDE DEF a, P
<1>4. ASSUME NEW i \in 1 .. P PROVE pkt'.mem[i] \in News'
  <2>1. i \in 1 .. MemSize /\ i < a
    BY <1>1, <1>2, <1>3, <1>4
  <2> QED
    BY <1>4, <2>1 DEF HasPrefix, a, P
<1>5. ASSUME NEW k \in 1 .. g - 1,
             NEW i \in 0 .. TailLen(call.type, h.hdr.ver, call.counts[k])
      PROVE  pkt'.mem[GroupAddr(call.type, k) + i] \in News'
  <2>1. k \in Groups /\ k \in 1 .. NumGroups[call.type]
    <3>1. k \in 1 .. NumGroups[call.type] /\ NumGroups[call.type] <= MaxGroups
      BY GroupsAssumption
    <3> QED
      BY <3>1, ReadAssumption DEF Groups
  <2>2. call.counts[k] \in Nat
    BY <2>1
  <2>3. /\ TailLen(call.type, h.hdr.ver, call.counts[k]) \in Nat
        /\ TailLen(call.type, h.hdr.ver, call.counts[k]) <= MaxCount[call.type]
    BY <2>2, PrefixPlace
  <2>4. GroupAddr(call.type, k) \in Nat
        /\ GroupAddr(call.type, k) > PrefixLen[call.type][CurVer[call.type]]
    BY <2>1, GroupPlaces
  <2>5. GroupAddr(call.type, k) + MaxCount[call.type] < a
    BY <1>1
  <2> DEFINE b == GroupAddr(call.type, k) + i
  <2>6. b \in 1 .. MemSize /\ b < a
    BY <1>1, <1>3, <2>3, <2>4, <2>5
  <2>7. pkt.mem[b] \in News
    BY DEF HasGroups
  <2> HIDE DEF b
  <2>8. pkt'.mem[b] \in News'
    BY <2>6, <2>7 DEF a
  <2> QED
    BY <2>8 DEF b
<1>6. HasPrefix'
  BY <1>4 DEF HasPrefix, P
<1>7. HasGroups(g - 1)'
  BY <1>5 DEF HasGroups
<1> QED
  BY <1>6, <1>7

(* What the reader of a waveform knows of its place.                       *)
LEMMA AtGroup ==
    ASSUME TypeOK, PlaceOK, call.pc \in {"wf_head", "wf_data"}
    PROVE  /\ call.type \in Types /\ h.hdr.ver \in Nat
           /\ call.counts \in [Groups -> Nat] /\ call.pc \in PayloadPcs
           /\ call.grp \in 1 .. NumGroups[call.type] /\ NumGroups[call.type] \in Nat
           /\ call.grp \in Groups
           /\ HasPrefix /\ HasGroups(call.grp - 1)
<1>1. call.pc \in PayloadPcs
  BY DEF PayloadPcs, ReadPcs, HeaderPcs
<1> QED
  BY <1>1, PayloadCall, WaveGroup DEF PlaceOK

LEMMA HeadOfWave ==
    ASSUME TypeOK, PlaceOK, NEW res, Fed(res), WaveHead(res)
    PROVE  PlaceOK'
<1>0. call.pc = "wf_head"
  BY DEF WaveHead, WantsPayload
<1> PICK g : g = call.grp
  OBVIOUS
<1> DEFINE a   == GroupAddr(call.type, g)
           mem == Copied(pkt.mem, a, res.cells)
<1>1. /\ call.type \in Types /\ h.hdr.ver \in Nat
      /\ call.counts \in [Groups -> Nat] /\ call.pc \in PayloadPcs
      /\ g \in 1 .. NumGroups[call.type] /\ NumGroups[call.type] \in Nat
      /\ g \in Groups /\ HasPrefix /\ HasGroups(g - 1)
  BY <1>0, AtGroup
<1>2. a \in Nat /\ a \in 1 .. MemSize
  <2>1. /\ a \in Nat /\ a > PrefixLen[call.type][CurVer[call.type]]
        /\ a + MaxCount[call.type] <= MemSize
    BY <1>1, GroupPlaces
  <2>2. /\ PrefixLen[call.type][CurVer[call.type]] \in Nat
        /\ MaxCount[call.type] \in Nat /\ MemSize \in Nat
    BY <1>1, TableAssumption, ReadAssumption
  <2> HIDE DEF a
  <2> QED
    BY <2>1, <2>2
<1>3. Written(mem, pkt.mem, a, res.cells)
  BY <1>2, CountType, CopiedAt
<1>4. pkt' = [pkt EXCEPT !.mem = mem]
  BY DEF WaveHead
<1>5. CASE WaveFails(res)
  BY <1>0, <1>5, FailsPlace
<1>6. ASSUME Complete(res, 1), Marked(res),
             NEW n, call' = [call EXCEPT !.pc = "wf_data", !.nrd = @ + 1,
                                         !.counts[call.grp] = n]
      PROVE  PlaceOK'
  <2>1. /\ call'.pc = "wf_data" /\ call'.type = call.type /\ call'.grp = g
        /\ h'.hdr = h.hdr /\ pkt'.mem = mem
        /\ \A k \in 1 .. g - 1 : call'.counts[k] = call.counts[k]
    <3>1. call'.counts = [call.counts EXCEPT ![g] = n]
      BY <1>1, <1>6, PayloadCall DEF Calls
    <3>2. \A k \in 1 .. g - 1 : k # g
      BY <1>1
    <3>3. \A k \in 1 .. g - 1 : call'.counts[k] = call.counts[k]
      BY <1>1, <3>1, <3>2
    <3>4. /\ call'.pc = "wf_data" /\ call'.type = call.type /\ call'.grp = g
          /\ h'.hdr = h.hdr /\ pkt'.mem = mem
      BY <1>1, <1>4, <1>6, PayloadCall DEF Calls, Handles, Buffers, Marked
    <3> QED
      BY <3>3, <3>4
  <2> HIDE DEF mem
  <2>2. Len(res.cells) = 1
    BY <1>6 DEF Complete
  <2>3. mem[a] = res.cells[1] /\ res.cells[1] \in News'
    <3>1. 1 \in 1 .. Len(res.cells) /\ a + 1 = a + 1
      BY <2>2
    <3> QED
      BY <1>2, <1>3, <3>1 DEF Written, Fed
  <2>4. \A b \in 1 .. MemSize : b < a => pkt'.mem[b] = pkt.mem[b]
    BY <1>3, <2>1 DEF Written
  <2>5. HasPrefix' /\ HasGroups(g - 1)'
    BY <1>1, <2>1, <2>4, EarlierGroups DEF Fed
  <2>6. HasGroups(call.grp - 1)'
    BY <2>1, <2>5
  <2>7. pkt'.mem[GroupAddr(call'.type, call'.grp)] \in News'
    BY <2>1, <2>3
  <2> QED
    BY <2>1, <2>5, <2>6, <2>7 DEF PlaceOK, HeaderPcs
<1> QED
  BY <1>5, <1>6 DEF WaveHead

LEMMA DataOfWave ==
    ASSUME TypeOK, PlaceOK, NEW res, Fed(res), WaveData(res)
    PROVE  PlaceOK'
<1>0. call.pc = "wf_data" /\ call.pc \in {"wf_head", "wf_data"}
  BY DEF WaveData, WantsPayload
<1> PICK g : g = call.grp
  OBVIOUS
<1> PICK T : T = TailLen(call.type, h.hdr.ver, call.counts[g])
  OBVIOUS
<1> DEFINE a   == GroupAddr(call.type, g)
           mem == Copied(pkt.mem, a + 1, res.cells)
<1>1. /\ call.type \in Types /\ h.hdr.ver \in Nat
      /\ call.counts \in [Groups -> Nat] /\ call.pc \in PayloadPcs
      /\ g \in 1 .. NumGroups[call.type] /\ NumGroups[call.type] \in Nat
      /\ g \in Groups /\ HasPrefix /\ HasGroups(g - 1)
  BY <1>0, AtGroup
<1>2. T \in Nat /\ T <= MaxCount[call.type] /\ MaxCount[call.type] \in Nat
  <2>1. call.counts[g] \in Nat
    BY <1>1
  <2> QED
    BY <1>1, <2>1, PrefixPlace, TableAssumption
<1>3. a \in Nat /\ a >= 1 /\ a + T <= MemSize /\ MemSize \in Nat
  <2>1. /\ a \in Nat /\ a > PrefixLen[call.type][CurVer[call.type]]
        /\ a + MaxCount[call.type] <= MemSize
    BY <1>1, GroupPlaces
  <2>2. PrefixLen[call.type][CurVer[call.type]] \in Nat /\ MemSize \in Nat
    BY <1>1, TableAssumption, ReadAssumption
  <2> HIDE DEF a
  <2> QED
    BY <1>2, <2>1, <2>2
<1>4. Written(mem, pkt.mem, a + 1, res.cells)
  <2>1. a + 1 \in Nat
    BY <1>3
  <2> QED
    BY <2>1, CountType, CopiedAt
<1>5. pkt' = [pkt EXCEPT !.mem = mem]
  BY DEF WaveData
<1>6. CASE WaveFails(res)
  BY <1>0, <1>6, FailsPlace
<1>7. CASE /\ Complete(res, T) /\ Marked(res)
           /\ call' = [call EXCEPT !.nrd = @ + T,
                                   !.pc  = IF call.grp = NumGroups[call.type]
                                           THEN "check" ELSE "wf_head",
                                   !.grp = IF @ = NumGroups[call.type]
                                           THEN @ ELSE @ + 1]
  <2>1. /\ call'.type = call.type /\ call'.counts = call.counts
        /\ h'.hdr = h.hdr /\ pkt'.mem = mem
        /\ call'.pc = IF g = NumGroups[call.type] THEN "check" ELSE "wf_head"
        /\ call'.grp = IF g = NumGroups[call.type] THEN g ELSE g + 1
    BY <1>1, <1>5, <1>7, PayloadCall DEF Calls, Handles, Buffers, Marked
  <2> HIDE DEF mem
  <2>2. Len(res.cells) = T
    BY <1>7 DEF Complete
  <2>3. \A b \in 1 .. MemSize : b <= a => pkt'.mem[b] = pkt.mem[b]
    BY <1>3, <1>4, <2>1 DEF Written
  <2>4. HasPrefix' /\ HasGroups(g - 1)'
    <3>1. \A b \in 1 .. MemSize : b < a => pkt'.mem[b] = pkt.mem[b]
      BY <1>3, <2>3
    <3> QED
      BY <1>1, <2>1, <3>1, EarlierGroups DEF Fed
  <2>5. ASSUME NEW i \in 0 .. T PROVE pkt'.mem[a + i] \in News'
    <3>1. a + i \in 1 .. MemSize
      BY <1>2, <1>3
    <3>2. CASE i = 0
      <4>1. pkt.mem[a] \in News
        BY <1>0 DEF PlaceOK
      <4>2. pkt'.mem[a] = pkt.mem[a] /\ a + i = a
        BY <1>3, <2>3, <3>1, <3>2
      <4> QED
        BY <4>1, <4>2 DEF Fed
    <3>3. CASE i # 0
      <4> DEFINE b == a + i
      <4>1. b \in 1 .. MemSize /\ i \in 1 .. Len(res.cells) /\ b + 1 = (a + 1) + i
        BY <1>2, <1>3, <2>2, <3>1, <3>3
      <4> HIDE DEF b
      <4>2. mem[b] = res.cells[i]
        BY <1>4, <4>1 DEF Written
      <4>3. pkt'.mem[b] \in News'
        BY <2>1, <4>1, <4>2 DEF Fed
      <4> QED
        BY <4>3 DEF b
    <3> QED
      BY <3>2, <3>3
  <2>6. HasGroups(g)'
    <3> SUFFICES ASSUME NEW k \in 1 .. g,
                        NEW i \in 0 .. TailLen(call.type, h.hdr.ver, call.counts[k])
                 PROVE  pkt'.mem[GroupAddr(call.type, k) + i] \in News'
      BY <2>1 DEF HasGroups
    <3>1. CASE k = g
      BY <2>5, <3>1
    <3>2. CASE k # g
      <4>1. k \in 1 .. g - 1
        BY <1>1, <3>2
      <4> QED
        BY <2>1, <2>4, <4>1 DEF HasGroups
    <3> QED
      BY <3>1, <3>2
  <2>7. CASE g # NumGroups[call.type]
    <3>1. call'.pc = "wf_head" /\ call'.grp = g + 1 /\ (g + 1) - 1 = g
      BY <1>1, <2>1, <2>7
    <3>2. HasGroups(call.grp - 1)'
      BY <2>6, <3>1
    <3> QED
      BY <2>4, <3>1, <3>2 DEF PlaceOK, HeaderPcs
  <2>8. CASE g = NumGroups[call.type]
    <3>1. call'.pc = "check" /\ Codec[call'.type] = "wave"
      BY <1>0, <2>1, <2>8 DEF TypeOK, CallOK
    <3>2. ASSUME NEW s \in WireSlotsRead'
          PROVE  pkt'.mem[AddrOf(call'.type, s)] \in News'
      <4> USE <2>1 DEF WireSlotsRead
      <4>1. CASE s \in {Slot(0, i) : i \in 1 .. Prefix(call.type, h.hdr.ver)}
        <5>1. PICK i \in 1 .. Prefix(call.type, h.hdr.ver) : s = Slot(0, i)
          BY <4>1
        <5>2. AddrOf(call.type, s) = i
          BY <5>1 DEF AddrOf, Slot
        <5> QED
          BY <2>4, <5>1, <5>2 DEF HasPrefix
      <4>2. CASE s \in UNION {{Slot(k, i) : i \in 0 .. TailLen(call.type, h.hdr.ver, call.counts[k])}
                                : k \in 1 .. NumGroups[call.type]}
        <5>1. PICK k \in 1 .. NumGroups[call.type] :
                 s \in {Slot(k, i) : i \in 0 .. TailLen(call.type, h.hdr.ver, call.counts[k])}
          BY <4>2
        <5>2. PICK i \in 0 .. TailLen(call.type, h.hdr.ver, call.counts[k]) : s = Slot(k, i)
          BY <5>1
        <5>3. AddrOf(call.type, s) = GroupAddr(call.type, k) + i
          BY <5>2 DEF AddrOf, Slot
        <5> QED
          BY <2>6, <2>8, <5>2, <5>3 DEF HasGroups
      <4> QED
        BY <4>1, <4>2 DEF WireSlots
    <3> QED
      BY <3>1, <3>2 DEF PlaceOK, HeaderPcs
  <2> QED
    BY <2>7, <2>8
<1> QED
  BY <1>6, <1>7 DEF WaveData

-----------------------------------------------------------------------------
(* The reader's steps.                                                     *)

(* Up to the first read of the payload nothing is counted.                 *)
Counted0 == call.nrd = 0 /\ call.pc \in HeaderPcs \cup
                {"idle", "capacity", "simple", "fixed", "prefix", "crashed"}

LEMMA StartsPlace == ASSUME Counted0' PROVE PlaceOK'
BY DEF Counted0, PlaceOK, HeaderPcs

LEMMA HeaderPlace ==
    ASSUME TypeOK, PlaceOK, call.pc \in HeaderPcs, NEW handle, NEW r,
           HeaderDone(handle, r) \/ HeaderEOF(handle)
    PROVE  PlaceOK'
<1>1. call \in Calls /\ call.nrd = 0
  BY DEF TypeOK, PlaceOK
<1>2. \A x : Idle(x).pc = "idle" /\ Idle(x).nrd = 0
  BY DEF Idle
<1>3. ASSUME call.pc = "typed_header" PROVE FirstRead(call.type) \in {"simple", "fixed", "prefix"}
  <2>1. Codec[call.type] \in Codecs
    BY <1>3, TableAssumption DEF TypeOK, CallOK
  <2> QED
    BY <2>1 DEF FirstRead, Codecs
<1>4. \/ \E x : call' = Idle(x)
      \/ call' = [call EXCEPT !.pc = "capacity"]
      \/ call.pc = "typed_header" /\ call' = [call EXCEPT !.pc = FirstRead(call.type)]
  BY DEF HeaderDone, HeaderEOF, LLHeader, TypedHeader, ReadXReturns, HeaderPcs
<1>5. Counted0'
  BY <1>1, <1>2, <1>3, <1>4 DEF Counted0, Calls, HeaderPcs
<1> QED
  BY <1>5, StartsPlace

(* The result of a read_bytes.                                             *)
LEMMA ReceivePlace ==
    ASSUME TypeOK, PlaceOK, NEW res, Fed(res), Receive(res)
    PROVE  PlaceOK' /\ out' = out
<1>1. CASE HeaderArrives(res)
  BY <1>1, HeaderPlace DEF HeaderArrives
<1>2. CASE HeaderNothing(res)
  BY <1>2, HeaderPlace DEF HeaderNothing
<1>3. CASE HeaderFails(res)
  BY <1>3, HeaderPlace DEF HeaderFails
<1>4. out' = out
  BY DEF Receive, HeaderArrives, HeaderNothing, HeaderFails, SimpleRead, VarFixed,
         VarTail, WavePrefix, WaveHead, WaveData
<1> QED
  BY <1>1, <1>2, <1>3, <1>4, SimplePlace, FixedPlace, TailPlace, PrefixOfWave,
     HeadOfWave, DataOfWave DEF Receive

(* The reader leaves the tape and the writer alone.                        *)
LEMMA ReaderFrame ==
    ASSUME Shaped, TapeOK, WriterOK, UNCHANGED <<scene, writeVars, stream>>,
           TypeOK', rpos' \in 0 .. Len(stream), faults' \in 0 .. scene.faults
    PROVE  /\ Shaped' /\ TapeOK' /\ WriterOK' /\ SentGrows
           /\ TapeLen' = TapeLen /\ Tape' = Tape
<1>1. UNCHANGED <<scene, w, buf, sent, stream>>
  BY DEF writeVars
<1>2. SentGrows /\ TapeLen' = TapeLen /\ Tape' = Tape
  BY <1>1 DEF SentGrows, TapeLen, Tape, Shaped, TypeOK
<1>3. Shaped'
  BY <1>1 DEF Shaped
<1>4. TapeKept
  BY <1>2, TapeType DEF TapeKept
<1>5. TapeOK' /\ OnTape' = OnTape
  BY <1>2, <1>4, TapeKeptOK DEF OnTape
<1>6. WriterOK'
  BY <1>1, <1>5 DEF WriterOK, Headed
<1> QED
  BY <1>2, <1>3, <1>5, <1>6

(* A call of the client, and what needs no read_bytes but the last step.   *)
LEMMA QuietOK ==
    ASSUME SInv, UNCHANGED <<scene, writeVars, stream, rpos, faults>>,
           Client \/ (Internal /\ ~Check)
    PROVE  SInv'
<1>0. Shaped /\ TapeOK /\ WriterOK /\ ReaderOK /\ PlaceOK /\ TypeOK
  BY DEF SInv, Shaped
<1>1. TypeOK' /\ UNCHANGED <<sent, stream, rpos, scene, faults>>
  BY <1>0, ClientType, InternalType DEF writeVars
<1>2. rpos' \in 0 .. Len(stream) /\ faults' \in 0 .. scene.faults
  BY <1>0, <1>1 DEF Shaped
<1>3. /\ Shaped' /\ TapeOK' /\ WriterOK' /\ SentGrows
      /\ TapeLen' = TapeLen /\ Tape' = Tape
  BY <1>0, <1>1, <1>2, ReaderFrame
<1>4. out' = out
  BY DEF Client, LLRead, LLReadRealloc, TypedRead, ClientAllocates,
         Internal, HeaderAlreadyRead, TooSmall, Dispatch, SimpleBadVersion
<1>5. ReaderOK'
  <2>1. Later' = Later /\ Returned' = Returned /\ Returned \subseteq DOMAIN sent
    BY <1>0, <1>3, <1>4, LaterSame DEF ReaderOK
  <2>2. \A id \in Returned : WireCells(id)' = WireCells(id)
    BY <1>3, <2>1, AnyCellGrows
  <2> QED
    BY <1>0, <1>1, <1>3, <1>4, <2>1, <2>2 DEF ReaderOK, Arrived
<1>6. PlaceOK'
  <2>1. call \in Calls
    BY <1>0 DEF TypeOK
  <2>2. \A x, op, pc : /\ Idle(x).pc = "idle" /\ Idle(x).nrd = 0
                       /\ Calling(op, pc).pc = pc /\ Calling(op, pc).nrd = 0
                       /\ Fresh.pc = "idle" /\ Fresh.nrd = 0
    BY DEF Idle, Calling, Fresh
  <2>3. CASE Client
    <3>1. /\ call'.nrd = 0
          /\ call'.pc \in {"idle", "ll_header", "capacity", "typed_header"}
      <4>1. CASE LLRead \/ LLReadRealloc
        BY <2>2, <4>1 DEF LLRead, LLReadRealloc
      <4>2. ASSUME NEW t \in Types, TypedRead(t)
            PROVE  call'.nrd = 0 /\ call'.pc = "typed_header"
        <5>1. call' = [Calling("typed", "typed_header") EXCEPT !.type = t]
          BY <4>2 DEF TypedRead
        <5> QED
          BY <5>1 DEF Calling, Idle
      <4>3. ASSUME NEW cap, ClientAllocates(cap)
            PROVE  call'.nrd = 0 /\ call'.pc = "idle"
        BY <2>2, <4>3 DEF ClientAllocates
      <4> QED
        BY <2>3, <4>1, <4>2, <4>3 DEF Client
    <3>2. Counted0'
      BY <3>1 DEF Counted0, HeaderPcs
    <3> QED
      BY <3>2, StartsPlace
  <2>4. CASE HeaderAlreadyRead
    BY <1>0, <2>4, HeaderPlace DEF HeaderAlreadyRead
  <2>5. CASE TooSmall \/ Dispatch
    <3>1. call.pc = "capacity" /\ call.nrd = 0
      BY <1>0, <2>5 DEF TooSmall, Dispatch, PlaceOK
    <3>2. \/ \E x : call' = Idle(x)
          \/ call' = [call EXCEPT !.op = "ll"]
          \/ call' = [call EXCEPT !.pc = "typed_header", !.type = h.hdr.type]
      BY <2>5 DEF TooSmall, Dispatch, ReadXReturns
    <3>3. call'.nrd = 0 /\ call'.pc \in {"idle", "capacity", "typed_header"}
      <4>1. CASE \E x : call' = Idle(x)
        BY <2>2, <4>1
      <4>2. CASE call' = [call EXCEPT !.op = "ll"]
        BY <2>1, <3>1, <4>2 DEF Calls
      <4>3. CASE call' = [call EXCEPT !.pc = "typed_header", !.type = h.hdr.type]
        BY <2>1, <3>1, <4>3 DEF Calls
      <4> QED
        BY <3>2, <4>1, <4>2, <4>3
    <3>4. Counted0'
      BY <3>3 DEF Counted0, HeaderPcs
    <3> QED
      BY <3>4, StartsPlace
  <2>6. CASE SimpleBadVersion
    <3>1. call'.pc = "crashed"
      BY <2>1, <2>6 DEF SimpleBadVersion, Calls
    <3> QED
      BY <3>1 DEF PlaceOK, HeaderPcs
  <2> QED
    BY <2>3, <2>4, <2>5, <2>6 DEF Internal
<1> QED
  BY <1>3, <1>5, <1>6 DEF SInv

(* Cells of the stream reach the reader.                                   *)
LEMMA ConsumeOK ==
    ASSUME SInv, Reading, UNCHANGED <<scene, writeVars, stream, faults>>,
           NEW n \in Nat, n <= Wanted, n <= Available, Consume(n)
    PROVE  SInv'
<1> DEFINE cells == SubSeq(stream, rpos + 1, rpos + n)
           res   == [cells |-> cells, err |-> FALSE, mark |-> FALSE]
<1>0. Shaped /\ TapeOK /\ WriterOK /\ ReaderOK /\ PlaceOK /\ TypeOK
  BY DEF SInv, Shaped
<1>1. Receive(res) /\ rpos' = rpos + n /\ UNCHANGED <<scene, sent, stream, faults>>
  BY DEF Consume, writeVars
<1>2. /\ rpos \in Nat /\ Len(stream) \in Nat /\ TapeLen \in Nat
      /\ rpos + n <= Len(stream) /\ stream \in Seq(AllCells)
  BY <1>0, TapeType, ArrivedOnTape DEF Available, Shaped
<1>3. /\ cells \in Seq(AllCells) /\ Len(cells) = n
      /\ \A k \in 1 .. n : cells[k] = stream[rpos + k]
  BY <1>2
<1> HIDE DEF cells
<1>4. res \in Results /\ res.cells = cells /\ ~res.err
  BY <1>3 DEF Results
<1>5. TypeOK'
  BY <1>0, <1>1, <1>4, ReceiveType
<1>6. /\ Shaped' /\ TapeOK' /\ WriterOK' /\ SentGrows
      /\ TapeLen' = TapeLen /\ Tape' = Tape
  <2>1. rpos' \in 0 .. Len(stream) /\ faults' \in 0 .. scene.faults
    BY <1>0, <1>1, <1>2 DEF Shaped
  <2> QED
    BY <1>0, <1>5, <2>1, ReaderFrame
<1>7. out' = out
  BY <1>1 DEF Receive, HeaderArrives, HeaderNothing, HeaderFails, SimpleRead, VarFixed,
         VarTail, WavePrefix, WaveHead, WaveData
<1>8. Later' = Later /\ Returned' = Returned /\ Returned \subseteq DOMAIN sent
  BY <1>0, <1>6, <1>7, LaterSame DEF ReaderOK
<1>9. Arrived \subseteq Arrived'
  BY <1>1, <1>2 DEF Arrived
<1>10. Fed(res)
  <2>1. News \subseteq News'
    BY <1>8, <1>9 DEF News
  <2>2. ASSUME NEW k \in 1 .. n PROVE cells[k] \in News'
    <3> DEFINE i == rpos + k
    <3>1. i \in 1 .. rpos' /\ i \in rpos + 1 .. TapeLen /\ i \in 1 .. Len(stream)
      <4>1. Len(stream) <= TapeLen
        BY <1>0, TapeType DEF TapeLen
      <4> QED
        BY <1>1, <1>2, <4>1
    <3>2. cells[k] = stream[i]
      BY <1>3
    <3> HIDE DEF i
    <3>3. stream[i] \in Arrived'
      BY <1>1, <3>1 DEF Arrived
    <3>4. stream[i] \in Later
      BY <1>0, <3>1, TapeType DEF ReaderOK
    <3> QED
      BY <1>8, <3>2, <3>3, <3>4 DEF News
  <2> HIDE DEF res
  <2> QED
    BY <1>3, <1>4, <2>1, <2>2 DEF Fed
<1>11. PlaceOK'
  BY <1>0, <1>1, <1>10, ReceivePlace
<1>12. ReaderOK'
  <2>1. \A id \in Returned : WireCells(id)' = WireCells(id)
    BY <1>6, <1>8, AnyCellGrows
  <2>2. \A i \in rpos' + 1 .. TapeLen : i \in rpos + 1 .. TapeLen
    BY <1>1, <1>2
  <2> QED
    BY <1>0, <1>1, <1>6, <1>7, <1>8, <1>9, <2>1, <2>2 DEF ReaderOK
<1> QED
  BY <1>6, <1>11, <1>12 DEF SInv

(* A read fails and brings nothing.                                        *)
LEMMA ReadFailsOK ==
    ASSUME SInv, UNCHANGED scene, PipeReadFails
    PROVE  SInv'
<1> DEFINE res == [cells |-> <<>>, err |-> TRUE, mark |-> FALSE]
<1>0. Shaped /\ TapeOK /\ WriterOK /\ ReaderOK /\ PlaceOK /\ TypeOK
  BY DEF SInv, Shaped
<1>1. /\ Receive(res) /\ Reading /\ UNCHANGED <<writeVars, stream, rpos>>
      /\ faults' = faults + 1 /\ faults < scene.faults
  BY DEF PipeReadFails
<1>2. res \in Results /\ res.cells = <<>> /\ res.err
  <2>1. <<>> \in Seq(AllCells)
    OBVIOUS
  <2> QED
    BY <2>1 DEF Results
<1> HIDE DEF res
<1>3. TypeOK' /\ UNCHANGED sent
  BY <1>0, <1>1, <1>2, ReceiveType DEF writeVars
<1>4. /\ Shaped' /\ TapeOK' /\ WriterOK' /\ SentGrows
      /\ TapeLen' = TapeLen /\ Tape' = Tape
  <2>1. rpos' \in 0 .. Len(stream) /\ faults' \in 0 .. scene.faults
    BY <1>0, <1>1, StreamAssumption DEF Shaped
  <2> QED
    BY <1>0, <1>1, <1>3, <2>1, ReaderFrame
<1>5. out' = out
  BY <1>1 DEF Receive, HeaderArrives, HeaderNothing, HeaderFails, SimpleRead, VarFixed,
         VarTail, WavePrefix, WaveHead, WaveData
<1>6. Later' = Later /\ Returned' = Returned /\ Returned \subseteq DOMAIN sent
  BY <1>0, <1>4, <1>5, LaterSame DEF ReaderOK
<1>7. Arrived' = Arrived
  BY <1>1 DEF Arrived
<1>8. Fed(res)
  <2>1. Wanted \in Nat
    BY <1>0, <1>1, WantedType
  <2>2. News' = News
    BY <1>6, <1>7 DEF News
  <2> QED
    BY <1>2, <2>1, <2>2 DEF Fed
<1>9. PlaceOK'
  BY <1>0, <1>1, <1>8, ReceivePlace
<1>10. ReaderOK'
  <2>1. \A id \in Returned : WireCells(id)' = WireCells(id)
    BY <1>4, <1>6, AnyCellGrows
  <2>2. rpos' = rpos /\ sent' = sent
    BY <1>1, <1>3
  <2> QED
    BY <1>0, <1>4, <1>5, <1>6, <1>7, <2>1, <2>2 DEF ReaderOK
<1> QED
  BY <1>4, <1>9, <1>10 DEF SInv

(* A packet that is returned silently arrived whole in this very call, and *)
(* so comes after all that were returned so before it.                     *)
LEMMA SilentIsNew ==
    ASSUME SInv, call.pc = "check", call.nrd > 0, Silent,
           NEW s, s = h.hdr.sum
    PROVE  /\ s \in DOMAIN sent /\ s \in Nat /\ s # 0
           /\ WireCells(s) \subseteq News
           /\ \A k \in 1 .. HeadLen : Cell(s, HeadSlot(k)) \in Arrived
           /\ \A id \in Returned : id < s
           /\ \A i \in rpos + 1 .. TapeLen :
                 s <= Tape[i][1] /\ Tape[i] \notin WireCells(s)
<1>0. Shaped /\ TapeOK /\ WriterOK /\ ReaderOK /\ PlaceOK /\ TypeOK
  BY DEF SInv, Shaped
<1>1. /\ s \in DOMAIN sent
      /\ WireSlotsRead = WireSlots(sent[s].type, sent[s].ver, sent[s].counts)
      /\ \A x \in WireSlotsRead : pkt.mem[AddrOf(call.type, x)] = Cell(s, x)
      /\ call.nrd = Cardinality(WireSlotsRead)
  BY DEF Silent, ChecksumOk, LengthOk
<1>2. s \in Nat /\ s # 0
  BY <1>0, <1>1 DEF TypeOK
<1>3. Whole
  BY <1>1 DEF Whole
<1>4. \A x \in WireSlotsRead : Cell(s, x) \in News
  BY <1>0, <1>1, <1>3 DEF PlaceOK
<1>5. WireCells(s) \subseteq News
  BY <1>1, <1>4 DEF WireCells
<1>6. PICK c \in WireCells(s) : TRUE
  <2>1. WireSlotsRead # {}
    BY <1>1, FS_EmptySet
  <2> QED
    BY <1>1, <2>1 DEF WireCells
<1>7. c \in Arrived /\ c \in Later /\ c[1] = s /\ c[2][1] # -1
  <2>1. c[1] = s
    BY <1>6 DEF WireCells, Cell
  <2>2. c[2][1] # -1
    <3>1. PICK x \in WireSlots(sent[s].type, sent[s].ver, sent[s].counts) : c = Cell(s, x)
      BY <1>6 DEF WireCells
    <3>2. x[1] # -1
      BY <3>1 DEF WireSlots, Slot
    <3> QED
      BY <3>1, <3>2 DEF Cell
  <2> QED
    BY <1>5, <1>6, <2>1, <2>2 DEF News
<1>8. PICK j \in 1 .. rpos : c = Tape[j] /\ j \in 1 .. TapeLen
  BY <1>0, <1>7, ArrivedOnTape DEF Arrived
<1>9. rpos \in Nat /\ TapeLen \in Nat /\ rpos <= TapeLen
  BY <1>0, TapeType, ArrivedOnTape
<1>10. ASSUME NEW k \in 1 .. HeadLen PROVE Cell(s, HeadSlot(k)) \in Arrived
  <2>1. PICK i \in 1 .. j : Tape[i] = Cell(s, HeadSlot(k))
    BY <1>0, <1>7, <1>8 DEF TapeOK
  <2>2. i \in 1 .. rpos
    BY <1>8, <1>9
  <2>3. stream[i] = Tape[i]
    BY <1>0, <2>2, ArrivedOnTape
  <2> QED
    BY <2>1, <2>2, <2>3 DEF Arrived
<1>11. ASSUME NEW id \in Returned PROVE id < s
  <2>1. id <= s /\ c \notin WireCells(id)
    BY <1>7 DEF Later
  <2>2. id # s
    BY <1>6, <2>1
  <2>3. id \in Nat
    BY <1>0 DEF ReaderOK, TypeOK
  <2> QED
    BY <1>2, <2>1, <2>2, <2>3
<1>12. ASSUME NEW i \in rpos + 1 .. TapeLen
       PROVE  s <= Tape[i][1] /\ Tape[i] \notin WireCells(s)
  <2>1. i \in 1 .. TapeLen /\ \A l \in 1 .. rpos : l < i
    BY <1>9
  <2>2. s <= Tape[i][1]
    <3>1. Before(c, Tape[i])
      BY <1>0, <1>8, <2>1 DEF TapeOK
    <3>2. Tape[i][1] \in Nat
      BY <1>0, <2>1, TapeType DEF AllCells
    <3> QED
      BY <1>2, <1>7, <3>1, <3>2 DEF Before
  <2>3. ASSUME Tape[i] \in WireCells(s) PROVE FALSE
    <3>1. PICK l \in 1 .. rpos : Tape[i] = Tape[l] /\ l \in 1 .. TapeLen
      BY <1>0, <1>5, <2>3, ArrivedOnTape DEF News, Arrived
    <3>2. Before(Tape[l], Tape[i])
      BY <1>0, <2>1, <3>1 DEF TapeOK
    <3> QED
      BY <1>0, <2>1, <3>1, <3>2, TapeType, NotBefore
  <2> QED
    BY <2>2, <2>3
<1> QED
  BY <1>1, <1>2, <1>5, <1>10, <1>11, <1>12

LEMMA CheckOK ==
    ASSUME SInv, UNCHANGED <<scene, writeVars, stream, rpos, faults>>, Check
    PROVE  SInv'
<1>0. Shaped /\ TapeOK /\ WriterOK /\ ReaderOK /\ PlaceOK /\ TypeOK
  BY DEF SInv, Shaped
<1>1. TypeOK' /\ UNCHANGED <<sent, stream, rpos, scene, faults>>
  BY <1>0, InternalType DEF writeVars, Internal
<1>2. /\ Shaped' /\ TapeOK' /\ WriterOK' /\ SentGrows
      /\ TapeLen' = TapeLen /\ Tape' = Tape
  <2>1. rpos' \in 0 .. Len(stream) /\ faults' \in 0 .. scene.faults
    BY <1>0, <1>1 DEF Shaped
  <2> QED
    BY <1>0, <1>1, <2>1, ReaderFrame
<1>3. PlaceOK'
  <2>1. call'.pc = "idle"
    BY DEF Check, ReadXReturns, Idle
  <2> QED
    BY <2>1 DEF PlaceOK, HeaderPcs
<1>4. Arrived' = Arrived /\ \A id \in DOMAIN sent : WireCells(id)' = WireCells(id)
  BY <1>1, <1>2, AnyCellGrows DEF Arrived
<1>5. CASE call.nrd > 0 /\ Silent
  <2> DEFINE s == h.hdr.sum
  <2>1. /\ s \in DOMAIN sent /\ s \in Nat /\ s # 0
        /\ WireCells(s) \subseteq News
        /\ \A k \in 1 .. HeadLen : Cell(s, HeadSlot(k)) \in Arrived
        /\ \A id \in Returned : id < s
        /\ \A i \in rpos + 1 .. TapeLen :
              s <= Tape[i][1] /\ Tape[i] \notin WireCells(s)
    BY <1>5, SilentIsNew DEF Check
  <2>2. out' = Append(out, s) /\ out \in Seq(Nat)
    BY <1>0, <1>5 DEF Check, TypeOK
  <2> HIDE DEF s
  <2> DEFINE n == Len(out)
  <2>3. /\ n \in Nat /\ DOMAIN out = 1 .. n /\ DOMAIN out' = 1 .. n + 1
        /\ out'[n + 1] = s /\ \A i \in 1 .. n : out'[i] = out[i]
    BY <2>1, <2>2
  <2> HIDE DEF n
  <2>4. Returned' = Returned \cup {s}
    <3>1. \A i \in 1 .. n + 1 : i \in 1 .. n \/ i = n + 1
      BY <2>3
    <3>2. n + 1 \in 1 .. n + 1 /\ \A i \in 1 .. n : i \in 1 .. n + 1
      BY <2>3
    <3> QED
      BY <2>1, <2>3, <3>1, <3>2 DEF Returned
  <2>5. Returned \subseteq DOMAIN sent
    BY <1>0 DEF ReaderOK
  <2>6. ASSUME NEW i \in rpos + 1 .. TapeLen PROVE Tape[i] \in Later'
    <3>1. Tape[i] \in Later
      BY <1>0 DEF ReaderOK
    <3>2. \A id \in Returned' : id <= Tape[i][1] /\ Tape[i] \notin WireCells(id)'
      BY <1>4, <2>1, <2>4, <2>5, <3>1 DEF Later
    <3> QED
      BY <3>1, <3>2 DEF Later
  <2>7. \A id \in Returned' : /\ WireCells(id)' \subseteq Arrived'
                              /\ \A k \in 1 .. HeadLen : Cell(id, HeadSlot(k)) \in Arrived'
    BY <1>0, <1>4, <2>1, <2>4, <2>5 DEF ReaderOK, News
  <2>8. ASSUME NEW i \in DOMAIN out', NEW j \in DOMAIN out',
               i < j, out'[i] # 0, out'[j] # 0
        PROVE  out'[i] < out'[j]
    <3>1. i \in 1 .. n
      BY <2>3, <2>8
    <3>2. CASE j \in 1 .. n
      BY <1>0, <2>3, <2>8, <3>1, <3>2 DEF ReaderOK
    <3>3. CASE j = n + 1
      BY <2>1, <2>3, <2>8, <3>1, <3>3 DEF Returned
    <3> QED
      BY <2>3, <3>2, <3>3
  <2>9. ReaderOK'
    BY <1>1, <1>2, <2>1, <2>4, <2>5, <2>6, <2>7, <2>8 DEF ReaderOK
  <2> QED
    BY <1>2, <1>3, <2>9 DEF SInv
<1>6. CASE ~(call.nrd > 0 /\ Silent)
  <2>1. (out' = out \/ out' = Append(out, 0)) /\ out \in Seq(Nat)
    BY <1>0, <1>6 DEF Check, TypeOK
  <2>2. /\ DOMAIN out \subseteq DOMAIN out'
        /\ \A i \in DOMAIN out : out'[i] = out[i]
        /\ \A i \in DOMAIN out' : out'[i] # 0 => i \in DOMAIN out
    BY <2>1
  <2>3. Returned' = Returned
    BY <2>2 DEF Returned
  <2>4. Later' = Later
    BY <1>0, <1>4, <2>3 DEF Later, ReaderOK
  <2>5. ReaderOK'
    BY <1>0, <1>1, <1>2, <1>4, <2>2, <2>3, <2>4 DEF ReaderOK
  <2> QED
    BY <1>2, <1>3, <2>5 DEF SInv
<1> QED
  BY <1>5, <1>6

-----------------------------------------------------------------------------
(* The invariant.                                                          *)

LEMMA InitSInv == FInit => SInv
<1> SUFFICES ASSUME FInit PROVE SInv
  OBVIOUS
<1>1. /\ Init /\ scene \in Scenes /\ w = Write!FreshWriter
      /\ buf = <<>> /\ stream = <<>> /\ rpos = 0 /\ faults = 0
  BY DEF FInit
<1>2. /\ call.pc = "idle" /\ out = <<>> /\ sent = <<>>
  BY <1>1 DEF Init, Fresh, Idle
<1>3. TypeOK
  <2>1. h \in Handles /\ pkt \in Buffers
    BY <1>1 DEF Init, FreshHandle, NullPacket, NoHeader, Handles, Buffers, Headers,
                Junk, AllCells
  <2>2. call \in Calls
    BY <1>1, IdleType DEF Init, Fresh, Idle, Calls
  <2> QED
    BY <1>2, <2>1, <2>2 DEF TypeOK, CallOK, PayloadPcs, ReadPcs, HeaderPcs
<1>4. Shaped
  BY <1>1, <1>3, StreamAssumption DEF Shaped
<1>5. TapeLen = 0
  BY <1>1 DEF TapeLen
<1>6. TapeOK
  BY <1>5 DEF TapeOK
<1>7. WriterOK
  BY <1>1 DEF WriterOK, WriterRec, Write!FreshWriter
<1>8. ReaderOK
  <2>1. Returned = {} /\ rpos + 1 = 1
    BY <1>1, <1>2 DEF Returned
  <2> QED
    BY <1>2, <1>5, <2>1 DEF ReaderOK
<1>9. PlaceOK
  BY <1>2 DEF PlaceOK, HeaderPcs
<1> QED
  BY <1>4, <1>6, <1>7, <1>8, <1>9 DEF SInv

LEMMA StepSInv == SInv /\ [FNext]_vars => SInv'
<1> SUFFICES ASSUME SInv, [FNext]_vars PROVE SInv'
  OBVIOUS
<1>0. Shaped /\ TapeOK /\ WriterOK /\ ReaderOK /\ PlaceOK /\ TypeOK
  BY DEF SInv, Shaped
<1>1. CASE UNCHANGED scene /\ Writes
  BY <1>0, <1>1, WritesOK, WritesReaderOK DEF SInv
<1>2. CASE UNCHANGED scene /\ ClientStep
  BY <1>2, QuietOK DEF ClientStep
<1>3. CASE UNCHANGED scene /\ InternalStep
  BY <1>3, QuietOK, CheckOK DEF InternalStep
<1>4. CASE UNCHANGED scene /\ FileRead
  <2> DEFINE n == IF Wanted < Available THEN Wanted ELSE Available
  <2>1. /\ Consume(n) /\ Reading /\ UNCHANGED <<scene, writeVars, stream, faults>>
    BY <1>4 DEF FileRead
  <2>2. Wanted \in Nat /\ Available \in Nat
    BY <1>0, <2>1, WantedType, TapeType, ArrivedOnTape DEF Available
  <2>3. n \in Nat /\ n <= Wanted /\ n <= Available
    BY <2>2
  <2> HIDE DEF n
  <2> QED
    BY <2>1, <2>3, ConsumeOK
<1>5. CASE UNCHANGED scene /\ PipeRead
  <2>1. Reading /\ UNCHANGED <<scene, writeVars, stream, faults>>
    BY <1>5 DEF PipeRead
  <2>2. PICK n \in 0 .. Wanted : n <= Available /\ Consume(n)
    BY <1>5 DEF PipeRead
  <2>3. n \in Nat /\ n <= Wanted
    BY <1>0, <2>1, WantedType
  <2> QED
    BY <2>1, <2>2, <2>3, ConsumeOK
<1>6. CASE UNCHANGED scene /\ PipeReadFails
  BY <1>6, ReadFailsOK
<1>7. CASE UNCHANGED vars
  <2>1. UNCHANGED <<scene, writeVars, stream, rpos, faults, readVars>>
    BY <1>7 DEF vars
  <2>2. TypeOK'
    BY <1>0, <2>1 DEF TypeOK, CallOK, readVars, writeVars
  <2>3. /\ Shaped' /\ TapeOK' /\ WriterOK' /\ SentGrows
        /\ TapeLen' = TapeLen /\ Tape' = Tape
    BY <1>0, <2>1, <2>2, ReaderFrame DEF Shaped
  <2>4. Later' = Later /\ Returned' = Returned /\ Returned \subseteq DOMAIN sent
    BY <1>0, <2>1, <2>3, LaterSame DEF ReaderOK, readVars
  <2>5. Arrived' = Arrived /\ News' = News
    BY <2>1, <2>4 DEF Arrived, News
  <2>6. PlaceOK'
    BY <1>0, <2>1, <2>5 DEF PlaceOK, readVars, HasPrefix, HasGroups, Whole, WireSlotsRead
  <2>7. \A id \in Returned : WireCells(id)' = WireCells(id)
    BY <2>3, <2>4, AnyCellGrows
  <2>8. ReaderOK'
    <3>1. rpos' = rpos /\ out' = out /\ sent' = sent
      BY <2>1 DEF readVars, writeVars
    <3> QED
      BY <1>0, <2>3, <2>4, <2>5, <2>7, <3>1 DEF ReaderOK
  <2> QED
    BY <2>3, <2>6, <2>8 DEF SInv
<1> QED
  BY <1>1, <1>2, <1>3, <1>4, <1>5, <1>6, <1>7 DEF FNext, Writes

(* For every packet table, medium, client and number of faults: writer,    *)
(* stream and reader keep to their types, and the reader never reads past  *)
(* the end of the stream.                                                  *)
THEOREM StreamTypeCorrect == FSpec => []FTypeOK
<1>1. SInv => FTypeOK
  <2> SUFFICES ASSUME SInv PROVE FTypeOK
    OBVIOUS
  <2>1. w.id \in 0 .. Len(sent)
    BY DEF SInv, Shaped, TypeOK, WriterOK
  <2> QED
    BY <2>1 DEF SInv, Shaped, WriterOK, WriterRec, FTypeOK
<1> QED
  BY <1>1, InitSInv, StepSInv, PTL DEF FSpec

(* What pueo_read_X returns without a warning went through the stream      *)
(* whole, in the order of writing, and never twice: through every crash,   *)
(* short write, failed read and loss of the reader's place.                *)
THEOREM SilentIsInOrder == FSpec => []SilentInOrder
<1>1. SInv => SilentInOrder
  <2> SUFFICES ASSUME SInv PROVE SilentInOrder
    OBVIOUS
  <2>1. ReaderOK
    BY DEF SInv
  <2>2. ASSUME NEW i \in DOMAIN out, out[i] # 0 PROVE WholeInStream(out[i])
    <3>1. PICK id : id = out[i]
      OBVIOUS
    <3>2. id \in Returned
      BY <2>2, <3>1 DEF Returned
    <3>3. /\ \A s \in WireSlots(sent[id].type, sent[id].ver, sent[id].counts) :
                Cell(id, s) \in Arrived
          /\ \A k \in 1 .. HeadLen : Cell(id, HeadSlot(k)) \in Arrived
      BY <2>1, <3>2 DEF ReaderOK, WireCells
    <3> QED
      BY <3>1, <3>3 DEF WholeInStream, Arrived
  <2>3. \A i, j \in DOMAIN out : i < j /\ out[i] # 0 /\ out[j] # 0 => out[i] < out[j]
    BY <2>1 DEF ReaderOK
  <2> QED
    BY <2>2, <2>3 DEF SilentInOrder
<1> QED
  BY <1>1, InitSInv, StepSInv, PTL DEF FSpec

(* A simple or variable packet that is returned without a warning holds    *)
(* its own bytes, and zeros behind them: nothing of an earlier packet.     *)
THEOREM NothingIsStale == FSpec => []NothingStale
<1>1. SInv => NothingStale
  <2> SUFFICES ASSUME SInv, call.pc = "check", Silent, Codec[call.type] # "wave",
                      NEW a \in 1 .. SizeOf(call.type)
               PROVE  pkt.mem[a] = Zero \/ pkt.mem[a][1] = h.hdr.sum
    BY DEF NothingStale
  <2> DEFINE n == Cardinality(WireSlotsRead)
  <2>1. TypeOK /\ PlaceOK
    BY DEF SInv, Shaped
  <2>2. /\ call.type \in Types /\ h.hdr.ver \in Nat /\ call.counts \in [Groups -> Nat]
    BY <2>1 DEF TypeOK, CallOK, Handles, Headers, Calls
  <2>3. Whole
    BY DEF Silent, LengthOk, Whole
  <2>4. a \in 1 .. MemSize
    BY <2>2, LayoutTypes, MemoryAssumption, ReadAssumption
  <2>5. a > n => pkt.mem[a] = Zero
    BY <2>1, <2>3, <2>4 DEF PlaceOK
  <2>6. ASSUME ~(a > n) PROVE \E s \in WireSlotsRead : AddrOf(call.type, s) = a
    <3>1. CASE Codec[call.type] = "simple"
      <4> DEFINE P == Prefix(call.type, h.hdr.ver)
      <4>1. WireSlotsRead = {Slot(0, i) : i \in 1 .. P} /\ n = P /\ P \in Nat
        BY <2>2, <3>1, PlainSlots, PrefixPlace DEF WireSlotsRead
      <4>2. AddrOf(call.type, Slot(0, a)) = a
        BY DEF AddrOf, Slot
      <4> HIDE DEF P, n
      <4>3. a \in 1 .. P
        BY <2>4, <2>6, <4>1
      <4> QED
        BY <4>1, <4>2, <4>3
    <3>2. CASE Codec[call.type] = "var"
      <4> DEFINE T == TailLen(call.type, h.hdr.ver, call.counts[1])
      <4>1. /\ WireSlotsRead = {Slot(1, i) : i \in 0 .. T}
            /\ n = 1 + T /\ T \in Nat
        BY <2>2, <3>2, PlainSlots DEF WireSlotsRead
      <4>2. AddrOf(call.type, Slot(1, a - 1)) = 1 + (a - 1)
        <5>1. /\ PrefixLen[call.type][CurVer[call.type]] = 0
              /\ MaxCount[call.type] \in Nat
          BY <2>2, <3>2, PrefixPlace, TableAssumption
        <5>2. GroupAddr(call.type, 1) = 1
          BY <5>1 DEF GroupAddr
        <5> QED
          BY <5>2 DEF AddrOf, Slot
      <4> HIDE DEF T, n
      <4>3. a - 1 \in 0 .. T /\ 1 + (a - 1) = a
        BY <2>4, <2>6, <4>1
      <4> QED
        BY <4>1, <4>2, <4>3
    <3> QED
      BY <2>2, <3>1, <3>2, TableAssumption DEF Codecs
  <2>7. ASSUME NEW s \in WireSlotsRead, AddrOf(call.type, s) = a
        PROVE  pkt.mem[a][1] = h.hdr.sum
    <3>1. pkt.mem[a] = Cell(h.hdr.sum, s)
      BY <2>7 DEF Silent, ChecksumOk
    <3> QED
      BY <3>1 DEF Cell
  <2> QED
    BY <2>5, <2>6, <2>7
<1> QED
  BY <1>1, InitSInv, StepSInv, PTL DEF FSpec

-----------------------------------------------------------------------------
(* What a writer that met no fault has counted.                            *)

CountOK ==
    faults = 0 =>
        /\ w.nwr >= 0
        /\ w.counter + (IF w.pc = "idle" THEN 0 ELSE 1) = Len(sent)
        /\ TapeLen = w.bytes + (IF w.pc \in {"region", "done"} THEN w.nwr ELSE 0)

(* All of what was offered is taken.                                       *)
LEMMA WriteBytesCounts ==
    ASSUME SInv, CountOK, faults = 0, UNCHANGED scene, WriteBytes
    PROVE  CountOK'
<1> DEFINE cells == Write!Offered(w, sent[w.id])
           n     == Len(cells)
           last  == Len(Regions(w.id, sent[w.id]))
<1>0. Shaped /\ TapeOK /\ WriterOK /\ w \in WriterRec
  BY DEF SInv, WriterOK
<1>1. w.pc \in {"head", "region"} /\ Accept(n) /\ UNCHANGED <<sent, faults>>
  BY DEF WriteBytes
<1>2. /\ cells \in Seq(AllCells) /\ n \in Nat
      /\ w.pc = "head" => n = HeadLen
  BY <1>0, <1>1, OfferedCells
<1> HIDE DEF cells
<1>3. TapeLen' = TapeLen + n
  <2>1. SubSeq(cells, 1, n) = cells
    BY <1>2
  <2>2. \/ buf' = buf \o cells /\ stream' = stream
        \/ stream' = stream \o cells /\ buf' = buf /\ buf = <<>>
    BY <1>0, <1>1, <2>1, StreamAssumption DEF Accept, cells, Shaped
  <2> QED
    BY <1>0, <1>2, <2>2, Appended DEF TapeGrows
<1>4. w' = IF w.pc = "head" THEN Write!HeadWritten(w, n) ELSE Write!RegionWritten(w, n, last)
  BY <1>1 DEF Accept
<1> HIDE DEF n, last
<1>5. TapeLen \in Nat
  BY <1>0, TapeType
<1>6. CASE w.pc = "head"
  <2>1. w' = [w EXCEPT !.pc = "region", !.bytes = @ + 2] /\ n = 2
    BY <1>2, <1>4, <1>6, SameLayout DEF Write!HeadWritten, HeadLen
  <2>2. /\ w'.pc = "region" /\ w'.nwr = w.nwr /\ w'.counter = w.counter
        /\ w'.bytes = w.bytes + 2 /\ w.nwr = 0
    BY <1>0, <1>6, <2>1, HeadRec DEF WriterOK
  <2>3. TapeLen = w.bytes /\ w.bytes \in Nat
    BY <1>0, <1>6 DEF CountOK, WriterRec
  <2> QED
    BY <1>1, <1>3, <1>6, <2>1, <2>2, <2>3 DEF CountOK
<1>7. CASE w.pc = "region"
  <2>1. w.nwr \in Nat /\ w.nwr + n >= 0 /\ n \in Int
    BY <1>0, <1>2, <1>7 DEF CountOK, WriterRec
  <2>2. \/ w' = [w EXCEPT !.nwr = @ + n, !.region = @ + 1]
        \/ w' = [w EXCEPT !.nwr = @ + n, !.pc = "done"]
    BY <1>4, <1>7, <2>1 DEF Write!RegionWritten
  <2>3. /\ w'.pc \in {"region", "done"} /\ w'.nwr = w.nwr + n
        /\ w'.counter = w.counter /\ w'.bytes = w.bytes
    <3>1. CASE w' = [w EXCEPT !.nwr = @ + n, !.region = @ + 1]
      BY <1>0, <1>7, <2>1, <3>1, RegionRec, ZenonT(30)
    <3>2. CASE w' = [w EXCEPT !.nwr = @ + n, !.pc = "done"]
      BY <1>0, <2>1, <3>2, DoneRec, ZenonT(30)
    <3> QED
      BY <2>2, <3>1, <3>2
  <2>4. TapeLen = w.bytes + w.nwr /\ w.bytes \in Nat
    BY <1>0, <1>7 DEF CountOK, WriterRec
  <2>5. w'.nwr >= 0 /\ TapeLen' = w'.bytes + w'.nwr
    BY <1>2, <1>3, <2>1, <2>3, <2>4
  <2> QED
    BY <1>1, <1>7, <2>3, <2>5 DEF CountOK
<1> QED
  BY <1>1, <1>6, <1>7

LEMMA StepCounts == SInv /\ CountOK /\ [FNext]_vars => CountOK'
<1> SUFFICES ASSUME SInv, CountOK, [FNext]_vars, faults' = 0 PROVE CountOK'
  BY DEF CountOK
<1>0. Shaped /\ TapeOK /\ WriterOK /\ w \in WriterRec /\ faults \in Nat
  BY StreamAssumption DEF SInv, WriterOK, Shaped
<1>1. ASSUME UNCHANGED <<w, sent, faults>>, TapeLen' = TapeLen PROVE CountOK'
  BY <1>1 DEF CountOK
<1>2. ASSUME UNCHANGED scene, NEW p \in Shapes, StartWrite(p) PROVE CountOK'
  <2>1. /\ w' = [w EXCEPT !.pc = "head", !.id = Len(sent) + 1, !.region = 1, !.nwr = 0]
        /\ w.pc = "idle" /\ sent' = Append(sent, p) /\ UNCHANGED <<buf, stream, faults>>
    BY <1>2 DEF StartWrite, Write!Begin
  <2>2. /\ w'.pc = "head" /\ w'.nwr = 0 /\ w'.counter = w.counter /\ w'.bytes = w.bytes
    BY <1>0, <2>1 DEF WriterRec
  <2>3. Len(sent') = Len(sent) + 1 /\ TapeLen' = TapeLen
    BY <1>0, <2>1 DEF TapeLen, Shaped, TypeOK
  <2> QED
    BY <1>0, <2>1, <2>2, <2>3 DEF CountOK, WriterRec
<1>3. CASE UNCHANGED scene /\ WriteBytes
  <2>1. faults = 0
    BY <1>3 DEF WriteBytes
  <2> QED
    BY <1>3, <2>1, WriteBytesCounts
<1>4. ASSUME WriteShort \/ Crash \/ PipeReadFails PROVE FALSE
  BY <1>0, <1>4 DEF WriteShort, Crash, PipeReadFails
<1>5. CASE FinishWrite
  <2>1. /\ w.pc = "done" /\ UNCHANGED <<sent, buf, stream, faults>>
        /\ w' = Write!Done(w, 0)
    BY <1>5 DEF FinishWrite
  <2> DEFINE u == Write!Return(w, HeadLen + w.nwr)
  <2>2. HeadLen + w.nwr \in Int
    BY <1>0 DEF WriterRec, HeadLen
  <2>3. /\ u \in WriterRec /\ u.pc = "idle" /\ u.nwr = 0
        /\ u.counter = w.counter /\ u.bytes = w.bytes
    BY <1>0, <2>2, ReturnRec DEF Write!Return, WriterRec
  <2>4. w' = [u EXCEPT !.bytes = @ + w.nwr, !.counter = @ + 1]
    BY <2>1, SameLayout DEF Write!Done
  <2> HIDE DEF u
  <2>5. /\ w'.pc = "idle" /\ w'.nwr = 0 /\ w'.counter = w.counter + 1
        /\ w'.bytes = w.bytes + w.nwr
    BY <2>3, <2>4 DEF WriterRec
  <2>6. TapeLen' = TapeLen
    BY <2>1 DEF TapeLen
  <2>7. w.counter + 1 = Len(sent) /\ TapeLen = w.bytes + w.nwr
    BY <2>1 DEF CountOK
  <2> QED
    BY <1>0, <2>1, <2>5, <2>6, <2>7 DEF CountOK, WriterRec
<1>6. CASE Flush
  <2>1. PICK n \in 1 .. Len(buf) :
           stream' = stream \o SubSeq(buf, 1, n) /\ buf' = SubSeq(buf, n + 1, Len(buf))
    BY <1>6 DEF Flush
  <2>2. TapeLen' = TapeLen
    BY <1>0, <2>1, Flushed
  <2> QED
    BY <1>1, <1>6, <2>2 DEF Flush
<1>7. CASE ClientStep \/ InternalStep \/ FileRead \/ PipeRead \/ UNCHANGED vars
  <2>1. UNCHANGED <<writeVars, stream, faults>>
    BY <1>7 DEF ClientStep, InternalStep, FileRead, PipeRead, vars
  <2>2. UNCHANGED <<w, sent, faults>> /\ TapeLen' = TapeLen
    BY <2>1 DEF writeVars, TapeLen
  <2> QED
    BY <1>1, <2>2
<1> QED
  BY <1>2, <1>3, <1>4, <1>5, <1>6, <1>7 DEF FNext

(* bytes_written and packet_write_counter of a writer that met no fault    *)
(* are what the medium was given, between any two calls of pueo_write_X.   *)
THEOREM BytesWrittenIsExact == FSpec => []BytesWrittenExact
<1>1. FInit => CountOK
  BY DEF FInit, Init, CountOK, TapeLen, Write!FreshWriter
<1>2. SInv /\ CountOK => BytesWrittenExact
  BY DEF SInv, WriterOK, WriterRec, CountOK, BytesWrittenExact, TapeLen
<1> QED
  BY <1>1, <1>2, InitSInv, StepSInv, StepCounts, PTL DEF FSpec

-----------------------------------------------------------------------------
(* A file that nothing happens to, read once it is written: packet id lies *)
(* where the packets before it end.                                        *)

Start(id) == Cardinality({c \in AnyCell : c[1] < id})

(* How many cells a packet has.                                            *)
LEMMA CellsCount ==
    ASSUME TypeOK, NEW id \in DOMAIN sent, NEW n,
           n = NumBytes(sent[id].type, sent[id].ver, sent[id].counts)
    PROVE  /\ n \in Nat /\ IsFiniteSet(CellsOf(id))
           /\ Cardinality(CellsOf(id)) = HeadLen + n
<1> PICK p : p = sent[id]
  OBVIOUS
<1> DEFINE H == {HeadSlot(i) : i \in 1 .. HeadLen}
           S == H \cup WireOf(p)
           f == [s \in S |-> Cell(id, s)]
<1>1. p \in Packets /\ p.type \in Types /\ p.ver \in Nat /\ p.counts \in [Groups -> Nat]
  BY SentTypes, GroupTypes
<1>2. IsFiniteSet(WireOf(p)) /\ Cardinality(WireOf(p)) = n /\ n \in Nat
  BY <1>1, WireFinite, NumBytesType DEF WireOf, NumBytes
<1>3. H = {HeadSlot(1), HeadSlot(2)} /\ HeadSlot(1) # HeadSlot(2)
  BY DEF HeadLen, HeadSlot
<1>4. IsFiniteSet(H) /\ Cardinality(H) = 2
  <2>1. IsFiniteSet({HeadSlot(2)}) /\ Cardinality({HeadSlot(2)}) = 1
    BY FS_Singleton
  <2> PICK a : a = HeadSlot(1)
    OBVIOUS
  <2> PICK B : B = {HeadSlot(2)}
    OBVIOUS
  <2>2. H = B \cup {a} /\ a \notin B
    BY <1>3
  <2>3. IsFiniteSet(B) /\ Cardinality(B) = 1
    BY <2>1
  <2> HIDE DEF H
  <2>4. IsFiniteSet(B \cup {a}) /\ Cardinality(B \cup {a}) = Cardinality(B) + 1
    BY <2>2, <2>3, FS_AddElement
  <2> QED
    BY <2>2, <2>3, <2>4
<1>5. H \cap WireOf(p) = {}
  <2>1. \A s \in H : s[1] = -1
    BY DEF HeadSlot
  <2>2. \A s \in WireOf(p) : s[1] \in Nat
    BY <1>1, GroupOfSlot, GroupTypes
  <2> QED
    BY <2>1, <2>2
<1> HIDE DEF H
<1>6. IsFiniteSet(S) /\ Cardinality(S) = 2 + n
  <2>1. Cardinality(H \cap WireOf(p)) = 0
    BY <1>5, FS_EmptySet
  <2> QED
    BY <1>2, <1>4, <2>1, FS_Union
<1>7. CellsOf(id) = {f[s] : s \in S}
  BY DEF CellsOf, WireOf, H
<1>8. f \in Bijection(S, CellsOf(id))
  <2>1. f \in [S -> CellsOf(id)] /\ \A y \in CellsOf(id) : \E s \in S : f[s] = y
    BY <1>7
  <2>2. \A s, u \in S : f[s] = f[u] => s = u
    BY DEF Cell
  <2> HIDE DEF f, S
  <2> QED
    BY <2>1, <2>2 DEF Bijection, Injection, Surjection, IsInjective
<1> HIDE DEF f, S
<1>9. ExistsBijection(S, CellsOf(id))
  BY <1>8 DEF ExistsBijection
<1>10. IsFiniteSet(CellsOf(id)) /\ Cardinality(CellsOf(id)) = 2 + n
  BY <1>6, <1>9, FS_Bijection
<1> QED
  BY <1>2, <1>10 DEF HeadLen

(* The packets before id have finitely many cells.                         *)
LEMMA StartType ==
    ASSUME TypeOK, NEW id
    PROVE  IsFiniteSet({c \in AnyCell : c[1] < id}) /\ Start(id) \in Nat
<1> DEFINE f == [i \in DOMAIN sent |-> CellsOf(i)]
<1>1. IsFiniteSet(DOMAIN sent)
  <2>1. DOMAIN sent = 1 .. Len(sent) /\ Len(sent) \in Nat
    BY DEF TypeOK
  <2> QED
    BY <2>1, FS_Interval
<1>2. IsFiniteSet({f[i] : i \in DOMAIN sent})
  BY <1>1, FiniteImage
<1>3. \A i \in DOMAIN sent : IsFiniteSet(CellsOf(i))
  BY CellsCount
<1>4. IsFiniteSet(AnyCell)
  <2>1. AnyCell = UNION {f[i] : i \in DOMAIN sent}
    BY DEF AnyCell
  <2> HIDE DEF AnyCell
  <2> QED
    BY <1>2, <1>3, <2>1, FS_UNION
<1>5. {c \in AnyCell : c[1] < id} \subseteq AnyCell
  OBVIOUS
<1> QED
  BY <1>4, <1>5, FS_Subset, FS_CardinalityType DEF Start

(* Each packet adds its header and its payload, and a packet ends before   *)
(* all later ones begin.                                                   *)
LEMMA StartNext ==
    ASSUME TypeOK, NEW id \in DOMAIN sent
    PROVE  Start(id + 1) = Start(id) + HeadLen
                             + NumBytes(sent[id].type, sent[id].ver, sent[id].counts)
<1> DEFINE B(i) == {c \in AnyCell : c[1] < i}
           n == NumBytes(sent[id].type, sent[id].ver, sent[id].counts)
<1>1. B(id + 1) = B(id) \cup CellsOf(id) /\ B(id) \cap CellsOf(id) = {}
  <2>1. \A c \in AnyCell : c[1] \in Int /\ c \in CellsOf(c[1])
    BY CellIsOf DEF TypeOK
  <2>2. \A c \in CellsOf(id) : c[1] = id /\ c \in AnyCell
    BY DEF CellsOf, AnyCell, Cell
  <2>3. id \in Int
    BY DEF TypeOK
  <2>4. \A c \in AnyCell : c[1] < id + 1 <=> c[1] < id \/ c[1] = id
    BY <2>1, <2>3
  <2>5. ~(id < id) /\ id < id + 1
    BY <2>3
  <2> QED
    BY <2>1, <2>2, <2>4, <2>5
<1>2. IsFiniteSet(B(id)) /\ Cardinality(B(id)) = Start(id) /\ Start(id) \in Nat
  BY StartType DEF Start
<1>3. IsFiniteSet(CellsOf(id)) /\ Cardinality(CellsOf(id)) = HeadLen + n /\ n \in Nat
  BY CellsCount
<1>4. Cardinality(B(id + 1)) = Start(id + 1)
  BY DEF Start
<1>5. Cardinality(B(id) \cap CellsOf(id)) = 0
  BY <1>1, FS_EmptySet
<1> HIDE DEF B, n
<1>6. Start(id + 1) = Start(id) + (HeadLen + n) - 0
  BY <1>1, <1>2, <1>3, <1>4, <1>5, FS_Union
<1>7. Start(id + 1) = Start(id) + HeadLen + n
  BY <1>2, <1>3, <1>6 DEF HeadLen
<1> QED
  BY <1>7 DEF n

LEMMA StartOrder ==
    ASSUME TypeOK, NEW i \in Int, NEW j \in Int, i <= j
    PROVE  Start(i) <= Start(j)
<1>1. {c \in AnyCell : c[1] < i} \subseteq {c \in AnyCell : c[1] < j}
  <2>1. \A c \in AnyCell : c[1] \in Int
    BY CellIsOf DEF TypeOK
  <2> QED
    BY <2>1
<1> QED
  BY <1>1, StartType, FS_Subset DEF Start

(* The first packet lies at the start, and new packets move no other.      *)
LEMMA StartFirst == ASSUME TypeOK PROVE Start(1) = 0
<1>1. {c \in AnyCell : c[1] < 1} = {}
  BY CellIsOf DEF TypeOK
<1> QED
  BY <1>1, FS_EmptySet DEF Start

LEMMA StartKept ==
    ASSUME TypeOK, SentGrows, NEW id \in 1 .. Len(sent) + 1
    PROVE  Start(id)' = Start(id)
<1>1. AnyCell \subseteq AnyCell' /\ \A i \in DOMAIN sent : CellsOf(i)' = CellsOf(i)
  BY AnyCellGrows
<1>2. Len(sent) \in Nat /\ DOMAIN sent = 1 .. Len(sent)
  BY DEF TypeOK
<1>3. ASSUME NEW c \in AnyCell', c[1] < id PROVE c \in AnyCell
  <2>1. PICK i \in DOMAIN sent' : c \in CellsOf(i)'
    BY DEF AnyCell
  <2>2. c[1] = i
    BY <2>1 DEF CellsOf, Cell
  <2>3. i \in DOMAIN sent
    <3>1. i \in 1 .. Len(sent')
      BY <2>1 DEF SentGrows
    <3> QED
      BY <1>2, <1>3, <2>2, <3>1
  <2> QED
    BY <1>1, <2>1, <2>3 DEF AnyCell
<1>4. {c \in AnyCell' : c[1] < id} = {c \in AnyCell : c[1] < id}
  BY <1>1, <1>3
<1> QED
  BY <1>4 DEF Start

(* No fault can happen to the file, it is read when it is complete, and    *)
(* the reader uses pueo_ll_read or pueo_ll_read_realloc.                   *)
Clean == /\ ~Live
         /\ \A s \in Scenes : s.medium = "file" /\ s.faults = 0 /\ "typed" \notin s.ops

(* Every packet but the one being written lies whole in its place, that    *)
(* one up to the region that is next.                                      *)
CleanTape ==
    /\ \A id \in DOMAIN sent :
          id # w.id \/ w.pc = "done" => HoldsWhole(Tape, Start(id), id, sent[id])
    /\ w.pc \in {"idle", "done"} => TapeLen = Start(Len(sent) + 1)
    /\ w.pc = "head" => TapeLen = Start(w.id)
    /\ w.pc = "region" =>
          LET p == sent[w.id]
              g == GroupOf(p.type, w.region)
          IN  /\ Holds(Tape, Start(w.id), w.id, p, g)
              /\ TapeLen = Start(w.id) + HeadLen + Size(p, g)

(* A packet that is whole ends where the next one begins, on the tape.     *)
LEMMA TapeRoom ==
    ASSUME SInv, CleanTape, NEW id \in DOMAIN sent, id # w.id \/ w.pc = "done"
    PROVE  /\ Start(id) \in Nat
           /\ Start(id) + HeadLen + NumBytes(sent[id].type, sent[id].ver, sent[id].counts)
                <= TapeLen
<1>1. TypeOK /\ Len(sent) \in Nat /\ id \in 1 .. Len(sent) /\ TapeLen \in Nat
  BY TapeType DEF SInv, Shaped, TypeOK
<1>2. /\ Start(id) \in Nat
      /\ Start(id + 1) = Start(id) + HeadLen
                           + NumBytes(sent[id].type, sent[id].ver, sent[id].counts)
  BY <1>1, StartType, StartNext
<1>3. /\ w.pc \in {"idle", "head", "region", "done"}
      /\ w.pc # "idle" => w.id = Len(sent)
  BY DEF SInv, WriterOK, WriterRec
<1>4. Start(id + 1) <= TapeLen
  <2>1. CASE w.pc \in {"idle", "done"}
    BY <1>1, <2>1, StartOrder DEF CleanTape
  <2>2. CASE w.pc \in {"head", "region"}
    <3>1. id + 1 <= w.id /\ w.id \in Int
      BY <1>1, <1>3, <2>2
    <3>2. Start(id + 1) <= Start(w.id)
      BY <1>1, <3>1, StartOrder
    <3>3. Start(w.id) <= TapeLen
      <4>1. CASE w.pc = "head"
        BY <1>1, <4>1 DEF CleanTape
      <4>2. CASE w.pc = "region"
        <5>1. Size(sent[w.id], GroupOf(sent[w.id].type, w.region)) \in Nat
          <6>1. w.id \in DOMAIN sent
            BY <1>1, <1>3, <2>2
          <6>2. sent[w.id] \in Packets
            BY <1>1, <6>1, SentTypes
          <6> QED
            BY <6>2, SizeType
        <5>2. Start(w.id) \in Nat
          BY <1>1, StartType
        <5> QED
          BY <4>2, <5>1, <5>2 DEF CleanTape, HeadLen
      <4> QED
        BY <2>2, <4>1, <4>2
    <3>4. Start(id + 1) \in Nat /\ Start(w.id) \in Nat
      BY <1>1, StartType
    <3> QED
      BY <1>1, <3>2, <3>3, <3>4
  <2> QED
    BY <1>3, <2>1, <2>2
<1> QED
  BY <1>2, <1>4

(* What is whole stays so as the tape grows.                               *)
LEMMA WholeKept ==
    ASSUME SInv, CleanTape, NEW new, \A i \in 1 .. TapeLen : new[i] = Tape[i],
           NEW id \in DOMAIN sent, id # w.id \/ w.pc = "done"
    PROVE  HoldsWhole(new, Start(id), id, sent[id])
<1> PICK p : p = sent[id]
  OBVIOUS
<1> DEFINE g == NumGroups[p.type] + 1
<1>1. p \in Packets /\ TapeLen \in Nat
  BY SentTypes, TapeType DEF SInv, Shaped
<1>2. g \in 0 .. NumGroups[p.type] + 1 /\ Size(p, g) = NumBytes(p.type, p.ver, p.counts)
  BY <1>1, SizeEnds, GroupTypes
<1>3. Start(id) \in Nat /\ Start(id) + HeadLen + Size(p, g) <= TapeLen
  BY <1>2, TapeRoom
<1>4. Holds(Tape, Start(id), id, p, g)
  BY DEF CleanTape, HoldsWhole
<1>5. Holds(new, Start(id), id, p, g)
  <2> HIDE DEF g
  <2> QED
    BY <1>1, <1>2, <1>3, <1>4, HoldsKept
<1> QED
  BY <1>5 DEF HoldsWhole

(* The same, as a step leaves it.                                          *)
LEMMA WholeStays ==
    ASSUME SInv, CleanTape, SentGrows, \A i \in 1 .. TapeLen : Tape'[i] = Tape[i],
           NEW id \in DOMAIN sent, id # w.id \/ w.pc = "done"
    PROVE  HoldsWhole(Tape', Start(id)', id, sent'[id])
<1> PICK new : new = Tape'
  OBVIOUS
<1>1. HoldsWhole(new, Start(id), id, sent[id])
  BY WholeKept
<1>2. Start(id)' = Start(id) /\ sent'[id] = sent[id]
  BY StartKept DEF SentGrows, SInv, Shaped, TypeOK
<1> QED
  BY <1>1, <1>2

(* What the tape has to be after a step: id is the packet being written.   *)
LEMMA CleanTapeNext ==
    ASSUME NEW id, id = w'.id, NEW p, p = sent'[id], NEW s, s = Start(id)',
           \A i \in DOMAIN sent' :
              i # id \/ w'.pc = "done" => HoldsWhole(Tape', Start(i)', i, sent'[i]),
           NEW e, e = Len(sent') + 1,
           w'.pc \in {"idle", "done"} => TapeLen' = Start(e)',
           w'.pc = "head" => TapeLen' = s,
           w'.pc = "region" =>
              /\ Holds(Tape', s, id, p, GroupOf(p.type, w'.region))
              /\ TapeLen' = s + HeadLen + Size(p, GroupOf(p.type, w'.region))
    PROVE  CleanTape'
<1>1. Start(Len(sent) + 1)' = Start(e)' /\ Start(w.id)' = s
  BY DEF Start
<1> QED
  BY <1>1 DEF CleanTape

(* The header goes behind the packets, a region behind the region before.  *)
LEMMA WriteClean ==
    ASSUME SInv, CleanTape, UNCHANGED scene, WriteBytes
    PROVE  CleanTape'
<1> PICK id : id = w.id
  OBVIOUS
<1> PICK p : p = sent[id]
  OBVIOUS
<1> PICK cells : cells = Write!Offered(w, p)
  OBVIOUS
<1> DEFINE n == Len(cells)
           last == Len(Regions(id, p))
<1>0. Shaped /\ TapeOK /\ WriterOK /\ w \in WriterRec /\ TypeOK
  BY DEF SInv, WriterOK, Shaped
<1>1. w.pc \in {"head", "region"} /\ Accept(n) /\ UNCHANGED sent
  BY DEF WriteBytes
<1>2. /\ id \in DOMAIN sent /\ id = Len(sent) /\ id \in Nat /\ p \in Packets
      /\ cells \in Seq(AllCells) /\ n \in Nat
      /\ w.pc = "head" => /\ n = HeadLen
                          /\ \A k \in 1 .. HeadLen : cells[k] = Cell(id, HeadSlot(k))
  <2>1. /\ w.id \in DOMAIN sent /\ cells \in Seq(AllCells)
        /\ w.pc = "head" => /\ Len(cells) = HeadLen
                            /\ \A k \in 1 .. HeadLen : cells[k] = Cell(w.id, HeadSlot(k))
    BY <1>0, <1>1, OfferedCells
  <2>2. id = Len(sent)
    BY <1>0, <1>1 DEF WriterOK
  <2>3. p \in Packets /\ id \in Nat
    <3>1. TypeOK /\ id \in DOMAIN sent
      BY <1>0, <2>1
    <3>2. sent[id] \in Packets /\ id \in Nat
      BY <3>1, SentTypes
    <3> QED
      BY <3>2
  <2> QED
    BY <2>1, <2>2, <2>3
<1>3. w' = IF w.pc = "head" THEN Write!HeadWritten(w, n) ELSE Write!RegionWritten(w, n, last)
  BY <1>1 DEF Accept
<1>4. TapeGrows(cells)
  <2>1. SubSeq(cells, 1, n) = cells
    BY <1>2
  <2>2. \/ buf' = buf \o cells /\ stream' = stream
        \/ stream' = stream \o cells /\ buf' = buf /\ buf = <<>>
    BY <1>0, <1>1, <2>1, StreamAssumption DEF Accept, Shaped
  <2> QED
    BY <1>0, <1>2, <2>2, Appended
<1>5. SentGrows /\ TapeLen \in Nat /\ Start(id) \in Nat /\ Start(id)' = Start(id)
  <2>1. SentGrows
    BY <1>0, <1>1 DEF SentGrows, TypeOK
  <2>2. id \in 1 .. Len(sent) + 1
    BY <1>2
  <2>3. TypeOK /\ TapeLen \in Nat
    BY <1>0, TapeType
  <2>4. Start(id) \in Nat /\ Start(id)' = Start(id)
    BY <2>1, <2>2, <2>3, StartType, StartKept
  <2> QED
    BY <2>1, <2>3, <2>4
<1>6. \A i \in DOMAIN sent : i # id => HoldsWhole(Tape', Start(i)', i, sent'[i])
  BY <1>4, <1>5, WholeStays DEF TapeGrows
<1>7. DOMAIN sent' = DOMAIN sent /\ sent'[id] = p
  BY <1>1
<1> PICK new : new = Tape'
  OBVIOUS
<1>8. /\ TapeLen' = TapeLen + n
      /\ \A i \in 1 .. TapeLen : new[i] = Tape[i]
      /\ \A k \in 1 .. n : new[TapeLen + k] = cells[k]
  BY <1>4 DEF TapeGrows
<1> HIDE DEF last, n
<1>9. CASE w.pc = "head"
  <2> DEFINE g == GroupOf(p.type, 1)
  <2>1. w' = [w EXCEPT !.pc = "region", !.bytes = @ + 2]
    BY <1>2, <1>3, <1>9, SameLayout DEF Write!HeadWritten, HeadLen
  <2>2. w'.pc = "region" /\ w'.id = id /\ w'.region = 1
    <3>1. w.region = 1
      BY <1>0, <1>9 DEF WriterOK
    <3> QED
      BY <1>0, <2>1, <3>1, HeadRec
  <2>3. TapeLen = Start(id)
    BY <1>9 DEF CleanTape
  <2>4. \A k \in 1 .. HeadLen : new[Start(id) + k] = HeadCells(id)[k]
    BY <1>2, <1>8, <1>9, <2>3 DEF HeadCells
  <2>5. Holds(new, Start(id), id, p, g)
    BY <1>2, <1>5, <2>4, HoldsHead
  <2>6. TapeLen' = Start(id) + HeadLen + Size(p, g)
    BY <1>2, <1>5, <1>8, <1>9, <2>3, FirstRegion DEF HeadLen
  <2>7. w'.region = 1 /\ g = GroupOf(p.type, w'.region)
    BY <2>2
  <2>8. \A i \in DOMAIN sent' :
           i # id \/ w'.pc = "done" => HoldsWhole(Tape', Start(i)', i, sent'[i])
    BY <1>6, <1>7, <2>2
  <2> HIDE DEF g
  <2> QED
    BY <1>5, <1>7, <2>2, <2>5, <2>6, <2>7, <2>8, CleanTapeNext
<1> DEFINE g == GroupOf(p.type, w.region)
<1>10. ASSUME w.pc = "region"
       PROVE  /\ w.region \in 1 .. last /\ cells = Regions(id, p)[w.region]
              /\ g \in 0 .. NumGroups[p.type] /\ n = LenOf(p, g)
              /\ \A k \in 1 .. LenOf(p, g) : cells[k] = Cell(id, SlotAt(g, k))
              /\ GroupOf(p.type, w.region + 1) = g + 1
              /\ w.region = last <=> g = NumGroups[p.type]
              /\ last \in Nat
              /\ TapeLen = Start(id) + HeadLen + Size(p, g)
              /\ Holds(new, Start(id), id, p, g + 1)
              /\ TapeLen' = Start(id) + HeadLen + Size(p, g + 1)
  <2>1. w.region \in 1 .. last /\ cells = Regions(id, p)[w.region]
    BY <1>0, <1>10, SameLayout DEF WriterOK, Write!Offered, last
  <2>2. /\ g \in 0 .. NumGroups[p.type] /\ n = LenOf(p, g)
        /\ \A k \in 1 .. LenOf(p, g) : cells[k] = Cell(id, SlotAt(g, k))
        /\ GroupOf(p.type, w.region + 1) = g + 1
        /\ w.region = last <=> g = NumGroups[p.type]
    BY <1>2, <2>1, RegionIs, SMTT(30) DEF n, last
  <2>3. TapeLen = Start(id) + HeadLen + Size(p, g) /\ Holds(Tape, Start(id), id, p, g)
    BY <1>10 DEF CleanTape
  <2>4. last \in Nat
    BY <1>2, RegionsOf DEF last
  <2> HIDE DEF g
  <2>5. Holds(new, Start(id), id, p, g + 1)
    <3>1. \A k \in 1 .. LenOf(p, g) : new[TapeLen + k] = Cell(id, SlotAt(g, k))
      BY <1>8, <2>2
    <3> PICK old : old = Tape
      OBVIOUS
    <3> PICK L : L = TapeLen
      OBVIOUS
    <3> PICK b : b = Start(id)
      OBVIOUS
    <3> PICK f : f = g
      OBVIOUS
    <3>2. L \in Nat /\ b \in Nat /\ f \in 0 .. NumGroups[p.type] /\ p \in Packets
          /\ L = b + HeadLen + Size(p, f) /\ Holds(old, b, id, p, f)
      BY <1>2, <1>5, <2>2, <2>3
    <3>3. /\ \A i \in 1 .. L : new[i] = old[i]
          /\ \A k \in 1 .. LenOf(p, f) : new[L + k] = Cell(id, SlotAt(f, k))
      BY <1>8, <3>1
    <3>4. Holds(new, b, id, p, f + 1)
      BY <3>2, <3>3, HoldsMore
    <3> QED
      BY <3>4
  <2>6. TapeLen' = Start(id) + HeadLen + Size(p, g + 1)
    <3>1. /\ Size(p, g + 1) = Size(p, g) + LenOf(p, g)
          /\ Size(p, g) \in Nat /\ LenOf(p, g) \in Nat
      BY <1>2, <2>2, SizeNext, SizeType, GroupTypes
    <3> QED
      BY <1>5, <1>8, <2>2, <2>3, <3>1 DEF HeadLen
  <2> QED
    BY <2>1, <2>2, <2>3, <2>4, <2>5, <2>6
<1>11. CASE w.pc = "region" /\ w.region < last
  <2>1. w' = [w EXCEPT !.nwr = @ + n, !.region = @ + 1]
    BY <1>3, <1>11 DEF Write!RegionWritten
  <2>2. /\ w'.pc = "region" /\ w'.id = id /\ w'.region = w.region + 1
    <3>1. n \in Int
      BY <1>2 DEF n
    <3> QED
      BY <1>0, <1>11, <2>1, <3>1, RegionRec
  <2>3. GroupOf(p.type, w'.region) = g + 1
    BY <1>10, <1>11, <2>2
  <2>4. /\ Holds(new, Start(id), id, p, g + 1)
        /\ TapeLen' = Start(id) + HeadLen + Size(p, g + 1)
    BY <1>10, <1>11
  <2>5. \A i \in DOMAIN sent' :
           i # id \/ w'.pc = "done" => HoldsWhole(Tape', Start(i)', i, sent'[i])
    BY <1>6, <1>7, <2>2
  <2> HIDE DEF g
  <2> QED
    BY <1>5, <1>7, <2>2, <2>3, <2>4, <2>5, CleanTapeNext
<1>12. CASE w.pc = "region" /\ ~(w.region < last)
  <2>1. g = NumGroups[p.type] /\ NumGroups[p.type] \in Nat
    <3>1. w.region = last
      BY <1>10, <1>12
    <3> QED
      BY <1>2, <1>10, <1>12, <3>1, GroupTypes
  <2>2. /\ Holds(new, Start(id), id, p, NumGroups[p.type] + 1)
        /\ TapeLen' = Start(id) + HeadLen + Size(p, NumGroups[p.type] + 1)
    BY <1>10, <1>12, <2>1
  <2>3. TapeLen' = Start(id + 1)
    <3>1. Start(id + 1) = Start(id) + HeadLen + NumBytes(p.type, p.ver, p.counts)
      BY <1>0, <1>2, StartNext
    <3>2. Size(p, NumGroups[p.type] + 1) = NumBytes(p.type, p.ver, p.counts)
      BY <1>2, SizeEnds
    <3> QED
      BY <2>2, <3>1, <3>2
  <2>4. Start(Len(sent) + 1)' = TapeLen'
    <3>1. Len(sent) + 1 \in 1 .. Len(sent) + 1
      BY <1>2
    <3> PICK j : j = Len(sent) + 1
      OBVIOUS
    <3>2. Start(j)' = Start(j) /\ j = Len(sent') + 1
      BY <1>0, <1>1, <1>5, <3>1, StartKept
    <3> QED
      BY <1>2, <2>3, <3>2
  <2>5. \A i \in DOMAIN sent' : HoldsWhole(Tape', Start(i)', i, sent'[i])
    BY <1>5, <1>6, <1>7, <2>2 DEF HoldsWhole
  <2>6. w'.pc \in {"idle", "done"}
    <3>1. w' = IF w.nwr + n < 0 THEN Write!Return(w, w.nwr + n)
               ELSE [w EXCEPT !.nwr = @ + n, !.pc = "done"]
      BY <1>3, <1>12 DEF Write!RegionWritten
    <3> QED
      BY <1>0, <3>1 DEF Write!Return, WriterRec
  <2> QED
    BY <2>4, <2>5, <2>6 DEF CleanTape
<1> QED
  BY <1>1, <1>9, <1>11, <1>12

(* Whatever the writing process does when nothing fails.                   *)
LEMMA WritesClean ==
    ASSUME SInv, CleanTape, UNCHANGED scene, scene.faults = 0, Writes
    PROVE  CleanTape'
<1>0. Shaped /\ TapeOK /\ WriterOK /\ w \in WriterRec /\ TypeOK
      /\ Len(sent) \in Nat /\ DOMAIN sent = 1 .. Len(sent) /\ TapeLen \in Nat
  BY TapeType DEF SInv, WriterOK, Shaped, TypeOK
<1>1. ASSUME NEW p \in Shapes, StartWrite(p) PROVE CleanTape'
  <2>1. /\ w.pc = "idle" /\ w.id = 0 /\ sent' = Append(sent, p)
        /\ w' = [w EXCEPT !.pc = "head", !.id = Len(sent) + 1, !.region = 1, !.nwr = 0]
        /\ UNCHANGED <<buf, stream>> /\ SentGrows
    BY <1>0, <1>1, StartOK DEF StartWrite, Write!Begin, WriterOK
  <2>2. w'.pc = "head" /\ w'.id = Len(sent) + 1
    BY <1>0, <2>1 DEF WriterRec
  <2>3. Tape' = Tape /\ TapeLen' = TapeLen
    BY <2>1 DEF Tape, TapeLen
  <2>4. \A i \in DOMAIN sent : HoldsWhole(Tape', Start(i)', i, sent'[i])
    <3>1. \A i \in DOMAIN sent : i # w.id
      BY <1>0, <2>1
    <3> QED
      BY <2>1, <2>3, <3>1, WholeStays
  <2>5. \A i \in DOMAIN sent' : i # w'.id => i \in DOMAIN sent
    BY <1>0, <2>1, <2>2
  <2> PICK j : j = Len(sent) + 1
    OBVIOUS
  <2>6. TapeLen = Start(j) /\ Start(j)' = Start(j)
    BY <1>0, <2>1, StartKept DEF CleanTape
  <2>7. \A i \in DOMAIN sent' :
           i # j \/ w'.pc = "done" => HoldsWhole(Tape', Start(i)', i, sent'[i])
    BY <2>2, <2>4, <2>5
  <2> QED
    BY <2>2, <2>3, <2>6, <2>7, CleanTapeNext
<1>2. CASE FinishWrite
  <2>1. /\ w.pc = "done" /\ w'.pc = "idle" /\ UNCHANGED <<sent, buf, stream>>
    BY <1>0, <1>2 DEF FinishWrite, Write!Done, Write!Return, WriterRec
  <2>2. Tape' = Tape /\ TapeLen' = TapeLen /\ SentGrows
    BY <1>0, <2>1 DEF Tape, TapeLen, SentGrows, TypeOK
  <2>3. \A i \in DOMAIN sent' : HoldsWhole(Tape', Start(i)', i, sent'[i])
    BY <2>1, <2>2, WholeStays
  <2>4. Start(Len(sent) + 1)' = TapeLen'
    <3> PICK j : j = Len(sent) + 1
      OBVIOUS
    <3>1. Start(j)' = Start(j) /\ j = Len(sent') + 1
      BY <1>0, <2>1, <2>2, StartKept
    <3> QED
      BY <2>1, <2>2, <3>1 DEF CleanTape
  <2> QED
    BY <2>1, <2>3, <2>4 DEF CleanTape
<1>3. CASE Flush
  <2>1. PICK n \in 1 .. Len(buf) :
           stream' = stream \o SubSeq(buf, 1, n) /\ buf' = SubSeq(buf, n + 1, Len(buf))
    BY <1>3 DEF Flush
  <2>2. TapeLen' = TapeLen /\ UNCHANGED <<sent, w>> /\ SentGrows
        /\ \A i \in 1 .. TapeLen : Tape'[i] = Tape[i]
    BY <1>0, <1>3, <2>1, Flushed DEF Flush, TapeKept, SentGrows, TypeOK
  <2>3. \A i \in DOMAIN sent' :
           i # w'.id \/ w'.pc = "done" => HoldsWhole(Tape', Start(i)', i, sent'[i])
    BY <2>2, WholeStays
  <2>4. \A j \in 1 .. Len(sent) + 1 : Start(j)' = Start(j)
    BY <1>0, <2>2, StartKept
  <2> PICK id : id = w.id
    OBVIOUS
  <2> PICK p : p = sent[id]
    OBVIOUS
  <2> PICK g : g = GroupOf(p.type, w.region)
    OBVIOUS
  <2>6. w.pc \in {"head", "region"} => Start(id)' = Start(id)
    BY <1>0, <2>4 DEF WriterOK
  <2>7. w.pc = "region" => Holds(Tape', Start(id), id, p, g)
    <3> SUFFICES ASSUME w.pc = "region" PROVE Holds(Tape', Start(id), id, p, g)
      OBVIOUS
    <3> PICK old : old = Tape
      OBVIOUS
    <3> PICK new : new = Tape'
      OBVIOUS
    <3>1. id \in DOMAIN sent /\ id \in Nat /\ p \in Packets /\ w.region \in 1 .. Len(Regions(id, p))
      <4>1. id \in DOMAIN sent /\ w.region \in 1 .. Len(Regions(id, p))
        BY <1>0 DEF WriterOK
      <4> QED
        BY <1>0, <4>1, SentTypes
    <3>2. g \in 0 .. NumGroups[p.type] + 1
      <4>1. g \in 0 .. NumGroups[p.type]
        BY <3>1, RegionIs
      <4> QED
        BY <3>1, <4>1, GroupTypes
    <3>3. /\ Holds(old, Start(id), id, p, g) /\ Start(id) \in Nat
          /\ Start(id) + HeadLen + Size(p, g) <= TapeLen
      <4>1. Start(id) \in Nat /\ Size(p, g) \in Nat
        BY <1>0, <3>1, StartType, SizeType
      <4> QED
        BY <1>0, <4>1 DEF CleanTape
    <3>4. \A i \in 1 .. TapeLen : new[i] = old[i]
      BY <2>2
    <3>5. Holds(new, Start(id), id, p, g)
      BY <1>0, <3>1, <3>2, <3>3, <3>4, HoldsKept
    <3> QED
      BY <3>5
  <2>8. /\ w.pc = "head" => TapeLen = Start(id)
        /\ w.pc = "region" => TapeLen = Start(id) + HeadLen + Size(p, g)
    BY DEF CleanTape
  <2>9. w.pc = "region" => Start(id)' = Start(id) /\ Holds(Tape', Start(id)', id, p, g)
    BY <2>6, <2>7
  <2> PICK e : e = Len(sent) + 1
    OBVIOUS
  <2>10. w.pc \in {"idle", "done"} => TapeLen' = Start(e)'
    BY <1>0, <2>2, <2>4 DEF CleanTape
  <2> QED
    BY <2>2, <2>3, <2>6, <2>8, <2>9, <2>10, CleanTapeNext
<1>4. CASE WriteShort \/ Crash
  BY <1>0, <1>4 DEF WriteShort, Crash, Shaped
<1>5. CASE WriteBytes
  BY <1>5, WriteClean
<1> QED
  BY <1>1, <1>2, <1>3, <1>4, <1>5 DEF Writes

-----------------------------------------------------------------------------
(* The reader of such a file: packet id is the next it returns.            *)

AtStart(id) == ~h.head /\ rpos = Start(id) /\ h.bytesRead = rpos

HasHeader(id) ==
    /\ h.head /\ id \in DOMAIN sent /\ h.hdr = HeaderOf(id, sent[id])
    /\ rpos = Start(id) + HeadLen /\ h.bytesRead = rpos

Reads(id) ==
    /\ InPlace(id)
    /\ rpos = Start(id) + HeadLen + call.nrd
    /\ h.bytesRead = Start(id) + HeadLen

ReaderAt(id) ==
    /\ call.pc = "idle" => IF h.required = 0 THEN AtStart(id) ELSE HasHeader(id)
    /\ call.pc = "ll_header" => AtStart(id)
    /\ call.pc \in {"capacity", "typed_header"} => HasHeader(id)
    /\ call.pc \in PayloadPcs \cup {"check"} => Reads(id)

CleanReader ==
    /\ Len(out) <= Len(sent) /\ \A i \in DOMAIN out : out[i] = i
    /\ ~Quiet => call.pc = "idle"
    /\ \A id \in {Len(out) + 1} : ReaderAt(id)

(* A step of the reader leaves the tape, and what lies on it, alone.       *)
LEMMA TapeSame ==
    ASSUME CleanTape, UNCHANGED <<writeVars, stream>>
    PROVE  CleanTape' /\ Quiet' = Quiet /\ \A id : Start(id)' = Start(id)
<1>1. w' = w /\ buf' = buf /\ sent' = sent /\ stream' = stream
  BY DEF writeVars
<1>2. Quiet' = Quiet
  BY <1>1 DEF Quiet
<1>3. Tape' = Tape /\ TapeLen' = TapeLen
  BY <1>1 DEF Tape, TapeLen
<1>4. AnyCell' = AnyCell
  BY <1>1 DEF AnyCell, CellsOf
<1>5. \A id : Start(id)' = Start(id)
  BY <1>4 DEF Start
<1>6. Start(w.id)' = Start(w.id) /\ Start(Len(sent) + 1)' = Start(Len(sent) + 1)
  BY <1>1, <1>4 DEF Start
<1>7. CleanTape'
  BY <1>1, <1>3, <1>5, <1>6 DEF CleanTape
<1> QED
  BY <1>2, <1>5, <1>7

(* The reader does not run before the file is complete.                    *)
LEMMA WritesReaderClean ==
    ASSUME SInv, CleanTape, CleanReader, UNCHANGED scene, scene.faults = 0, Writes
    PROVE  CleanReader'
<1>0. /\ Shaped /\ TapeOK /\ WriterOK /\ TypeOK
      /\ Len(sent) \in Nat /\ DOMAIN sent = 1 .. Len(sent) /\ Len(out) \in Nat
  BY DEF SInv, Shaped, TypeOK
<1>1. SentGrows /\ UNCHANGED <<h, pkt, call, out, rpos>>
  BY <1>0, WritesOK DEF readVars
<1>2. call.pc = "idle"
  <2>1. CASE WriteShort \/ Crash
    BY <1>0, <2>1 DEF WriteShort, Crash, Shaped
  <2>2. CASE ~(WriteShort \/ Crash)
    <3>1. ASSUME NEW p, StartWrite(p) PROVE Len(sent) # MaxSent
      <4>1. Len(sent) < MaxSent
        BY <3>1 DEF StartWrite
      <4>2. MaxSent \in Nat /\ Len(sent) \in Nat
        BY <1>0, ReadAssumption
      <4> QED
        BY <4>1, <4>2
    <3>2. ASSUME WriteBytes \/ FinishWrite PROVE w.pc # "idle"
      BY <3>2 DEF WriteBytes, FinishWrite
    <3>3. ASSUME Flush PROVE buf # <<>>
      BY <3>3 DEF Flush
    <3>4. ~Quiet
      BY <2>2, <3>1, <3>2, <3>3 DEF Writes, Quiet
    <3> QED
      BY <3>4 DEF CleanReader
  <2> QED
    BY <2>1, <2>2
<1>3. Len(sent) <= Len(sent')
  <2>1. Len(sent') \in Nat /\ DOMAIN sent' = 1 .. Len(sent')
    BY <1>1 DEF SentGrows
  <2>2. Len(sent) = 0 \/ Len(sent) \in 1 .. Len(sent')
    BY <1>0, <1>1, <2>1 DEF SentGrows
  <2> QED
    BY <1>0, <2>1, <2>2
<1>4. Len(sent') \in Nat
  BY <1>1 DEF SentGrows
<1> PICK id : id = Len(out) + 1
  OBVIOUS
<1>5. ReaderAt(id) /\ Len(out) <= Len(sent) /\ \A i \in DOMAIN out : out[i] = i
  BY DEF CleanReader
<1>6. Start(id)' = Start(id)
  BY <1>0, <1>1, <1>5, StartKept
<1>7. AtStart(id) => AtStart(id)'
  BY <1>1, <1>6 DEF AtStart
<1>8. HasHeader(id) => HasHeader(id)'
  BY <1>1, <1>6 DEF HasHeader, SentGrows
<1>9. ReaderAt(id)'
  BY <1>1, <1>2, <1>5, <1>7, <1>8 DEF ReaderAt, PayloadPcs, ReadPcs, HeaderPcs
<1>10. Len(out') <= Len(sent') /\ \A i \in DOMAIN out' : out'[i] = i
  BY <1>0, <1>1, <1>3, <1>4, <1>5
<1> QED
  BY <1>1, <1>2, <1>9, <1>10 DEF CleanReader

(* A step of the reader that returns no packet.                            *)
LEMMA ReaderNext ==
    ASSUME SInv, CleanTape, CleanReader, Quiet, UNCHANGED <<writeVars, stream>>, out' = out,
           NEW id, id = Len(out) + 1, ReaderAt(id)'
    PROVE  CleanTape' /\ CleanReader'
<1>1. sent' = sent
  BY DEF writeVars
<1>2. CleanTape' /\ Quiet'
  BY TapeSame
<1>3. Len(out') <= Len(sent') /\ \A i \in DOMAIN out' : out'[i] = i
  BY <1>1 DEF CleanReader
<1> QED
  BY <1>2, <1>3 DEF CleanReader

(* The client makes its next call.                                         *)
LEMMA ClientClean ==
    ASSUME Clean, SInv, LLInv, CleanTape, CleanReader, UNCHANGED scene, ClientStep
    PROVE  LLInv' /\ CleanTape' /\ CleanReader' /\ UNCHANGED <<sent, out>>
<1> PICK id : id = Len(out) + 1
  OBVIOUS
<1>0. TypeOK /\ scene \in Scenes /\ call \in Calls
  BY DEF SInv, Shaped, TypeOK
<1>1. Quiet /\ Client /\ UNCHANGED <<writeVars, stream, rpos>> /\ call'.op # "typed"
  BY <1>0 DEF Clean, ClientStep
<1>2. LLInv'
  BY <1>0, <1>1, ClientLL
<1>3. h' = h /\ out' = out /\ call.pc = "idle" /\ sent' = sent /\ rpos' = rpos
  BY <1>1 DEF Client, LLRead, LLReadRealloc, TypedRead, ClientAllocates, writeVars
<1>4. IF h.required = 0 THEN AtStart(id) ELSE HasHeader(id)
  BY <1>3 DEF CleanReader, ReaderAt
<1>5. Start(id)' = Start(id)
  BY <1>1, TapeSame
<1>6. (AtStart(id) => AtStart(id)') /\ (HasHeader(id) => HasHeader(id)')
  BY <1>3, <1>5 DEF AtStart, HasHeader
<1>7. \/ call'.pc = "idle"
      \/ call'.pc = IF h.required = 0 THEN "ll_header" ELSE "capacity"
  <2>1. ASSUME NEW t, TypedRead(t) PROVE FALSE
    BY <1>1, <2>1 DEF TypedRead, Calling, Idle
  <2>2. CASE LLRead \/ LLReadRealloc
    BY <2>2 DEF LLRead, LLReadRealloc, Calling, Idle
  <2>3. ASSUME NEW cap, ClientAllocates(cap) PROVE call'.pc = "idle"
    BY <2>3 DEF ClientAllocates, Fresh, Idle
  <2> QED
    BY <1>1, <2>1, <2>2, <2>3 DEF Client
<1>8. ReaderAt(id)'
  BY <1>3, <1>4, <1>6, <1>7 DEF ReaderAt, PayloadPcs, ReadPcs, HeaderPcs
<1> QED
  BY <1>1, <1>2, <1>3, <1>8, ReaderNext

(* What needs no read_bytes and is not the end of a call.                  *)
LEMMA InternalClean ==
    ASSUME SInv, LLInv, CleanTape, CleanReader,
           UNCHANGED <<writeVars, stream, rpos>>, Internal, ~Check
    PROVE  LLInv' /\ CleanTape' /\ CleanReader' /\ UNCHANGED <<sent, out>>
<1> PICK id : id = Len(out) + 1
  OBVIOUS
<1>0. TypeOK /\ call \in Calls /\ h \in Handles /\ pkt \in Buffers /\ PlaceOK
  BY DEF SInv, Shaped, TypeOK
<1>1. LLInv'
  BY <1>0, InternalLL
<1>2. sent' = sent /\ out' = out /\ rpos' = rpos
  BY DEF Internal, HeaderAlreadyRead, TooSmall, Dispatch, SimpleBadVersion, writeVars
<1>3. call.pc # "idle" /\ Quiet
  <2>1. call.pc # "idle"
    BY DEF Internal, HeaderAlreadyRead, TooSmall, Dispatch, SimpleBadVersion, HeaderPcs,
           WantsPayload
  <2> QED
    BY <2>1 DEF CleanReader
<1>4. ReaderAt(id) /\ Start(id)' = Start(id)
  BY TapeSame DEF CleanReader
<1>5. h' = h => (HasHeader(id) => HasHeader(id)')
  BY <1>2, <1>4 DEF HasHeader
<1>6. CASE HeaderAlreadyRead
  <2>1. call.pc = "typed_header" /\ HasHeader(id) /\ TypedHeader(h)
    <3>1. call.pc \in HeaderPcs /\ h.head /\ HeaderDone(h, 0)
      BY <1>6 DEF HeaderAlreadyRead
    <3>2. call.pc # "ll_header"
      BY <1>4, <3>1 DEF ReaderAt, AtStart
    <3>3. call.pc = "typed_header"
      BY <3>1, <3>2 DEF HeaderPcs
    <3> QED
      BY <1>4, <3>1, <3>3 DEF ReaderAt, HeaderDone
  <2>2. /\ call.type = h.hdr.type /\ id \in DOMAIN sent /\ h.hdr = HeaderOf(id, sent[id])
        /\ sent[id] \in Packets
    BY <1>0, <2>1, SentTypes DEF LLInv, HasHeader
  <2>3. call.nrd = 0
    BY <1>0, <2>1 DEF PlaceOK, HeaderPcs
  <2>4. h' = [h EXCEPT !.head = FALSE] /\ call' = [call EXCEPT !.pc = FirstRead(call.type)]
    BY <2>1, <2>2 DEF TypedHeader
  <2>5. /\ h'.hdr = h.hdr /\ h'.bytesRead = h.bytesRead
        /\ call'.pc = FirstRead(call'.type) /\ call'.nrd = 0 /\ call'.type = call.type
    BY <1>0, <2>3, <2>4 DEF Handles, Calls
  <2>6. call'.type = sent[id].type
    BY <2>2, <2>5 DEF HeaderOf
  <2>7. InPlace(id)' /\ call'.pc \in PayloadPcs
    BY <1>2, <2>2, <2>5, <2>6, StartsInPlace
  <2>8. Reads(id)'
    <3>1. /\ rpos = Start(id) + HeadLen /\ h.bytesRead = rpos
          /\ Start(id) \in Nat
      BY <1>0, <2>1, StartType DEF HasHeader
    <3>2. rpos' = Start(id) + HeadLen + call'.nrd /\ h'.bytesRead = Start(id) + HeadLen
      BY <1>2, <2>5, <3>1 DEF HeadLen
    <3> QED
      BY <1>4, <2>7, <3>2 DEF Reads
  <2>9. ReaderAt(id)'
    BY <2>7, <2>8 DEF ReaderAt, PayloadPcs, ReadPcs, HeaderPcs
  <2> QED
    BY <1>1, <1>2, <1>3, <2>9, ReaderNext
<1>7. CASE TooSmall
  <2>1. /\ call.pc = "capacity" /\ pkt.cap < h.required /\ h' = h
        /\ \/ call' = Idle(EMSGSIZE)
           \/ call' = [call EXCEPT !.op = "ll"]
    BY <1>7 DEF TooSmall
  <2>2. h.required # 0 /\ HasHeader(id)
    BY <1>0, <1>4, <2>1 DEF ReaderAt, Buffers
  <2>3. call'.pc \in {"idle", "capacity"}
    BY <1>0, <2>1 DEF Calls, Idle
  <2>4. ReaderAt(id)'
    BY <1>5, <2>1, <2>2, <2>3 DEF ReaderAt, PayloadPcs, ReadPcs, HeaderPcs
  <2> QED
    BY <1>1, <1>2, <1>3, <2>4, ReaderNext
<1>8. CASE Dispatch
  <2>1. call.pc = "capacity" /\ HasHeader(id)
    BY <1>4, <1>8 DEF Dispatch, ReaderAt
  <2>2. h.hdr.type \in Types
    <3>1. id \in DOMAIN sent /\ h.hdr.type = sent[id].type
      BY <2>1 DEF HasHeader, HeaderOf
    <3>2. sent[id] \in Packets
      BY <1>0, <3>1, SentTypes
    <3> QED
      BY <3>1, <3>2 DEF Packets
  <2>3. h' = h /\ call'.pc = "typed_header"
    <3>1. call' = [call EXCEPT !.pc = "typed_header", !.type = h.hdr.type] /\ h' = h
      BY <1>8, <2>2 DEF Dispatch
    <3> QED
      BY <1>0, <3>1 DEF Calls
  <2>4. ReaderAt(id)'
    BY <1>5, <2>1, <2>3 DEF ReaderAt, PayloadPcs, ReadPcs, HeaderPcs
  <2> QED
    BY <1>1, <1>2, <1>3, <2>4, ReaderNext
<1>9. CASE SimpleBadVersion
  <2>1. call'.pc = "crashed"
    BY <1>0, <1>9 DEF SimpleBadVersion, Calls
  <2>2. ReaderAt(id)'
    BY <2>1 DEF ReaderAt, PayloadPcs, ReadPcs, HeaderPcs
  <2> QED
    BY <1>1, <1>2, <1>3, <2>2, ReaderNext
<1> QED
  BY <1>6, <1>7, <1>8, <1>9 DEF Internal

(* The end of a call: the next packet is returned, without a warning.      *)
LEMMA CheckClean ==
    ASSUME SInv, LLInv, CleanTape, CleanReader,
           UNCHANGED <<writeVars, stream, rpos>>, Check
    PROVE  /\ LLInv' /\ CleanTape' /\ CleanReader' /\ UNCHANGED sent
           /\ out' = Append(out, Len(out) + 1) /\ Len(out) < Len(sent)
<1> PICK id : id = Len(out) + 1
  OBVIOUS
<1>0. TypeOK /\ call \in Calls /\ h \in Handles /\ out \in Seq(Nat) /\ Len(out) \in Nat
      /\ Len(sent) \in Nat /\ DOMAIN sent = 1 .. Len(sent)
  BY DEF SInv, Shaped, TypeOK
<1>1. LLInv'
  BY <1>0, InternalLL DEF Internal
<1>2. call.pc = "check" /\ sent' = sent /\ rpos' = rpos
  BY DEF Check, writeVars
<1>3. Quiet /\ Quiet' /\ CleanTape' /\ \A i : Start(i)' = Start(i)
  BY <1>2, TapeSame DEF CleanReader
<1>4. Reads(id) /\ InPlace(id)
  BY <1>2 DEF CleanReader, ReaderAt, Reads
<1>5. /\ Silent /\ h.hdr.sum = id /\ call.nrd > 0 /\ id \in DOMAIN sent
      /\ call.nrd = NumBytes(sent[id].type, sent[id].ver, sent[id].counts)
  BY <1>0, <1>2, <1>4, CheckServed DEF InPlace
<1>6. out' = Append(out, id) /\ ReadXReturns([h EXCEPT !.bytesRead = @ + call.nrd], call.nrd)
  BY <1>5 DEF Check
<1>7. call.op # "typed"
  BY <1>2 DEF LLInv
<1>8. /\ call'.pc = "idle" /\ h'.required = 0 /\ ~h'.head
      /\ h'.bytesRead = h.bytesRead + call.nrd
  <2> PICK n : n = call.nrd
    OBVIOUS
  <2> DEFINE u == [h EXCEPT !.bytesRead = @ + n]
  <2>1. call' = Idle(n) /\ h' = [u EXCEPT !.required = 0, !.head = FALSE]
    BY <1>6, <1>7 DEF ReadXReturns
  <2> QED
    BY <1>0, <2>1 DEF Handles, Idle
<1>9. AtStart(id + 1)'
  <2>1. Start(id + 1) = Start(id) + HeadLen + call.nrd /\ Start(id) \in Nat
    BY <1>0, <1>5, StartNext, StartType
  <2>2. rpos = Start(id + 1) /\ h.bytesRead + call.nrd = rpos
    BY <1>0, <1>4, <2>1 DEF Reads, HeadLen, Calls
  <2> PICK j : j = id + 1
    OBVIOUS
  <2>3. Start(j)' = Start(j) /\ j = id + 1
    BY <1>3
  <2>4. AtStart(j)'
    BY <1>2, <1>8, <2>2, <2>3 DEF AtStart
  <2> QED
    BY <2>4
<1>10. /\ Len(out') = id /\ Len(out') <= Len(sent') /\ Len(out) < Len(sent)
       /\ \A i \in DOMAIN out' : out'[i] = i
  <2>1. Len(out) <= Len(sent) /\ \A i \in DOMAIN out : out[i] = i
    BY DEF CleanReader
  <2> QED
    BY <1>0, <1>2, <1>5, <1>6, <2>1
<1>11. \A i \in {Len(out') + 1} : ReaderAt(i)'
  <2> PICK j : j = id + 1
    OBVIOUS
  <2>1. ReaderAt(j)' /\ j = Len(out') + 1
    BY <1>8, <1>9, <1>10 DEF ReaderAt, PayloadPcs, ReadPcs, HeaderPcs
  <2> QED
    BY <2>1
<1> QED
  BY <1>1, <1>2, <1>3, <1>6, <1>8, <1>10, <1>11 DEF CleanReader

(* What fread brings is what comes next in the packet.                     *)
LEMMA FileReadClean ==
    ASSUME SInv, LLInv, CleanTape, CleanReader, UNCHANGED scene, FileRead
    PROVE  LLInv' /\ CleanTape' /\ CleanReader' /\ UNCHANGED <<sent, out>>
<1> PICK id : id = Len(out) + 1
  OBVIOUS
<1> PICK p : p = sent[id]
  OBVIOUS
<1> PICK n : n = IF Wanted < Available THEN Wanted ELSE Available
  OBVIOUS
<1> PICK res : res = [cells |-> SubSeq(stream, rpos + 1, rpos + n),
                      err |-> FALSE, mark |-> FALSE]
  OBVIOUS
<1>0. /\ TypeOK /\ Shaped /\ PlaceOK /\ call \in Calls /\ h \in Handles
      /\ Len(sent) \in Nat /\ DOMAIN sent = 1 .. Len(sent) /\ Len(out) \in Nat
      /\ Len(stream) \in Nat /\ rpos \in Nat /\ rpos <= Len(stream)
      /\ stream \in Seq(AllCells) /\ Available = Len(stream) - rpos
  BY ArrivedOnTape DEF SInv, Shaped, TypeOK, Available
<1>1. /\ Reading /\ Receive(res) /\ rpos' = rpos + n
      /\ UNCHANGED <<writeVars, stream>> /\ sent' = sent /\ Wanted \in Nat
  <2>1. Reading
    BY DEF FileRead
  <2> QED
    BY <1>0, <2>1, WantedType DEF FileRead, Consume, writeVars
<1>2. /\ n \in Nat /\ rpos + n <= Len(stream)
      /\ res \in Results /\ res.cells = SubSeq(stream, rpos + 1, rpos + n)
      /\ Len(res.cells) = n /\ ~res.err /\ res.mark = FALSE
      /\ \A k \in 1 .. n : res.cells[k] = stream[rpos + k]
  <2>1. n \in Nat /\ rpos + n <= Len(stream)
    BY <1>0, <1>1
  <2>2. /\ SubSeq(stream, rpos + 1, rpos + n) \in Seq(AllCells)
        /\ Len(SubSeq(stream, rpos + 1, rpos + n)) = n
        /\ \A k \in 1 .. n : SubSeq(stream, rpos + 1, rpos + n)[k] = stream[rpos + k]
    BY <1>0, <2>1
  <2> QED
    BY <2>1, <2>2 DEF Results
<1>3. LLInv' /\ out' = out
  <2>1. LLInv'
    BY <1>0, <1>1, <1>2, ReceiveLL
  <2>2. out' = out
    BY <1>1 DEF Receive, HeaderArrives, HeaderNothing, HeaderFails, SimpleRead, VarFixed,
         VarTail, WavePrefix, WaveHead, WaveData
  <2> QED
    BY <2>1, <2>2
<1>4. Quiet /\ call.pc # "idle"
  <2>1. call.pc # "idle"
    BY <1>1 DEF Reading, ReadPcs, HeaderPcs
  <2> QED
    BY <2>1 DEF CleanReader
<1>5. /\ Len(stream) = Start(Len(sent) + 1) /\ Len(stream) = TapeLen
      /\ \A i \in 1 .. Len(stream) : Tape[i] = stream[i]
  <2>1. buf = <<>> /\ w.pc = "idle"
    BY <1>4 DEF Quiet
  <2>2. TapeLen = Len(stream)
    BY <1>0, <2>1 DEF TapeLen
  <2>3. \A i \in 1 .. Len(stream) : Tape[i] = stream[i]
    BY <1>0, TapeType
  <2> QED
    BY <2>1, <2>2, <2>3 DEF CleanTape
<1>6. \A i \in DOMAIN sent : HoldsWhole(stream, Start(i), i, sent[i])
  <2>1. \A i \in DOMAIN sent : i # w.id
    BY <1>0, <1>4 DEF SInv, WriterOK, Quiet
  <2>2. \A i \in 1 .. TapeLen : stream[i] = Tape[i]
    BY <1>5
  <2> QED
    BY <2>1, <2>2, WholeKept
<1>7. ReaderAt(id) /\ Start(id)' = Start(id) /\ Len(out) <= Len(sent)
  BY <1>1, TapeSame DEF CleanReader
<1>8. CASE call.pc \in HeaderPcs
  <2>1. call.pc = "ll_header" /\ ~h.head /\ Wanted = HeadLen
    <3>1. ~h.head
      BY <1>1, <1>8 DEF Reading, ReadPcs, HeaderPcs
    <3>2. call.pc # "typed_header"
      BY <3>1 DEF LLInv
    <3> QED
      BY <1>8, <3>1, <3>2 DEF HeaderPcs, Wanted
  <2>2. rpos = Start(id) /\ h.bytesRead = rpos /\ h.required = 0
    BY <1>7, <2>1 DEF ReaderAt, AtStart, LLInv
  <2>3. HeaderArrives(res) \/ HeaderNothing(res)
    BY <1>1, <1>2, <2>1 DEF Receive, HeaderFails, SimpleRead, VarFixed, VarTail,
       WavePrefix, WaveHead, WaveData, WantsPayload
  <2>4. CASE Len(out) = Len(sent)
    <3>1. n = 0
      BY <1>0, <1>1, <1>5, <2>1, <2>2, <2>4 DEF HeadLen
    <3>2. HeaderEOF([h EXCEPT !.head = res.mark])
      <4>1. Len(res.cells) = 0
        BY <1>2, <3>1
      <4>2. ~(Len(res.cells) > 0)
        BY ONLY <4>1
      <4>3. ~HeaderArrives(res)
        BY ONLY <4>2 DEF HeaderArrives
      <4>4. HeaderNothing(res)
        BY ONLY <2>3, <4>3
      <4> QED
        BY ONLY <4>4 DEF HeaderNothing
    <3>3. h' = [h EXCEPT !.head = FALSE] /\ call' = Idle(EOF)
      BY <1>2, <2>1, <3>2 DEF HeaderEOF
    <3>4. ~h'.head /\ h'.required = 0 /\ h'.bytesRead = h.bytesRead /\ call'.pc = "idle"
      BY <1>0, <2>2, <3>3 DEF Handles, Idle
    <3>5. AtStart(id)'
      BY <1>0, <1>1, <1>7, <2>2, <3>1, <3>4, SMTT(30) DEF AtStart
    <3>6. ReaderAt(id)'
      BY <3>4, <3>5 DEF ReaderAt, PayloadPcs, ReadPcs, HeaderPcs
    <3> QED
      BY <1>1, <1>3, <1>4, <3>6, ReaderNext
  <2>5. CASE Len(out) # Len(sent)
    <3>1. id \in DOMAIN sent /\ id + 1 <= Len(sent) + 1
      BY <1>0, <1>7, <2>5
    <3>2. n = HeadLen
      <4>1. Start(id + 1) <= Start(Len(sent) + 1)
        BY <1>0, <3>1, StartOrder
      <4>2. /\ Start(id + 1) = Start(id) + HeadLen + NumBytes(p.type, p.ver, p.counts)
            /\ NumBytes(p.type, p.ver, p.counts) \in Nat
        BY <1>0, <3>1, StartNext, CellsCount
      <4>3. Wanted <= Available
        <5> PICK a : a = Start(id)
          OBVIOUS
        <5> PICK b : b = Start(id + 1)
          OBVIOUS
        <5> PICK e : e = Start(Len(sent) + 1)
          OBVIOUS
        <5> PICK m : m = NumBytes(p.type, p.ver, p.counts)
          OBVIOUS
        <5>1. /\ m \in Nat /\ a \in Nat /\ e \in Nat /\ b = a + 2 + m /\ b <= e
              /\ Wanted = 2 /\ Available = e - a
          BY <1>0, <1>5, <2>1, <2>2, <4>1, <4>2 DEF HeadLen
        <5> QED
          BY ONLY <5>1
      <4> QED
        BY <1>1, <2>1, <4>3
    <3>3. \A k \in 1 .. HeadLen : res.cells[k] = Cell(id, HeadSlot(k))
      <4>1. \A k \in 1 .. HeadLen : stream[Start(id) + k] = Cell(id, HeadSlot(k))
        BY <1>6, <3>1 DEF HoldsWhole, Holds
      <4> QED
        BY <1>2, <2>2, <3>2, <4>1
    <3>4. Overlaid(h.hdr, res.cells) = {HeaderOf(id, p)}
      BY <1>2, <3>1, <3>2, <3>3, HeaderServed
    <3> PICK hdr : hdr = HeaderOf(id, p)
      OBVIOUS
    <3> DEFINE u == [h EXCEPT !.hdr = hdr, !.head = TRUE, !.bytesRead = @ + HeadLen]
    <3>5. HeaderDone(u, HeadLen)
      <4>1. HeaderArrives(res)
        <5>1. Len(res.cells) = 2
          BY <1>2, <3>2 DEF HeadLen
        <5>2. ~(Len(res.cells) = 0)
          BY ONLY <5>1
        <5>3. ~HeaderNothing(res)
          BY ONLY <5>2 DEF HeaderNothing
        <5> QED
          BY ONLY <2>3, <5>3
      <4> QED
        BY <1>2, <3>2, <3>4, <4>1 DEF HeaderArrives
    <3>6. /\ u.hdr = hdr /\ u.head /\ u.required = h.required
          /\ u.bytesRead = h.bytesRead + HeadLen
      BY <1>0 DEF Handles
    <3> HIDE DEF u
    <3>7. /\ h' = u \/ h' = [u EXCEPT !.required = SizeOf(u.hdr.type)]
          /\ call' = [call EXCEPT !.pc = "capacity"]
      BY <2>1, <3>5 DEF HeaderDone, LLHeader, HeadLen
    <3>8. h'.hdr = hdr /\ h'.head /\ h'.bytesRead = h.bytesRead + HeadLen
          /\ call'.pc = "capacity"
      <4>1. u \in [{"hdr", "required", "head", "bytesRead"} -> {u.hdr, u.required, u.head, u.bytesRead}]
        BY <1>0 DEF Handles, u
      <4> QED
        BY <1>0, <3>6, <3>7, <4>1 DEF Calls
    <3>9. HasHeader(id)'
      BY <1>0, <1>1, <1>7, <2>2, <3>1, <3>2, <3>8 DEF HasHeader
    <3>10. ReaderAt(id)'
      BY <3>8, <3>9 DEF ReaderAt, PayloadPcs, ReadPcs, HeaderPcs
    <3> QED
      BY <1>1, <1>3, <1>4, <3>10, ReaderNext
  <2> QED
    BY <2>4, <2>5
<1>9. CASE call.pc \in PayloadPcs
  <2>1. /\ InPlace(id) /\ rpos = Start(id) + HeadLen + call.nrd
        /\ h.bytesRead = Start(id) + HeadLen /\ id \in DOMAIN sent
    BY <1>7, <1>9 DEF ReaderAt, Reads, InPlace
  <2>2. /\ call.nrd \in Nat /\ NumBytes(p.type, p.ver, p.counts) \in Nat
        /\ call.nrd + Wanted <= NumBytes(p.type, p.ver, p.counts)
    BY <1>0, <1>9, <2>1, AsksForItsOwn
  <2>3. Start(id) \in Nat
    BY <1>0, StartType
  <2>4. n = Wanted
    <3>1. Start(id + 1) = Start(id) + HeadLen + NumBytes(p.type, p.ver, p.counts)
      BY <1>0, <2>1, StartNext
    <3>2. Start(id + 1) <= Start(Len(sent) + 1)
      BY <1>0, <2>1, StartOrder
    <3>3. Wanted <= Available
      <4> PICK a : a = Start(id)
        OBVIOUS
      <4> PICK b : b = Start(id + 1)
        OBVIOUS
      <4> PICK e : e = Start(Len(sent) + 1)
        OBVIOUS
      <4> PICK m : m = NumBytes(p.type, p.ver, p.counts)
        OBVIOUS
      <4> PICK v : v = Wanted
        OBVIOUS
      <4> PICK k : k = call.nrd
        OBVIOUS
      <4>1. /\ m \in Nat /\ a \in Nat /\ e \in Nat /\ v \in Nat /\ k \in Nat
            /\ b = a + 2 + m /\ b <= e
        BY <1>0, <1>1, <1>5, <2>2, <2>3, <3>1, <3>2 DEF HeadLen
      <4>2. k + v <= m /\ rpos = a + 2 + k
        BY <2>1, <2>2 DEF HeadLen
      <4>3. Available = e - rpos
        BY <1>0, <1>5
      <4>4. v <= e - rpos
        BY ONLY <4>1, <4>2
      <4> QED
        BY ONLY <4>3, <4>4, v = Wanted
    <3> QED
      BY <1>0, <1>1, <3>3
  <2>5. Served(id, res)
    <3>1. \A k \in 1 .. Wanted :
             stream[Start(id) + HeadLen + call.nrd + k]
               = Cell(id, SlotAt(ReadGroup, ReadCells + k))
      BY <1>0, <1>6, <1>9, <2>1, <2>3, WholeServes
    <3> QED
      BY <1>2, <2>1, <2>4, <3>1 DEF Served
  <2>6. /\ InPlace(id)' /\ call'.pc \in PayloadPcs \cup {"check"}
        /\ call'.nrd = call.nrd + Wanted /\ h'.bytesRead = h.bytesRead
    BY <1>0, <1>1, <1>2, <1>9, <2>1, <2>5, PayloadServed
  <2>7. Reads(id)'
    <3>1. rpos' = Start(id) + HeadLen + call'.nrd
      BY <1>1, <2>1, <2>2, <2>3, <2>4, <2>6, SMTT(30) DEF HeadLen
    <3> QED
      BY <1>7, <2>1, <2>6, <3>1 DEF Reads
  <2>8. ReaderAt(id)'
    BY <2>6, <2>7 DEF ReaderAt, PayloadPcs, ReadPcs, HeaderPcs
  <2> QED
    BY <1>1, <1>3, <1>4, <2>8, ReaderNext
<1> QED
  BY <1>1, <1>8, <1>9 DEF Reading, PayloadPcs, ReadPcs, HeaderPcs


(* All of it, and that every run of such a stream keeps it.                *)
CleanInv == SInv /\ LLInv /\ CleanTape /\ CleanReader

LEMMA InitClean == ASSUME FInit PROVE CleanInv
<1>1. SInv
  BY InitSInv
<1>2. /\ Init /\ buf = <<>> /\ stream = <<>> /\ rpos = 0
      /\ w.pc = "idle"
  BY DEF FInit, Write!FreshWriter
<1>3. /\ sent = <<>> /\ out = <<>> /\ ~h.head /\ h.required = 0 /\ h.bytesRead = 0
      /\ call.pc = "idle" /\ call.op = "fresh"
  BY <1>2 DEF Init, Fresh, Idle, FreshHandle
<1>4. LLInv
  BY <1>3 DEF LLInv, HandleConsistent, PayloadPcs, ReadPcs, HeaderPcs
<1>5. Start(1) = 0
  BY <1>1, StartFirst DEF SInv, Shaped
<1>6. Len(sent) = 0 /\ DOMAIN sent = {} /\ Len(out) = 0 /\ DOMAIN out = {}
  BY <1>3
<1>7. CleanTape
  <2>1. TapeLen = 0
    BY <1>2 DEF TapeLen
  <2> QED
    BY <1>2, <1>5, <1>6, <2>1 DEF CleanTape
<1>8. CleanReader
  <2>1. ReaderAt(1)
    BY <1>2, <1>3, <1>5 DEF ReaderAt, AtStart, PayloadPcs, ReadPcs, HeaderPcs
  <2> QED
    BY <1>3, <1>6, <2>1 DEF CleanReader
<1> QED
  BY <1>1, <1>4, <1>7, <1>8 DEF CleanInv

(* What one step is to the queue of the packets that are written and not   *)
(* yet read.                                                               *)
Enters == /\ \E p \in Shapes : sent' = Append(sent, p)
          /\ out' = out
Leaves == /\ out' = Append(out, Len(out) + 1) /\ Len(out) < Len(sent)
          /\ sent' = sent

LEMMA StepClean ==
    ASSUME Clean, CleanInv, [FNext]_vars
    PROVE  CleanInv' /\ (Enters \/ Leaves \/ UNCHANGED <<sent, out>>)
<1>0. SInv /\ LLInv /\ CleanTape /\ CleanReader
  BY DEF CleanInv
<1>1. SInv'
  BY <1>0, StepSInv
<1>2. scene.medium = "file" /\ scene.faults = 0
  BY <1>0 DEF Clean, SInv, Shaped
<1>3. CASE UNCHANGED scene /\ Writes
  <2>1. CleanTape' /\ CleanReader'
    BY <1>0, <1>2, <1>3, WritesClean, WritesReaderClean
  <2>2. UNCHANGED readVars
    BY <1>0, <1>3, WritesOK DEF SInv
  <2>3. LLInv'
    BY <1>0, <2>2 DEF LLInv, HandleConsistent, readVars
  <2>4. Enters \/ UNCHANGED <<sent, out>>
    <3>1. out' = out
      BY <2>2 DEF readVars
    <3> QED
      BY <1>3, <3>1 DEF Writes, StartWrite, WriteBytes, WriteShort, FinishWrite,
         Flush, Crash, Enters
  <2> QED
    BY <1>1, <2>1, <2>3, <2>4 DEF CleanInv
<1>4. CASE UNCHANGED scene /\ ClientStep
  BY <1>0, <1>1, <1>4, ClientClean DEF CleanInv
<1>5. CASE UNCHANGED scene /\ InternalStep
  <2>1. UNCHANGED <<writeVars, stream, rpos>> /\ Internal
    BY <1>5 DEF InternalStep
  <2>2. CASE Check
    BY <1>0, <1>1, <2>1, <2>2, CheckClean DEF CleanInv, Leaves
  <2>3. CASE ~Check
    BY <1>0, <1>1, <2>1, <2>3, InternalClean DEF CleanInv
  <2> QED
    BY <2>2, <2>3
<1>6. CASE UNCHANGED scene /\ FileRead
  BY <1>0, <1>1, <1>6, FileReadClean DEF CleanInv
<1>7. ~PipeRead /\ ~PipeReadFails
  BY <1>2 DEF PipeRead, PipeReadFails
<1>8. CASE UNCHANGED vars
  <2>1. UNCHANGED <<writeVars, stream, rpos, readVars>>
    BY <1>8 DEF vars
  <2>2. /\ h' = h /\ call' = call /\ out' = out /\ rpos' = rpos /\ sent' = sent
        /\ pkt' = pkt
    BY <2>1 DEF readVars, writeVars
  <2>3. CleanTape' /\ Quiet' = Quiet
    BY <1>0, <2>1, TapeSame
  <2>4. LLInv'
    BY <1>0, <2>2 DEF LLInv, HandleConsistent
  <2>5. \A id : ReaderAt(id)' = ReaderAt(id)
    <3> TAKE id
    <3>1. Start(id)' = Start(id)
      BY <1>0, <2>1, TapeSame
    <3>2. InPlace(id)' = InPlace(id)
      BY <2>2 DEF InPlace, MemoryHolds, ReadGroup, ReadCells
    <3> QED
      BY <2>2, <3>1, <3>2 DEF ReaderAt, AtStart, HasHeader, Reads
  <2>6. CleanReader'
    <3> PICK id : id = Len(out) + 1
      OBVIOUS
    <3>1. ReaderAt(id)' /\ id = Len(out') + 1
      BY <1>0, <2>2, <2>5 DEF CleanReader
    <3> QED
      BY <1>0, <2>2, <2>3, <3>1 DEF CleanReader
  <2> QED
    BY <1>1, <2>2, <2>3, <2>4, <2>6 DEF CleanInv
<1> QED
  BY <1>3, <1>4, <1>5, <1>6, <1>7, <1>8 DEF FNext, Writes

(* On a file that no fault happens to, bytes_read of the reader's handle   *)
(* is its place in the file whenever the program has the handle back:      *)
(* after every packet, every -EMSGSIZE and at the end of the file.         *)
THEOREM BytesReadIsExact == Clean => (FSpec => []BytesReadExact)
<1> SUFFICES ASSUME Clean PROVE FSpec => []BytesReadExact
  OBVIOUS
<1>1. CleanInv => BytesReadExact
  <2> SUFFICES ASSUME CleanInv, call.pc = "idle" PROVE h.bytesRead = rpos
    BY DEF BytesReadExact
  <2> PICK id : id = Len(out) + 1
    OBVIOUS
  <2>1. ReaderAt(id)
    BY DEF CleanInv, CleanReader
  <2> QED
    BY <2>1 DEF ReaderAt, AtStart, HasHeader
<1>2. FInit => CleanInv
  BY InitClean
<1>3. CleanInv /\ [FNext]_vars => CleanInv'
  BY StepClean
<1> QED
  BY <1>1, <1>2, <1>3, PTL DEF FSpec

(* The queue is the packets after the one that was read last.              *)
Waiting == [i \in 1 .. Len(sent) - Len(out) |-> Len(out) + i]

LEMMA QueueGrows ==
    ASSUME CleanInv, Enters
    PROVE  /\ Waiting' = Append(Waiting, Len(Waiting) + Len(out) + 1)
           /\ Waiting \in Seq(Nat)
<1>1. /\ sent \in Seq(Shapes) /\ Len(out) \in Nat /\ Len(out) <= Len(sent)
  BY DEF CleanInv, CleanReader, SInv, Shaped, TypeOK
<1> PICK a : a = Len(sent)
  OBVIOUS
<1> PICK b : b = Len(out)
  OBVIOUS
<1>2. Len(sent') = a + 1 /\ Len(out') = b /\ a \in Nat /\ b \in Nat /\ b <= a
  BY <1>1 DEF Enters
<1>3. Waiting = [i \in 1 .. a - b |-> b + i] /\ Waiting' = [i \in 1 .. a + 1 - b |-> b + i]
  BY <1>2 DEF Waiting
<1>4. /\ [i \in 1 .. a - b |-> b + i] \in Seq(Nat)
      /\ Len([i \in 1 .. a - b |-> b + i]) = a - b
      /\ [i \in 1 .. a + 1 - b |-> b + i] \in Seq(Nat)
      /\ Len([i \in 1 .. a + 1 - b |-> b + i]) = a + 1 - b
  BY <1>2
<1>5. [i \in 1 .. a + 1 - b |-> b + i] = Append([i \in 1 .. a - b |-> b + i], a + 1)
  BY <1>2, <1>4
<1> QED
  BY <1>2, <1>3, <1>4, <1>5

LEMMA QueueShrinks ==
    ASSUME CleanInv, Leaves
    PROVE  /\ Waiting \in Seq(Nat) /\ Waiting # <<>>
           /\ Head(Waiting) = Len(out) + 1 /\ Waiting' = Tail(Waiting)
<1>1. Len(out) \in Nat /\ Len(sent) \in Nat
  BY DEF CleanInv, SInv, Shaped, TypeOK
<1> PICK a : a = Len(sent)
  OBVIOUS
<1> PICK b : b = Len(out)
  OBVIOUS
<1>2. Len(sent') = a /\ Len(out') = b + 1 /\ a \in Nat /\ b \in Nat /\ b < a
  BY <1>1 DEF Leaves
<1>3. Waiting = [i \in 1 .. a - b |-> b + i] /\ Waiting' = [i \in 1 .. a - (b + 1) |-> b + 1 + i]
  BY <1>2 DEF Waiting
<1>4. /\ [i \in 1 .. a - b |-> b + i] \in Seq(Nat)
      /\ Len([i \in 1 .. a - b |-> b + i]) = a - b /\ a - b > 0
      /\ [i \in 1 .. a - b |-> b + i][1] = b + 1
  BY <1>2
<1> PICK q : q = [i \in 1 .. a - b |-> b + i]
  OBVIOUS
<1> PICK t : t = [i \in 1 .. a - (b + 1) |-> b + 1 + i]
  OBVIOUS
<1>5. /\ q \in Seq(Nat) /\ Len(q) = a - b /\ a - b > 0 /\ q[1] = b + 1
      /\ \A i \in 1 .. a - b : q[i] = b + i
      /\ t \in Seq(Nat) /\ Len(t) = a - b - 1
      /\ \A i \in 1 .. a - b - 1 : t[i] = b + 1 + i
  BY <1>2, <1>4
<1>6. q # <<>> /\ Head(q) = b + 1
  BY ONLY <1>2, <1>5
<1>7. /\ Tail(q) \in Seq(Nat) /\ Len(Tail(q)) = a - b - 1
      /\ \A i \in 1 .. a - b - 1 : Tail(q)[i] = q[i + 1]
  BY ONLY <1>2, <1>5, <1>6
<1>8. \A i \in 1 .. a - b - 1 : Tail(q)[i] = t[i]
  BY ONLY <1>2, <1>5, <1>7
<1>9. t = Tail(q)
  BY ONLY <1>5, <1>7, <1>8
<1>10. Waiting = q /\ Waiting' = t
  BY <1>3
<1> QED
  BY ONLY <1>5, <1>6, <1>9, <1>10, b = Len(out)

(* Writer, file and reader together are a queue of packets: on a file that *)
(* no fault happens to, the reader is given every packet once, in the      *)
(* order of writing and without a warning, through every -EMSGSIZE and     *)
(* every flush.                                                            *)
THEOREM FileIsAQueue == Clean => (FSpec => FIFO)
<1> SUFFICES ASSUME Clean PROVE FSpec => FIFO
  OBVIOUS
<1>1. FInit => Queue!Init
  <2> SUFFICES ASSUME FInit PROVE Queue!Init
    OBVIOUS
  <2>1. sent = <<>> /\ out = <<>>
    BY DEF FInit, Init
  <2>2. [i \in 1 .. 0 - 0 |-> 0 + i] \in Seq(Nat)
    OBVIOUS
  <2> QED
    BY <2>1, <2>2 DEF Queue!Init
<1>2. CleanInv /\ [FNext]_vars => [Queue!Next]_(Queue!qvars)
  <2> SUFFICES ASSUME CleanInv, [FNext]_vars PROVE [Queue!Next]_(Queue!qvars)
    OBVIOUS
  <2>1. CASE Enters
    BY <2>1, QueueGrows DEF Queue!Next, Queue!Put, Waiting, Enters
  <2>2. CASE Leaves
    BY <2>2, QueueShrinks DEF Queue!Next, Queue!Take, Waiting, Leaves
  <2>3. CASE UNCHANGED <<sent, out>>
    BY <2>3 DEF Queue!qvars
  <2> QED
    BY <2>1, <2>2, <2>3, StepClean
<1>3. FInit => CleanInv
  BY InitClean
<1>4. CleanInv /\ [FNext]_vars => CleanInv'
  BY StepClean
<1> QED
  BY <1>1, <1>2, <1>3, <1>4, PTL DEF FSpec, FIFO, Queue!Spec
=============================================================================
