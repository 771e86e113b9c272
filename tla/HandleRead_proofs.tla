-------------------------- MODULE HandleRead_proofs --------------------------
(***************************************************************************)
(* Proofs about the read side of a handle over any medium: it is type      *)
(* correct, and for clients that only use pueo_ll_read and                 *)
(* pueo_ll_read_realloc the header that waits for room, the size asked for *)
(* and the packet the payload is read into always agree.                   *)
(***************************************************************************)
EXTENDS HandleRead, TLAPS, FiniteSetTheorems

-----------------------------------------------------------------------------
(* What the tables and the layout operators return.                        *)

(* Sizes, prefixes and element counts are natural numbers for every type.  *)
LEMMA LayoutTypes ==
    ASSUME NEW t \in Types
    PROVE  /\ SizeOf(t) \in Nat
           /\ \A v \in Nat : Prefix(t, v) \in Nat
           /\ \A v, n \in Nat : TailLen(t, v, n) \in Nat
           /\ \A g \in Nat : GroupAddr(t, g) \in Int
<1>1. /\ CurVer[t] \in Nat /\ NumGroups[t] \in Nat /\ MaxCount[t] \in Nat
      /\ PrefixLen[t] \in [0 .. CurVer[t] -> Nat]
  BY TableAssumption
<1>2. \A v \in Nat : Prefix(t, v) \in Nat
  BY <1>1 DEF Prefix, KnownVer
<1>3. PrefixLen[t][CurVer[t]] \in Nat
  BY <1>1
<1>4. NumGroups[t] * (1 + MaxCount[t]) \in Nat
  BY <1>1
<1>5. SizeOf(t) \in Nat
  BY <1>3, <1>4 DEF SizeOf
<1>6. \A v, n \in Nat : TailLen(t, v, n) \in Nat
  BY <1>1 DEF TailLen
<1>7. \A g \in Nat : GroupAddr(t, g) \in Int
  BY <1>1, <1>3 DEF GroupAddr
<1>. QED
  BY <1>2, <1>5, <1>6, <1>7

(* The image of a finite set under a function is finite.                   *)
LEMMA FiniteImage ==
    ASSUME NEW S, IsFiniteSet(S), NEW f, f = [x \in S |-> f[x]]
    PROVE  IsFiniteSet({f[x] : x \in S})
<1> DEFINE T == {f[x] : x \in S}
<1>1. f \in Surjection(S, T)
  BY DEF Surjection
<1>. QED
  BY <1>1, FS_Surjection

(* The slots of a payload are finitely many.                               *)
LEMMA WireFinite ==
    ASSUME NEW t \in Types, NEW v \in Nat, NEW counts \in [Groups -> Nat]
    PROVE  IsFiniteSet(WireSlots(t, v, counts))
<1> DEFINE prefix == [i \in 1 .. Prefix(t, v) |-> Slot(0, i)]
           group(g) == [i \in 0 .. TailLen(t, v, counts[g]) |-> Slot(g, i)]
           slots(g) == {Slot(g, i) : i \in 0 .. TailLen(t, v, counts[g])}
           groups == [g \in 1 .. NumGroups[t] |-> slots(g)]
<1>1. NumGroups[t] \in Nat /\ MaxGroups \in Nat /\ NumGroups[t] <= MaxGroups
  BY TableAssumption, GroupsAssumption, ReadAssumption
<1>2. IsFiniteSet({Slot(0, i) : i \in 1 .. Prefix(t, v)})
  <2>1. IsFiniteSet(1 .. Prefix(t, v))
    BY LayoutTypes, FS_Interval
  <2>2. IsFiniteSet({prefix[i] : i \in 1 .. Prefix(t, v)})
    BY <2>1, FiniteImage
  <2>. QED
    BY <2>2
<1>3. ASSUME NEW g \in 1 .. NumGroups[t]
      PROVE  IsFiniteSet(slots(g))
  <2>1. counts[g] \in Nat
    BY <1>1 DEF Groups
  <2>2. TailLen(t, v, counts[g]) \in Nat
    BY <2>1, LayoutTypes
  <2> HIDE DEF slots, group, groups
  <2>0. IsFiniteSet(0 .. TailLen(t, v, counts[g]))
    BY <2>2, FS_Interval
  <2>3. IsFiniteSet({group(g)[i] : i \in 0 .. TailLen(t, v, counts[g])})
    BY <2>0, FiniteImage DEF group
  <2>. QED
    BY <2>3 DEF slots, group
<1>4. IsFiniteSet({groups[g] : g \in 1 .. NumGroups[t]})
  <2>1. IsFiniteSet(1 .. NumGroups[t])
    BY <1>1, FS_Interval
  <2>. QED
    BY <2>1, FiniteImage
<1>5. \A T \in {groups[g] : g \in 1 .. NumGroups[t]} : IsFiniteSet(T)
  BY <1>3
<1>6. IsFiniteSet(UNION {groups[g] : g \in 1 .. NumGroups[t]})
  BY <1>4, <1>5, FS_UNION
<1>7. WireSlots(t, v, counts) =
        {Slot(0, i) : i \in 1 .. Prefix(t, v)}
            \cup UNION {groups[g] : g \in 1 .. NumGroups[t]}
  <2>1. {groups[g] : g \in 1 .. NumGroups[t]}
          = {slots(g) : g \in 1 .. NumGroups[t]}
    BY Zenon
  <2>. QED
    BY <2>1, Zenon DEF WireSlots
<1> DEFINE A == {Slot(0, i) : i \in 1 .. Prefix(t, v)}
           B == UNION {groups[g] : g \in 1 .. NumGroups[t]}
<1>8. IsFiniteSet(A) /\ IsFiniteSet(B)
  BY <1>2, <1>6
<1> HIDE DEF A, B
<1>9. IsFiniteSet(A \cup B)
  BY <1>8, FS_Union
<1>. QED
  BY <1>7, <1>9 DEF A, B

(* So num_bytes is a number.                                               *)
LEMMA NumBytesType ==
    ASSUME NEW t \in Types, NEW v \in Nat, NEW counts \in [Groups -> Nat]
    PROVE  NumBytes(t, v, counts) \in Nat
BY WireFinite, FS_CardinalityType DEF NumBytes

-----------------------------------------------------------------------------
(* What the medium may return, and what it does to memory and header.      *)

Results == [cells : Seq(AllCells), err : BOOLEAN, mark : BOOLEAN]

(* The packets of the history are packets.                                 *)
LEMMA SentTypes ==
    ASSUME TypeOK, NEW id \in DOMAIN sent
    PROVE  sent[id] \in Packets /\ id \in Nat
BY ShapesAssumption DEF TypeOK

(* Every cell of a packet that was sent is a cell.                         *)
LEMMA AnyCellType == ASSUME TypeOK PROVE AnyCell \subseteq AllCells
<1> SUFFICES ASSUME NEW id \in DOMAIN sent PROVE CellsOf(id) \subseteq AllCells
  BY DEF AnyCell
<1> DEFINE p == sent[id]
<1>1. p \in Packets /\ id \in Nat
  BY SentTypes
<1>2. {Cell(id, HeadSlot(i)) : i \in 1 .. HeadLen} \subseteq AllCells
  BY <1>1 DEF Cell, HeadSlot, AllCells, HeadLen
<1>3. WireSlots(p.type, p.ver, p.counts) \subseteq Int \X Nat
  BY DEF WireSlots, Slot
<1>4. {Cell(id, s) : s \in WireSlots(p.type, p.ver, p.counts)} \subseteq AllCells
  BY <1>1, <1>3 DEF Cell, AllCells
<1>. QED
  BY <1>2, <1>4 DEF CellsOf

(* A read_bytes asks for a number of cells.                                *)
LEMMA WantedType == ASSUME TypeOK, Reading PROVE Wanted \in Nat
<1> USE DEF TypeOK, CallOK, Handles, Calls, PayloadPcs, ReadPcs, HeaderPcs
<1>1. h.hdr.ver \in Nat
  BY DEF Headers
<1>2. CASE call.pc \in HeaderPcs
  BY <1>2 DEF Wanted, HeadLen
<1>3. CASE call.pc \in {"simple", "prefix"}
  BY <1>1, <1>3, LayoutTypes DEF Wanted
<1>4. CASE call.pc \in {"fixed", "wf_head"}
  BY <1>4 DEF Wanted
<1>5. CASE call.pc = "tail"
  <2>1. call.type \in Types /\ 1 \in Groups
    BY <1>5, GroupsAssumption, ReadAssumption, TableAssumption DEF Groups
  <2>2. call.counts[1] \in Nat
    BY <2>1
  <2>3. TailLen(call.type, h.hdr.ver, call.counts[1]) \in Nat
    BY <1>1, <2>1, <2>2, LayoutTypes
  <2>. QED
    BY <1>5, <2>3 DEF Wanted
<1>6. CASE call.pc = "wf_data"
  <2>1. call.type \in Types /\ call.grp \in Groups
    BY <1>6, GroupsAssumption, ReadAssumption, TableAssumption DEF Groups
  <2>2. call.counts[call.grp] \in Nat
    BY <2>1
  <2>3. TailLen(call.type, h.hdr.ver, call.counts[call.grp]) \in Nat
    BY <1>1, <2>1, <2>2, LayoutTypes
  <2>. QED
    BY <1>6, <2>3 DEF Wanted
<1>. QED
  BY <1>2, <1>3, <1>4, <1>5, <1>6 DEF Reading

(* So what the medium of Next returns is a result.                         *)
LEMMA AnyResultType == ASSUME TypeOK, Reading PROVE AnyResult \subseteq Results
<1>1. Wanted \in Nat
  BY WantedType
<1>2. AnyCell \subseteq AllCells
  BY AnyCellType
<1>3. \A n \in 0 .. Wanted : [1 .. n -> AnyCell] \subseteq Seq(AllCells)
  BY <1>1, <1>2
<1>4. ASSUME NEW res \in AnyResult PROVE res \in Results
  <2>1. CASE res \in [cells : UNION {[1 .. n -> AnyCell] : n \in 0 .. Wanted},
                      err : {FALSE}, mark : Marks]
    <3>1. res.cells \in Seq(AllCells)
      BY <1>3, <2>1
    <3>. QED
      BY <2>1, <3>1, ReadAssumption DEF Results
  <2>2. CASE res \in [cells : {<<>>}, err : {TRUE}, mark : Marks]
    <3>1. res.cells = <<>> /\ <<>> \in Seq(AllCells)
      BY <2>2
    <3>2. res.cells \in Seq(AllCells)
      BY <3>1
    <3>3. res.err \in BOOLEAN /\ res.mark \in BOOLEAN
      BY <2>2, ReadAssumption
    <3>4. res = [cells |-> res.cells, err |-> res.err, mark |-> res.mark]
      BY <2>2, Zenon
    <3>. QED
      BY <3>2, <3>3, <3>4 DEF Results
  <2>. QED
    BY <2>1, <2>2 DEF AnyResult
<1>. QED
  BY <1>4

LEMMA CopiedType ==
    ASSUME NEW mem \in [1 .. MemSize -> AllCells],
           NEW cells \in Seq(AllCells), NEW a \in Int
    PROVE  Copied(mem, a, cells) \in [1 .. MemSize -> AllCells]
<1> SUFFICES ASSUME NEW b \in 1 .. MemSize, b \in a .. a + Len(cells) - 1
             PROVE  cells[b - a + 1] \in AllCells
  BY DEF Copied
<1>1. b - a + 1 \in 1 .. Len(cells)
  BY ReadAssumption
<1>. QED
  BY <1>1

LEMMA ClearedType ==
    ASSUME NEW mem \in [1 .. MemSize -> AllCells], NEW from
    PROVE  /\ Cleared(mem, from) \in [1 .. MemSize -> AllCells]
           /\ ReadoutCleared(mem) \in [1 .. MemSize -> AllCells]
BY DEF Cleared, ReadoutCleared, Zero, AllCells

(* Headers stay headers, whatever cells are copied over them.              *)
LEMMA OverlaidType ==
    ASSUME TypeOK, NEW cells \in Seq(AllCells)
    PROVE  Overlaid(h.hdr, cells) \subseteq Headers
<1> DEFINE First  == [type : Types \cup {NoType}, sum : Nat]
           Second == [ver : Nat, nbytes : Nat]
<1>1. ASSUME NEW c \in AllCells PROVE FirstHalf(c) \subseteq First
  <2>1. CASE IsHead(c, 1)
    <3>1. c[1] \in Nat /\ sent[c[1]] \in Packets
      BY <2>1, SentTypes DEF IsHead
    <3>. QED
      BY <2>1, <3>1 DEF FirstHalf, Packets
  <2>2. CASE ~IsHead(c, 1)
    BY <2>2 DEF FirstHalf
  <2>. QED
    BY <2>1, <2>2
<1>2. ASSUME NEW c \in AllCells PROVE SecondHalf(c) \subseteq Second
  <2>1. CASE IsHead(c, 2)
    <3> DEFINE p == sent[c[1]]
    <3>1. p \in Packets
      BY <2>1, SentTypes DEF IsHead
    <3>2. p.ver \in Nat /\ NumBytes(p.type, p.ver, p.counts) \in Nat
      BY <3>1, NumBytesType DEF Packets
    <3>. QED
      BY <2>1, <3>2 DEF SecondHalf
  <2>2. CASE ~IsHead(c, 2)
    BY <2>2, ReadAssumption DEF SecondHalf
  <2>. QED
    BY <2>1, <2>2
<1>3. h.hdr \in Headers
  BY DEF TypeOK, Handles
<1> SUFFICES ASSUME NEW a \in IF Len(cells) >= 1 THEN FirstHalf(cells[1])
                              ELSE {[type |-> h.hdr.type, sum |-> h.hdr.sum]},
                    NEW b \in IF Len(cells) >= 2 THEN SecondHalf(cells[2])
                              ELSE {[ver |-> h.hdr.ver, nbytes |-> h.hdr.nbytes]}
             PROVE  [type |-> a.type, sum |-> a.sum,
                     ver |-> b.ver, nbytes |-> b.nbytes] \in Headers
  BY DEF Overlaid
<1>4. a \in First
  <2>1. CASE Len(cells) >= 1
    BY <1>1, <2>1
  <2>2. CASE ~(Len(cells) >= 1)
    BY <1>3, <2>2 DEF Headers
  <2>. QED
    BY <2>1, <2>2
<1>5. b \in Second
  <2>1. CASE Len(cells) >= 2
    BY <1>2, <2>1
  <2>2. CASE ~(Len(cells) >= 2)
    BY <1>3, <2>2 DEF Headers
  <2>. QED
    BY <2>1, <2>2
<1>. QED
  BY <1>4, <1>5 DEF Headers

(* An element count read from memory is a number.                          *)
LEMMA CountsAtType ==
    ASSUME TypeOK, NEW t \in Types, NEW c
    PROVE  CountsAt(t, c) \subseteq Nat
<1>1. CASE /\ c[1] \in DOMAIN sent /\ sent[c[1]].type = t
           /\ c[2][1] \in 1 .. NumGroups[t] /\ c[2][2] = 0
  <2>1. sent[c[1]] \in Packets
    BY <1>1, SentTypes
  <2>2. c[2][1] \in Groups
    BY <1>1, TableAssumption, GroupsAssumption, ReadAssumption DEF Groups
  <2>3. sent[c[1]].counts[c[2][1]] \in Nat
    BY <2>1, <2>2 DEF Packets
  <2>. QED
    BY <1>1, <2>3 DEF CountsAt
<1>2. CASE ~(/\ c[1] \in DOMAIN sent /\ sent[c[1]].type = t
             /\ c[2][1] \in 1 .. NumGroups[t] /\ c[2][2] = 0)
  BY <1>2, TableAssumption DEF CountsAt
<1>. QED
  BY <1>1, <1>2

-----------------------------------------------------------------------------
(* Type correctness.                                                       *)

(* What the header readers, their callers and pueo_read_X leave behind.    *)
LEMMA IdleType == ASSUME NEW r \in Int PROVE Idle(r) \in Calls
BY ReadAssumption DEF Idle, Calls, NoCounts

LEMMA NewPacketType == ASSUME NEW cap \in Nat PROVE NewPacket(cap) \in Buffers
BY DEF NewPacket, Buffers, NoHeader, Headers, Junk, AllCells

LEMMA ReadXReturnsType ==
    ASSUME TypeOK, NEW handle \in Handles, NEW r \in Int,
           ReadXReturns(handle, r)
    PROVE  h' \in Handles /\ call' \in Calls /\ CallOK'
<1>1. call' \in Calls /\ call'.pc = "idle"
  BY IdleType DEF ReadXReturns, Idle
<1>2. CallOK'
  BY <1>1 DEF CallOK, PayloadPcs, ReadPcs, HeaderPcs
<1>3. h' \in Handles
  BY DEF ReadXReturns, Handles
<1>. QED
  BY <1>1, <1>2, <1>3

(* Starting the reader of a type.                                          *)
LEMMA FirstReadType ==
    ASSUME TypeOK, call.type \in Types,
           call' = [call EXCEPT !.pc = FirstRead(call.type)]
    PROVE  call' \in Calls /\ CallOK'
<1>1. Codec[call.type] \in Codecs
  BY TableAssumption
<1>2. CASE Codec[call.type] = "simple"
  <2>1. FirstRead(call.type) = "simple"
    BY <1>2 DEF FirstRead
  <2>. QED
    BY <1>2, <2>1 DEF TypeOK, Calls, CallOK, PayloadPcs, ReadPcs, HeaderPcs
<1>3. CASE Codec[call.type] = "var"
  <2>1. FirstRead(call.type) = "fixed"
    BY <1>3 DEF FirstRead
  <2>. QED
    BY <1>3, <2>1 DEF TypeOK, Calls, CallOK, PayloadPcs, ReadPcs, HeaderPcs
<1>4. CASE Codec[call.type] = "wave"
  <2>1. FirstRead(call.type) = "prefix"
    BY <1>4 DEF FirstRead
  <2>. QED
    BY <1>4, <2>1 DEF TypeOK, Calls, CallOK, PayloadPcs, ReadPcs, HeaderPcs
<1>. QED
  BY <1>1, <1>2, <1>3, <1>4 DEF Codecs

LEMMA HeaderDoneType ==
    ASSUME TypeOK, call.pc \in HeaderPcs,
           NEW handle \in Handles, NEW r \in Int, HeaderDone(handle, r)
    PROVE  h' \in Handles /\ call' \in Calls /\ CallOK'
<1>1. CASE call.pc = "ll_header" /\ r < HeadLen
  <2>1. h' = handle /\ call' = Idle(EIO)
    BY <1>1 DEF HeaderDone, LLHeader
  <2>2. call' \in Calls /\ call'.pc = "idle"
    BY <2>1, IdleType DEF Idle, EIO
  <2>. QED
    BY <2>1, <2>2 DEF CallOK, PayloadPcs, ReadPcs, HeaderPcs
<1>2. CASE call.pc = "ll_header" /\ ~(r < HeadLen)
  <2>1. /\ h' = IF handle.hdr.type \in Types
                THEN [handle EXCEPT !.required = SizeOf(handle.hdr.type)]
                ELSE handle
        /\ call' = [call EXCEPT !.pc = "capacity"]
    BY <1>2 DEF HeaderDone, LLHeader
  <2>2. h' \in Handles
    BY <2>1, LayoutTypes DEF Handles
  <2>3. call' \in Calls /\ call'.pc = "capacity"
    BY <2>1 DEF TypeOK, Calls
  <2>. QED
    BY <2>2, <2>3 DEF CallOK, PayloadPcs, ReadPcs, HeaderPcs
<1>3. CASE call.pc = "typed_header"
  <2>1. TypedHeader(handle) /\ call.type \in Types
    BY <1>3 DEF HeaderDone, TypeOK, CallOK
  <2>2. CASE handle.hdr.type = call.type
    <3>1. /\ h' = [handle EXCEPT !.head = FALSE]
          /\ call' = [call EXCEPT !.pc = FirstRead(call.type)]
      BY <2>1, <2>2 DEF TypedHeader
    <3>2. h' \in Handles
      BY <3>1 DEF Handles
    <3>. QED
      BY <2>1, <3>1, <3>2, FirstReadType
  <2>3. CASE handle.hdr.type # call.type
    BY <2>1, <2>3, ReadXReturnsType DEF TypedHeader
  <2>. QED
    BY <2>2, <2>3
<1>. QED
  BY <1>1, <1>2, <1>3 DEF HeaderPcs

LEMMA HeaderEOFType ==
    ASSUME TypeOK, NEW handle \in Handles, HeaderEOF(handle)
    PROVE  h' \in Handles /\ call' \in Calls /\ CallOK'
<1>1. CASE call.pc = "ll_header"
  <2>1. h' = handle /\ call' = Idle(EOF)
    BY <1>1 DEF HeaderEOF
  <2>2. call' \in Calls /\ call'.pc = "idle"
    BY <2>1, IdleType DEF Idle, EOF
  <2>. QED
    BY <2>1, <2>2 DEF CallOK, PayloadPcs, ReadPcs, HeaderPcs
<1>2. CASE call.pc # "ll_header"
  BY <1>2, ReadXReturnsType DEF HeaderEOF, EOF
<1>. QED
  BY <1>1, <1>2

(* A call of the client.                                                   *)
LEMMA ClientType == ASSUME TypeOK, Client, UNCHANGED sent PROVE TypeOK'
<1> USE DEF TypeOK
<1> DEFINE pc == IF h.required = 0 THEN "ll_header" ELSE "capacity"
<1>1. \A op \in {"ll", "realloc", "typed"}, p \in {"ll_header", "capacity", "typed_header"} :
         Calling(op, p) \in Calls /\ Calling(op, p).pc = p
  BY IdleType, ZenonT(30) DEF Calling, Idle, Calls, ReadPcs, HeaderPcs
<1>2. CASE LLRead
  <2>1. call' \in Calls /\ call'.pc \in {"ll_header", "capacity"}
    BY <1>1, <1>2 DEF LLRead
  <2>. QED
    BY <1>2, <2>1 DEF LLRead, CallOK, PayloadPcs, ReadPcs, HeaderPcs
<1>3. CASE LLReadRealloc
  <2>1. call' \in Calls /\ call'.pc \in {"ll_header", "capacity"}
    BY <1>1, <1>3 DEF LLReadRealloc
  <2>2. pkt' \in Buffers
    BY <1>3, NewPacketType, ReadAssumption DEF LLReadRealloc
  <2>. QED
    BY <1>3, <2>1, <2>2 DEF LLReadRealloc, CallOK, PayloadPcs, ReadPcs, HeaderPcs
<1>4. ASSUME NEW t \in Types, TypedRead(t) PROVE TypeOK'
  <2>1. call' \in Calls /\ call'.pc = "typed_header" /\ call'.type \in Types
    BY <1>1, <1>4 DEF TypedRead, Calls
  <2>. QED
    BY <1>4, <2>1 DEF TypedRead, CallOK, PayloadPcs, ReadPcs, HeaderPcs
<1>5. ASSUME NEW cap \in ClientCaps \cup {h.required}, ClientAllocates(cap)
      PROVE  TypeOK'
  <2>1. cap \in Nat
    BY ReadAssumption DEF Handles
  <2>2. call' \in Calls /\ call'.pc = "idle"
    BY <1>5, IdleType DEF ClientAllocates, Fresh, Idle, Calls
  <2>. QED
    BY <1>5, <2>1, <2>2, NewPacketType
       DEF ClientAllocates, CallOK, PayloadPcs, ReadPcs, HeaderPcs
<1>. QED
  BY <1>2, <1>3, <1>4, <1>5 DEF Client

(* A step that reads nothing.                                              *)
LEMMA InternalType == ASSUME TypeOK, Internal, UNCHANGED sent PROVE TypeOK'
<1>1. h \in Handles /\ pkt \in Buffers /\ call \in Calls
  BY DEF TypeOK
<1>2. CASE HeaderAlreadyRead
  BY <1>1, <1>2, HeaderDoneType DEF HeaderAlreadyRead, TypeOK
<1>3. CASE TooSmall
  <2>1. h.required \in Nat /\ NewPacket(h.required) \in Buffers
    BY <1>1, NewPacketType DEF Handles
  <2>2. pkt' \in Buffers
    BY <1>1, <1>3, <2>1 DEF TooSmall, Buffers, NoHeader, Headers
  <2>3. call' \in Calls /\ call'.pc \in {"idle", "capacity"}
    BY <1>1, <1>3, IdleType DEF TooSmall, Calls, Idle, EMSGSIZE
  <2>. QED
    BY <1>3, <2>2, <2>3 DEF TypeOK, TooSmall, CallOK, PayloadPcs, ReadPcs, HeaderPcs
<1>4. CASE Dispatch
  <2>1. pkt' \in Buffers
    BY <1>1, <1>4 DEF Dispatch, Buffers, Handles
  <2>2. CASE h.hdr.type \in Types
    <3>1. call' \in Calls /\ call'.pc = "typed_header" /\ call'.type \in Types
      BY <1>1, <1>4, <2>2 DEF Dispatch, Calls, ReadPcs, HeaderPcs
    <3>. QED
      BY <1>4, <2>1, <2>2, <3>1
         DEF Dispatch, TypeOK, CallOK, PayloadPcs, ReadPcs, HeaderPcs
  <2>3. CASE h.hdr.type \notin Types
    BY <1>1, <1>4, <2>1, <2>3, ReadXReturnsType DEF Dispatch, TypeOK
  <2>. QED
    BY <2>2, <2>3
<1>5. CASE SimpleBadVersion
  <2>1. call' \in Calls /\ call'.pc = "crashed" /\ call'.type \in Types
    BY <1>1, <1>5
       DEF SimpleBadVersion, WantsPayload, TypeOK, CallOK, Calls,
           PayloadPcs, ReadPcs, HeaderPcs
  <2>. QED
    BY <1>5, <2>1 DEF SimpleBadVersion, TypeOK, CallOK, PayloadPcs, ReadPcs, HeaderPcs
<1>6. CASE Check
  <2>1. [h EXCEPT !.bytesRead = @ + call.nrd] \in Handles /\ call.nrd \in Int
    BY <1>1 DEF Handles, Calls
  <2>2. h' \in Handles /\ call' \in Calls /\ CallOK'
    BY <1>6, <2>1, ReadXReturnsType DEF Check
  <2>3. Silent => h.hdr.sum \in Nat
    BY <1>1 DEF Handles, Headers
  <2>4. out' \in Seq(Nat)
    BY <1>6, <2>3 DEF Check, TypeOK
  <2>. QED
    BY <1>6, <2>2, <2>4 DEF Check, TypeOK
<1>. QED
  BY <1>2, <1>3, <1>4, <1>5, <1>6 DEF Internal

(* The fields a payload reader's step may set.                             *)
LEMMA PayloadStepType ==
    ASSUME TypeOK, NEW res \in Results, Marked(res),
           call' \in Calls, CallOK', pkt' \in Buffers,
           UNCHANGED <<out, sent>>
    PROVE  TypeOK'
<1>1. h' \in Handles
  BY DEF TypeOK, Marked, Handles, Results
<1>. QED
  BY <1>1 DEF TypeOK

LEMMA MemType ==
    ASSUME TypeOK, NEW mem \in [1 .. MemSize -> AllCells]
    PROVE  [pkt EXCEPT !.mem = mem] \in Buffers
BY DEF TypeOK, Buffers

(* Updates of the handle and of the call, one field at a time.             *)
LEMMA HandleStep ==
    ASSUME TypeOK, NEW hdr \in Headers, NEW n \in Int
    PROVE  /\ [h EXCEPT !.hdr = hdr, !.head = TRUE, !.bytesRead = n] \in Handles
           /\ [h EXCEPT !.head = TRUE, !.bytesRead = n] \in Handles
BY DEF TypeOK, Handles

LEMMA GoOnType ==
    ASSUME call \in Calls, NEW n \in Int, NEW pc \in ReadPcs \cup {"check"},
           call' = [call EXCEPT !.pc = pc, !.nrd = n]
    PROVE  call' \in Calls /\ call'.pc = pc /\ call'.type = call.type
BY DEF Calls

LEMMA CountStep ==
    ASSUME call \in Calls, NEW n \in Int, NEW pc \in ReadPcs,
           NEW g \in Groups, NEW k \in Nat,
           call' = [call EXCEPT !.pc = pc, !.nrd = n, !.counts[g] = k]
    PROVE  /\ call' \in Calls /\ call'.pc = pc /\ call'.type = call.type
           /\ call'.grp = call.grp
<1>1. [call.counts EXCEPT ![g] = k] \in [Groups -> Nat]
  BY DEF Calls
<1> DEFINE counts == [call.counts EXCEPT ![g] = k]
<1>2. call' = [call EXCEPT !.pc = pc, !.nrd = n, !.counts = counts]
  BY DEF Calls
<1> HIDE DEF counts
<1>3. counts \in [Groups -> Nat]
  BY <1>1 DEF counts
<1>. QED
  BY <1>2, <1>3 DEF Calls

LEMMA GroupStep ==
    ASSUME call \in Calls, NEW n \in Int, NEW pc \in ReadPcs \cup {"check"},
           NEW g \in Nat,
           \/ call' = [call EXCEPT !.pc = pc, !.nrd = n, !.grp = g]
           \/ call' = [call EXCEPT !.nrd = n, !.pc = pc, !.grp = g]
    PROVE  /\ call' \in Calls /\ call'.pc = pc /\ call'.type = call.type
           /\ call'.grp = g
BY DEF Calls

(* A reader that goes on to a later stage of the same codec stays in order.*)
LEMMA StageOK ==
    ASSUME TypeOK, call.type \in Types, call'.type = call.type,
           \/ call'.pc = "check"
           \/ call'.pc = "tail" /\ Codec[call.type] = "var"
           \/ /\ call'.pc \in {"wf_head", "wf_data"}
              /\ Codec[call.type] = "wave"
              /\ call'.grp \in 1 .. NumGroups[call.type]
    PROVE  CallOK'
BY DEF CallOK, PayloadPcs, ReadPcs, HeaderPcs

(* The reader of a waveform is at one of its packet's waveforms.           *)
LEMMA WaveGroup ==
    ASSUME TypeOK, call.pc \in {"wf_head", "wf_data"}
    PROVE  /\ call.type \in Types /\ Codec[call.type] = "wave"
           /\ call.grp \in 1 .. NumGroups[call.type] /\ call.grp \in Groups
           /\ NumGroups[call.type] \in Nat
<1>1. /\ call.type \in Types /\ Codec[call.type] = "wave"
      /\ call.grp \in 1 .. NumGroups[call.type]
  BY DEF TypeOK, CallOK, PayloadPcs, ReadPcs, HeaderPcs
<1>2. /\ NumGroups[call.type] \in Nat /\ MaxGroups \in Nat
      /\ NumGroups[call.type] <= MaxGroups
  BY <1>1, GroupsAssumption, TableAssumption, ReadAssumption
<1>. QED
  BY <1>1, <1>2 DEF Groups

(* A waveform packet that ends early goes to the check.                    *)
LEMMA WaveFailsType ==
    ASSUME TypeOK, call.type \in Types, NEW res, WaveFails(res)
    PROVE  call' \in Calls /\ CallOK'
<1> DEFINE n == -1
<1>1. call' = [call EXCEPT !.pc = "check", !.nrd = n] /\ n \in Int
  BY DEF WaveFails
<1> HIDE DEF n
<1>2. call' \in Calls /\ call'.pc = "check" /\ call'.type = call.type
  BY <1>1, GoOnType DEF TypeOK
<1>. QED
  BY <1>2, StageOK

(* A result of read_bytes is received.                                     *)
LEMMA ReceiveType ==
    ASSUME TypeOK, NEW res \in Results, Receive(res), UNCHANGED sent
    PROVE  TypeOK'
<1>1. h \in Handles /\ pkt \in Buffers /\ call \in Calls
  BY DEF TypeOK
<1>2. /\ res.cells \in Seq(AllCells) /\ Len(res.cells) \in Nat
      /\ res.err \in BOOLEAN /\ res.mark \in BOOLEAN /\ Count(res) \in Int
  BY DEF Results, Count
<1>3. \A a \in Int : Copied(pkt.mem, a, res.cells) \in [1 .. MemSize -> AllCells]
  BY <1>1, <1>2, CopiedType DEF Buffers
<1>4. h.hdr.ver \in Nat
  BY <1>1 DEF Handles, Headers
<1>5. CASE HeaderArrives(res)
  <2>1. PICK hdr \in Overlaid(h.hdr, res.cells) :
           HeaderDone([h EXCEPT !.hdr = hdr, !.head = TRUE,
                                !.bytesRead = @ + Len(res.cells)], Len(res.cells))
    BY <1>5 DEF HeaderArrives
  <2>2. hdr \in Headers
    BY <1>2, OverlaidType
  <2>3. [h EXCEPT !.hdr = hdr, !.head = TRUE,
                  !.bytesRead = @ + Len(res.cells)] \in Handles
    <3>1. h.bytesRead + Len(res.cells) \in Int
      BY <1>1, <1>2 DEF Handles
    <3>. QED
      BY <2>2, <3>1, HandleStep
  <2>4. h' \in Handles /\ call' \in Calls /\ CallOK'
    BY <1>2, <1>5, <2>1, <2>3, HeaderDoneType DEF HeaderArrives
  <2>. QED
    BY <1>5, <2>4 DEF HeaderArrives, TypeOK
<1>6. CASE HeaderNothing(res)
  <2>1. [h EXCEPT !.head = res.mark] \in Handles
    BY <1>1, <1>2 DEF Handles
  <2>2. h' \in Handles /\ call' \in Calls /\ CallOK'
    BY <1>6, <2>1, HeaderEOFType DEF HeaderNothing
  <2>. QED
    BY <1>6, <2>2 DEF HeaderNothing, TypeOK
<1>7. CASE HeaderFails(res)
  <2>1. [h EXCEPT !.head = TRUE, !.bytesRead = @ - 1] \in Handles
    <3>1. h.bytesRead - 1 \in Int /\ h.hdr \in Headers
      BY <1>1 DEF Handles
    <3>. QED
      BY <3>1, HandleStep
  <2>2. h' \in Handles /\ call' \in Calls /\ CallOK'
    BY <1>7, <2>1, HeaderEOFType DEF HeaderFails
  <2>. QED
    BY <1>7, <2>2 DEF HeaderFails, TypeOK
<1>8. CASE SimpleRead(res)
  <2>1. call.type \in Types
    BY <1>8 DEF SimpleRead, WantsPayload, TypeOK, CallOK, PayloadPcs, ReadPcs, HeaderPcs
  <2>2. call' \in Calls /\ CallOK'
    <3>1. call' = [call EXCEPT !.pc = "check", !.nrd = call.nrd + Count(res)]
      BY <1>8 DEF SimpleRead, GoOn
    <3>2. call.nrd + Count(res) \in Int
      BY <1>1, <1>2 DEF Calls
    <3>3. call' \in Calls /\ call'.pc = "check" /\ call'.type = call.type
      BY <1>1, <3>1, <3>2, GoOnType
    <3>. QED
      BY <2>1, <3>3, StageOK
  <2>3. pkt' \in Buffers
    BY <1>3, <1>8, ClearedType, MemType DEF SimpleRead
  <2>. QED
    BY <1>8, <2>2, <2>3, PayloadStepType DEF SimpleRead
<1>9. CASE VarFixed(res)
  <2> DEFINE mem == Copied(pkt.mem, 1, res.cells)
  <2>1. call.type \in Types /\ Codec[call.type] = "var"
    BY <1>9 DEF VarFixed, WantsPayload, TypeOK, CallOK, PayloadPcs, ReadPcs, HeaderPcs
  <2>2. PICK n \in CountsAt(call.type, mem[1]) :
           call' = [call EXCEPT !.pc = "tail", !.nrd = @ + Count(res),
                                !.counts[1] = n]
    BY <1>9 DEF VarFixed
  <2>3. n \in Nat
    BY <2>1, <2>2, CountsAtType
  <2>4. call.nrd + Count(res) \in Int /\ 1 \in Groups
    BY <1>1, <1>2, <2>1, GroupsAssumption, ReadAssumption DEF Calls, Groups
  <2>5. call' \in Calls /\ CallOK'
    <3>1. call' \in Calls /\ call'.pc = "tail" /\ call'.type = call.type
      BY <1>1, <2>2, <2>3, <2>4, CountStep DEF ReadPcs
    <3>. QED
      BY <2>1, <3>1, StageOK
  <2>6. pkt' \in Buffers
    BY <1>3, <1>9, MemType DEF VarFixed
  <2>. QED
    BY <1>9, <2>5, <2>6, PayloadStepType DEF VarFixed
<1>10. CASE VarTail(res)
  <2>1. call.type \in Types
    BY <1>10 DEF VarTail, WantsPayload, TypeOK, CallOK, PayloadPcs, ReadPcs, HeaderPcs
  <2>2. call' \in Calls /\ CallOK'
    <3>1. call' = [call EXCEPT !.pc = "check", !.nrd = call.nrd + Count(res)]
      BY <1>10 DEF VarTail, GoOn
    <3>2. call.nrd + Count(res) \in Int
      BY <1>1, <1>2 DEF Calls
    <3>3. call' \in Calls /\ call'.pc = "check" /\ call'.type = call.type
      BY <1>1, <3>1, <3>2, GoOnType
    <3>. QED
      BY <2>1, <3>3, StageOK
  <2>3. pkt' \in Buffers
    BY <1>3, <1>10, ClearedType, MemType DEF VarTail
  <2>. QED
    BY <1>10, <2>2, <2>3, PayloadStepType DEF VarTail
<1>11. CASE WavePrefix(res)
  <2>1. /\ call.type \in Types /\ Codec[call.type] = "wave"
        /\ 1 \in 1 .. NumGroups[call.type]
    BY <1>11, GroupsAssumption, TableAssumption
       DEF WavePrefix, WantsPayload, TypeOK, CallOK, PayloadPcs, ReadPcs, HeaderPcs
  <2>2. call' \in Calls /\ CallOK' /\ Marked(res)
    <3>1. CASE Complete(res, Prefix(call.type, h.hdr.ver))
      <4>1. /\ call' = [call EXCEPT !.pc = "wf_head", !.nrd = call.nrd + Count(res),
                                    !.grp = 1]
            /\ Marked(res)
        BY <1>11, <3>1 DEF WavePrefix
      <4>2. call.nrd + Count(res) \in Int
        BY <1>1, <1>2 DEF Calls
      <4>3. /\ call' \in Calls /\ call'.pc = "wf_head"
            /\ call'.type = call.type /\ call'.grp = 1
        BY <1>1, <4>1, <4>2, GroupStep, ZenonT(30) DEF ReadPcs
      <4>. QED
        BY <2>1, <4>1, <4>3, StageOK
    <3>2. CASE ~Complete(res, Prefix(call.type, h.hdr.ver))
      BY <1>11, <2>1, <3>2, WaveFailsType DEF WavePrefix, WaveFails
    <3>. QED
      BY <3>1, <3>2
  <2>3. pkt' \in Buffers
    BY <1>3, <1>11, ClearedType, MemType DEF WavePrefix
  <2>. QED
    BY <1>11, <2>2, <2>3, PayloadStepType DEF WavePrefix
<1>12. CASE WaveHead(res)
  <2> DEFINE a   == GroupAddr(call.type, call.grp)
             mem == Copied(pkt.mem, a, res.cells)
  <2>0. call.pc \in {"wf_head", "wf_data"}
    BY <1>12 DEF WaveHead, WantsPayload
  <2>1. /\ call.type \in Types /\ Codec[call.type] = "wave"
        /\ call.grp \in 1 .. NumGroups[call.type] /\ call.grp \in Groups
        /\ NumGroups[call.type] \in Nat
    BY <2>0, WaveGroup
  <2>2. a \in Int
    BY <1>1, <2>1, LayoutTypes DEF Calls
  <2>3. call' \in Calls /\ CallOK' /\ Marked(res)
    <3>1. CASE Complete(res, 1)
      <4>1. PICK n \in CountsAt(call.type, mem[a]) :
               call' = [call EXCEPT !.pc = "wf_data", !.nrd = @ + 1,
                                    !.counts[call.grp] = n]
        BY <1>12, <3>1 DEF WaveHead
      <4>2. n \in Nat
        BY <2>1, <4>1, CountsAtType
      <4>3. call.nrd + 1 \in Int
        BY <1>1 DEF Calls
      <4>4. /\ call' \in Calls /\ call'.pc = "wf_data"
            /\ call'.type = call.type /\ call'.grp = call.grp
        BY <1>1, <2>1, <4>1, <4>2, <4>3, CountStep DEF ReadPcs
      <4>5. Marked(res)
        BY <1>12, <3>1 DEF WaveHead
      <4>. QED
        BY <2>1, <4>4, <4>5, StageOK
    <3>2. CASE ~Complete(res, 1)
      BY <1>12, <2>1, <3>2, WaveFailsType DEF WaveHead, WaveFails
    <3>. QED
      BY <3>1, <3>2
  <2>4. pkt' \in Buffers
    BY <1>3, <1>12, <2>2, MemType DEF WaveHead
  <2>. QED
    BY <1>12, <2>3, <2>4, PayloadStepType DEF WaveHead
<1>13. CASE WaveData(res)
  <2> DEFINE a == GroupAddr(call.type, call.grp)
             n == TailLen(call.type, h.hdr.ver, call.counts[call.grp])
  <2>0. call.pc \in {"wf_head", "wf_data"}
    BY <1>13 DEF WaveData, WantsPayload
  <2>1. /\ call.type \in Types /\ Codec[call.type] = "wave"
        /\ call.grp \in 1 .. NumGroups[call.type] /\ call.grp \in Groups
        /\ NumGroups[call.type] \in Nat
    BY <2>0, WaveGroup
  <2>2. a + 1 \in Int
    BY <1>1, <2>1, LayoutTypes DEF Calls
  <2>3. call' \in Calls /\ CallOK' /\ Marked(res)
    <3>1. CASE Complete(res, n)
      <4>1. n \in Nat
        BY <1>1, <1>4, <2>1, LayoutTypes DEF Calls
      <4>2. /\ call' = [call EXCEPT
                         !.nrd = @ + n,
                         !.pc  = IF call.grp = NumGroups[call.type]
                                 THEN "check" ELSE "wf_head",
                         !.grp = IF @ = NumGroups[call.type]
                                 THEN @ ELSE @ + 1]
            /\ Marked(res)
        BY <1>13, <3>1 DEF WaveData
      <4>3. call.nrd + n \in Int
        BY <1>1, <4>1 DEF Calls
      <4>4. CASE call.grp = NumGroups[call.type]
        <5>1. call' = [call EXCEPT !.nrd = call.nrd + n, !.pc = "check",
                                   !.grp = call.grp]
          BY <4>2, <4>4
        <5>2. call' \in Calls /\ call'.pc = "check" /\ call'.type = call.type
          <6>1. call.grp \in Nat
            BY <1>1 DEF Calls
          <6>. QED
            BY <1>1, <4>3, <5>1, <6>1, GroupStep
        <5>. QED
          BY <2>1, <4>2, <5>2, StageOK
      <4>5. CASE call.grp # NumGroups[call.type]
        <5>1. call' = [call EXCEPT !.nrd = call.nrd + n, !.pc = "wf_head",
                                   !.grp = call.grp + 1]
          BY <4>2, <4>5
        <5>2. call.grp + 1 \in 1 .. NumGroups[call.type] /\ call.grp + 1 \in Nat
          BY <2>1, <4>5
        <5>3. /\ call' \in Calls /\ call'.pc = "wf_head"
              /\ call'.type = call.type /\ call'.grp = call.grp + 1
          BY <1>1, <4>3, <5>1, <5>2, GroupStep DEF ReadPcs
        <5>. QED
          BY <2>1, <4>2, <5>2, <5>3, StageOK
      <4>. QED
        BY <4>4, <4>5
    <3>2. CASE ~Complete(res, n)
      BY <1>13, <2>1, <3>2, WaveFailsType DEF WaveData, WaveFails
    <3>. QED
      BY <3>1, <3>2
  <2>4. pkt' \in Buffers
    BY <1>3, <1>13, <2>2, MemType DEF WaveData
  <2>. QED
    BY <1>13, <2>3, <2>4, PayloadStepType DEF WaveData
<1>. QED
  BY <1>5, <1>6, <1>7, <1>8, <1>9, <1>10, <1>11, <1>12, <1>13 DEF Receive

(* The state of the read side always has its type, whatever the medium     *)
(* returns and whichever calls the client mixes.                           *)
THEOREM TypeCorrect == Spec => []TypeOK
<1>1. Init => TypeOK
  <2> SUFFICES ASSUME Init PROVE TypeOK
    OBVIOUS
  <2>1. h \in Handles /\ pkt \in Buffers
    BY DEF Init, FreshHandle, NullPacket, NoHeader, Handles, Buffers, Headers,
           Junk, AllCells
  <2>2. call \in Calls /\ call.pc = "idle"
    BY IdleType DEF Init, Fresh, Idle, Calls
  <2>. QED
    BY <2>1, <2>2 DEF Init, TypeOK, CallOK, PayloadPcs, ReadPcs, HeaderPcs
<1>2. TypeOK /\ [Next]_<<readVars, sent>> => TypeOK'
  <2> SUFFICES ASSUME TypeOK, [Next]_<<readVars, sent>> PROVE TypeOK'
    OBVIOUS
  <2>1. ASSUME NEW p \in Shapes, Put(p) PROVE TypeOK'
    <3>1. sent' \in Seq(Shapes)
      BY <2>1 DEF Put, TypeOK
    <3>2. CallOK'
      BY <2>1 DEF Put, TypeOK, CallOK, readVars
    <3>. QED
      BY <2>1, <3>1, <3>2 DEF Put, TypeOK, readVars
  <2>2. CASE Client /\ UNCHANGED sent
    BY <2>2, ClientType
  <2>3. CASE Internal /\ UNCHANGED sent
    BY <2>3, InternalType
  <2>4. CASE Reading /\ (\E res \in AnyResult : Receive(res)) /\ UNCHANGED sent
    <3>1. PICK res \in AnyResult : Receive(res)
      BY <2>4
    <3>2. res \in Results
      BY <2>4, AnyResultType
    <3>. QED
      BY <2>4, <3>1, <3>2, ReceiveType
  <2>5. CASE UNCHANGED <<readVars, sent>>
    BY <2>5 DEF TypeOK, CallOK, readVars
  <2>. QED
    BY <2>1, <2>2, <2>3, <2>4, <2>5 DEF Next
<1>. QED
  BY <1>1, <1>2, PTL DEF Spec

-----------------------------------------------------------------------------
(* Clients that only use pueo_ll_read and pueo_ll_read_realloc.            *)

LowLevel == "typed" \notin Ops

(* A client's call of one of the two.                                      *)
LEMMA ClientLL ==
    ASSUME TypeOK, LLInv, Client, call'.op # "typed" PROVE LLInv'
<1> USE DEF HandleConsistent, PayloadPcs, ReadPcs, HeaderPcs
<1>1. h' = h
  BY DEF Client, LLRead, LLReadRealloc, TypedRead, ClientAllocates
<1>2. CASE LLRead
  <2>1. /\ call.pc = "idle" /\ pkt' = pkt /\ ~pkt.null
        /\ call' = Calling("ll", IF h.required = 0 THEN "ll_header" ELSE "capacity")
    BY <1>2 DEF LLRead
  <2>2. /\ call'.op = "ll"
        /\ call'.pc = IF h.required = 0 THEN "ll_header" ELSE "capacity"
    BY <2>1 DEF Calling, Idle
  <2>. QED
    BY <1>1, <2>1, <2>2 DEF LLInv
<1>3. CASE LLReadRealloc
  <2>1. /\ call.pc = "idle" /\ ~pkt'.null
        /\ call' = Calling("realloc", IF h.required = 0 THEN "ll_header" ELSE "capacity")
    BY <1>3 DEF LLReadRealloc, NewPacket
  <2>2. /\ call'.op = "realloc"
        /\ call'.pc = IF h.required = 0 THEN "ll_header" ELSE "capacity"
    BY <2>1 DEF Calling, Idle
  <2>. QED
    BY <1>1, <2>1, <2>2 DEF LLInv
<1>4. ASSUME NEW t \in Types, TypedRead(t) PROVE FALSE
  BY <1>4 DEF TypedRead, Calling, Idle
<1>5. ASSUME NEW cap, ClientAllocates(cap) PROVE LLInv'
  <2>1. call.pc = "idle" /\ call'.pc = "idle"
    BY <1>5 DEF ClientAllocates, Fresh, Idle
  <2>. QED
    BY <1>1, <2>1 DEF LLInv
<1>. QED
  BY <1>2, <1>3, <1>4, <1>5 DEF Client

(* pueo_ll_read returns: nothing is asked for any more.                    *)
LEMMA ReturnLL ==
    ASSUME NEW handle \in Handles, NEW r, ReadXReturns(handle, r),
           call.op \in {"ll", "realloc"}
    PROVE  LLInv' /\ h'.hdr = handle.hdr
<1>1. call'.pc = "idle"
  BY DEF ReadXReturns, Idle
<1>2. h' = [handle EXCEPT !.required = 0, !.head = FALSE]
  BY DEF ReadXReturns
<1>3. h'.required = 0 /\ h'.hdr = handle.hdr
  BY <1>2 DEF Handles
<1>. QED
  BY <1>1, <1>3 DEF LLInv, HandleConsistent, PayloadPcs, ReadPcs, HeaderPcs

(* The header of pueo_ll_read: it is asked for only when none waits.       *)
LEMMA LLHeaderLL ==
    ASSUME TypeOK, LLInv, call.pc = "ll_header", UNCHANGED pkt,
           NEW handle \in Handles, handle.required = 0, handle.head,
           NEW r, LLHeader(handle, r)
    PROVE  LLInv'
<1>1. CASE r < HeadLen
  <2>1. call'.pc = "idle" /\ h' = handle
    BY <1>1 DEF LLHeader, Idle
  <2>. QED
    BY <2>1 DEF LLInv, HandleConsistent, PayloadPcs, ReadPcs, HeaderPcs
<1>2. CASE ~(r < HeadLen)
  <2>1. call'.pc = "capacity" /\ call'.op = call.op
    BY <1>2 DEF LLHeader, TypeOK, Calls
  <2>2. /\ h'.head /\ h'.hdr = handle.hdr
        /\ h'.required = IF handle.hdr.type \in Types
                         THEN SizeOf(handle.hdr.type) ELSE 0
    BY <1>2 DEF LLHeader, Handles
  <2>. QED
    BY <2>1, <2>2 DEF LLInv, HandleConsistent, PayloadPcs, ReadPcs, HeaderPcs
<1>. QED
  BY <1>1, <1>2

(* A step of a payload reader changes neither header nor room.             *)
LEMMA PayloadLL ==
    ASSUME TypeOK, LLInv, call.pc \in PayloadPcs,
           h'.hdr = h.hdr, pkt'.head = pkt.head, pkt'.cap = pkt.cap,
           pkt'.null = pkt.null,
           call'.pc \in PayloadPcs \cup {"check", "crashed"},
           call'.type = call.type, call'.op = call.op
    PROVE  LLInv'
BY DEF LLInv, HandleConsistent, PayloadPcs, ReadPcs, HeaderPcs

LEMMA MarkedLL ==
    ASSUME TypeOK, NEW res, Marked(res)
    PROVE  h'.hdr = h.hdr
BY DEF TypeOK, Handles, Marked

LEMMA MemLL ==
    ASSUME TypeOK, NEW mem, pkt' = [pkt EXCEPT !.mem = mem]
    PROVE  pkt'.head = pkt.head /\ pkt'.cap = pkt.cap /\ pkt'.null = pkt.null
BY DEF TypeOK, Buffers

(* The result of a read_bytes.                                             *)
LEMMA ReceiveLL ==
    ASSUME TypeOK, LLInv, NEW res \in Results, Receive(res)
    PROVE  LLInv' /\ (h.required # 0 => h'.hdr = h.hdr)
<1> USE DEF WantsPayload
<1>0. h \in Handles /\ call \in Calls /\ pkt \in Buffers
  BY DEF TypeOK
<1>1. CASE HeaderArrives(res)
  <2>1. call.pc = "ll_header" /\ h.required = 0
    BY <1>1 DEF HeaderArrives, HeaderPcs, LLInv
  <2>2. PICK hdr \in Overlaid(h.hdr, res.cells) :
           LLHeader([h EXCEPT !.hdr = hdr, !.head = TRUE,
                              !.bytesRead = @ + Len(res.cells)], Len(res.cells))
    BY <1>1, <2>1 DEF HeaderArrives, HeaderDone
  <2> DEFINE handle == [h EXCEPT !.hdr = hdr, !.head = TRUE,
                                 !.bytesRead = h.bytesRead + Len(res.cells)]
  <2>3. hdr \in Headers /\ h.bytesRead + Len(res.cells) \in Int
    BY <1>0, OverlaidType DEF Results, Handles
  <2>4. handle \in Handles
    BY <2>3, HandleStep
  <2>5. handle.required = 0 /\ handle.head
    BY <1>0, <2>1 DEF Handles
  <2>6. LLHeader(handle, Len(res.cells)) /\ UNCHANGED pkt
    BY <1>1, <2>2 DEF HeaderArrives
  <2> HIDE DEF handle
  <2>. QED
    BY <2>1, <2>4, <2>5, <2>6, LLHeaderLL
<1>2. CASE HeaderNothing(res) \/ HeaderFails(res)
  <2>1. call.pc = "ll_header" /\ h.required = 0
    BY <1>2 DEF HeaderNothing, HeaderFails, HeaderPcs, LLInv
  <2>2. CASE HeaderNothing(res)
    <3>1. h' = [h EXCEPT !.head = res.mark] /\ call' = Idle(EOF)
      BY <2>1, <2>2 DEF HeaderNothing, HeaderEOF
    <3>2. h'.required = 0
      BY <1>0, <2>1, <3>1 DEF Handles
    <3>. QED
      BY <2>1, <3>1, <3>2 DEF LLInv, HandleConsistent, PayloadPcs, ReadPcs,
                              HeaderPcs, Idle
  <2>3. CASE HeaderFails(res)
    <3> DEFINE n == h.bytesRead - 1
    <3>1. h' = [h EXCEPT !.head = TRUE, !.bytesRead = n] /\ call' = Idle(EOF)
      BY <2>1, <2>3 DEF HeaderFails, HeaderEOF
    <3> HIDE DEF n
    <3>2. h'.required = 0
      BY <1>0, <2>1, <3>1 DEF Handles
    <3>. QED
      BY <2>1, <3>1, <3>2 DEF LLInv, HandleConsistent, PayloadPcs, ReadPcs,
                              HeaderPcs, Idle
  <2>. QED
    BY <1>2, <2>2, <2>3
<1>3. CASE SimpleRead(res)
  <2>1. call'.pc = "check" /\ call'.type = call.type /\ call'.op = call.op
    BY <1>0, <1>3 DEF SimpleRead, GoOn, Calls
  <2>2. /\ call.pc \in PayloadPcs /\ Marked(res)
        /\ \E mem : pkt' = [pkt EXCEPT !.mem = mem]
    BY <1>3 DEF SimpleRead, PayloadPcs, ReadPcs, HeaderPcs
  <2>. QED
    BY <2>1, <2>2, PayloadLL, MarkedLL, MemLL
<1>4. CASE VarFixed(res)
  <2>1. call'.pc = "tail" /\ call'.type = call.type /\ call'.op = call.op
    BY <1>0, <1>4 DEF VarFixed, Calls
  <2>2. /\ call.pc \in PayloadPcs /\ call'.pc \in PayloadPcs /\ Marked(res)
        /\ \E mem : pkt' = [pkt EXCEPT !.mem = mem]
    BY <1>4, <2>1 DEF VarFixed, PayloadPcs, ReadPcs, HeaderPcs
  <2>. QED
    BY <2>1, <2>2, PayloadLL, MarkedLL, MemLL
<1>5. CASE VarTail(res)
  <2>1. call'.pc = "check" /\ call'.type = call.type /\ call'.op = call.op
    BY <1>0, <1>5 DEF VarTail, GoOn, Calls
  <2>2. /\ call.pc \in PayloadPcs /\ Marked(res)
        /\ \E mem : pkt' = [pkt EXCEPT !.mem = mem]
    BY <1>5 DEF VarTail, PayloadPcs, ReadPcs, HeaderPcs
  <2>. QED
    BY <2>1, <2>2, PayloadLL, MarkedLL, MemLL
<1>6. CASE WavePrefix(res) \/ WaveHead(res) \/ WaveData(res)
  <2>1. /\ call'.pc \in {"check", "wf_head", "wf_data"}
        /\ call'.type = call.type /\ call'.op = call.op
    BY <1>0, <1>6 DEF WavePrefix, WaveHead, WaveData, WaveFails, Calls
  <2>2. Marked(res)
    BY <1>6 DEF WavePrefix, WaveHead, WaveData, WaveFails
  <2>3. /\ call.pc \in PayloadPcs /\ call'.pc \in PayloadPcs \cup {"check"}
        /\ \E mem : pkt' = [pkt EXCEPT !.mem = mem]
    BY <1>6, <2>1
       DEF WavePrefix, WaveHead, WaveData, PayloadPcs, ReadPcs, HeaderPcs
  <2>. QED
    BY <2>1, <2>2, <2>3, PayloadLL, MarkedLL, MemLL
<1>. QED
  BY <1>1, <1>2, <1>3, <1>4, <1>5, <1>6 DEF Receive

(* A step that reads nothing.                                              *)
LEMMA InternalLL ==
    ASSUME TypeOK, LLInv, Internal
    PROVE  LLInv' /\ h'.hdr = h.hdr
<1>0. h \in Handles /\ call \in Calls /\ pkt \in Buffers
  BY DEF TypeOK
<1>1. CASE HeaderAlreadyRead
  <2>1. CASE call.pc = "ll_header"
    <3>1. h' = h /\ call'.pc = "idle" /\ h.required = 0
      BY <1>1, <2>1 DEF HeaderAlreadyRead, HeaderDone, LLHeader, HeadLen, Idle, LLInv
    <3>. QED
      BY <3>1 DEF LLInv, HandleConsistent, PayloadPcs, ReadPcs, HeaderPcs
  <2>2. CASE call.pc = "typed_header"
    <3>1. h.hdr.type = call.type /\ call.type \in Types
      BY <2>2 DEF LLInv, TypeOK, CallOK
    <3>2. /\ h' = [h EXCEPT !.head = FALSE] /\ pkt' = pkt
          /\ call' = [call EXCEPT !.pc = FirstRead(call.type)]
      BY <1>1, <2>2, <3>1 DEF HeaderAlreadyRead, HeaderDone, TypedHeader
    <3>3. FirstRead(call.type) \in PayloadPcs
      BY <3>1, TableAssumption
         DEF FirstRead, Codecs, PayloadPcs, ReadPcs, HeaderPcs
    <3>4. /\ call'.pc \in PayloadPcs /\ call'.type = call.type
          /\ call'.op = call.op /\ h'.hdr = h.hdr
      BY <1>0, <3>2, <3>3 DEF Calls, Handles
    <3>. QED
      BY <2>2, <3>2, <3>4
         DEF LLInv, HandleConsistent, PayloadPcs, ReadPcs, HeaderPcs
  <2>. QED
    BY <1>1, <2>1, <2>2 DEF HeaderAlreadyRead, HeaderPcs
<1>2. CASE TooSmall
  <2>1. call.pc = "capacity" /\ pkt.cap < h.required /\ h' = h
    BY <1>2 DEF TooSmall
  <2>2. CASE call.op = "ll"
    <3>1. call'.pc = "idle"
      BY <1>2, <2>2 DEF TooSmall, Idle
    <3>2. h.required # 0
      BY <1>0, <2>1 DEF Buffers, Handles
    <3>. QED
      BY <2>1, <3>1, <3>2
         DEF LLInv, HandleConsistent, PayloadPcs, ReadPcs, HeaderPcs
  <2>3. CASE call.op # "ll"
    <3>1. call'.pc = "capacity" /\ call'.op = "ll" /\ ~pkt'.null
      BY <1>0, <1>2, <2>1, <2>3 DEF TooSmall, NewPacket, Calls
    <3>. QED
      BY <2>1, <3>1 DEF LLInv, HandleConsistent, PayloadPcs, ReadPcs, HeaderPcs
  <2>. QED
    BY <2>2, <2>3
<1>3. CASE Dispatch
  <2>1. call.pc = "capacity" /\ pkt.cap >= h.required
    BY <1>3 DEF Dispatch
  <2>2. pkt'.head = h.hdr /\ pkt'.cap = pkt.cap /\ pkt'.null = pkt.null
    BY <1>0, <1>3 DEF Dispatch, Buffers
  <2>3. CASE h.hdr.type \in Types
    <3>1. /\ h' = h /\ call'.pc = "typed_header"
          /\ call'.type = h.hdr.type /\ call'.op = call.op
      BY <1>0, <1>3, <2>3 DEF Dispatch, Calls
    <3>2. SizeOf(h.hdr.type) <= pkt.cap
      BY <2>1, <2>3 DEF LLInv
    <3>. QED
      BY <2>1, <2>2, <3>1, <3>2
         DEF LLInv, HandleConsistent, PayloadPcs, ReadPcs, HeaderPcs
  <2>4. CASE h.hdr.type \notin Types
    BY <1>0, <1>3, <2>1, <2>4, ReturnLL DEF Dispatch, LLInv
  <2>. QED
    BY <2>3, <2>4
<1>4. CASE SimpleBadVersion
  <2>1. call.pc \in PayloadPcs /\ h' = h /\ pkt' = pkt
    BY <1>4 DEF SimpleBadVersion, WantsPayload, PayloadPcs, ReadPcs, HeaderPcs
  <2>2. call'.pc = "crashed" /\ call'.type = call.type /\ call'.op = call.op
    BY <1>0, <1>4 DEF SimpleBadVersion, Calls
  <2>. QED
    BY <2>1, <2>2, PayloadLL
<1>5. CASE Check
  <2> DEFINE n == h.bytesRead + call.nrd
             handle == [h EXCEPT !.bytesRead = n]
  <2>1. call.pc = "check" /\ ReadXReturns(handle, call.nrd)
    BY <1>5 DEF Check
  <2>2. n \in Int
    BY <1>0 DEF Handles, Calls
  <2> HIDE DEF n
  <2>3. handle \in Handles /\ handle.hdr = h.hdr
    BY <1>0, <2>2 DEF Handles
  <2>4. call.op \in {"ll", "realloc"}
    BY <2>1 DEF LLInv
  <2> HIDE DEF handle
  <2>. QED
    BY <2>1, <2>3, <2>4, ReturnLL
<1>. QED
  BY <1>1, <1>2, <1>3, <1>4, <1>5 DEF Internal

(* Every step of Next.                                                     *)
LEMMA NextLL ==
    ASSUME LowLevel, TypeOK, LLInv, [Next]_<<readVars, sent>>
    PROVE  LLInv' /\ (h.required # 0 => h'.hdr = h.hdr)
<1>1. CASE UNCHANGED readVars
  <2>1. h' = h /\ pkt' = pkt /\ call' = call
    BY <1>1 DEF readVars
  <2>. QED
    BY <2>1 DEF LLInv, HandleConsistent
<1>2. CASE Client
  <2>1. h' = h
    BY <1>2 DEF Client, LLRead, LLReadRealloc, TypedRead, ClientAllocates
  <2>2. call'.op # "typed"
    BY <1>2 DEF Client, LLRead, LLReadRealloc, TypedRead, ClientAllocates, LowLevel,
                Calling, Idle, Fresh
  <2>. QED
    BY <1>2, <2>1, <2>2, ClientLL
<1>3. CASE Internal
  BY <1>3, InternalLL
<1>4. CASE Reading /\ \E res \in AnyResult : Receive(res)
  BY <1>4, AnyResultType, ReceiveLL
<1>. QED
  BY <1>1, <1>2, <1>3, <1>4 DEF Next, Put, readVars

(* The low-level reads keep handle, call and packet consistent.            *)
THEOREM LowLevelConsistent == LowLevel => (Spec => []LLInv)
<1> SUFFICES ASSUME LowLevel PROVE Spec => []LLInv
  OBVIOUS
<1>1. Init => LLInv
  BY DEF Init, FreshHandle, Fresh, Idle, LLInv, HandleConsistent, PayloadPcs,
         ReadPcs, HeaderPcs
<1>2. TypeOK /\ LLInv /\ [Next]_<<readVars, sent>> => LLInv'
  BY NextLL
<1>. QED
  BY <1>1, <1>2, TypeCorrect, PTL DEF Spec

(* Hence the handle's header, flag and required size agree between calls.  *)
THEOREM HandleIsConsistent == LowLevel => (Spec => []HandleConsistent)
<1>1. LLInv => HandleConsistent
  BY DEF LLInv
<1>. QED
  BY <1>1, LowLevelConsistent, PTL

(* No payload is read into a packet without room for its type.             *)
THEOREM AlwaysRoomForPayload == LowLevel => (Spec => []RoomForPayload)
<1>1. TypeOK /\ LLInv => RoomForPayload
  BY DEF LLInv, RoomForPayload, TypeOK, CallOK
<1>. QED
  BY <1>1, LowLevelConsistent, TypeCorrect, PTL

(* The header in the packet is that of the payload being read into it.     *)
THEOREM HeaderOfThePayload == LowLevel => (Spec => []HeaderIsThePayloads)
<1>1. LLInv => HeaderIsThePayloads
  BY DEF LLInv, HeaderIsThePayloads
<1>. QED
  BY <1>1, LowLevelConsistent, PTL

(* A header that waits for room is never read over.                        *)
THEOREM WaitingHeaderKept == LowLevel => (Spec => HeaderKept)
<1> SUFFICES ASSUME LowLevel PROVE Spec => HeaderKept
  OBVIOUS
<1>1. TypeOK /\ LLInv /\ [Next]_<<readVars, sent>>
         => [h.required # 0 => h'.hdr = h.hdr]_<<readVars, sent>>
  BY NextLL
<1>. QED
  BY <1>1, LowLevelConsistent, TypeCorrect, PTL DEF Spec, HeaderKept
-----------------------------------------------------------------------------
(* What the writer of a payload writes.                                    *)

(* The group of a region that a writer writes next.                        *)
GroupOf(t, region) == IF Codec[t] = "var" THEN region ELSE region - 1

(* Every packet has a region, and a region has cells of one group in order.*)
LEMMA RegionsOf ==
    ASSUME NEW id \in Nat, NEW p \in Packets
    PROVE  /\ Len(Regions(id, p)) \in Nat /\ Len(Regions(id, p)) >= 1
           /\ \A r \in 1 .. Len(Regions(id, p)) :
                 LET cells == Regions(id, p)[r]
                     g     == GroupOf(p.type, r)
                 IN  /\ cells \in Seq(AllCells) /\ g \in Nat
                     /\ \A k \in 1 .. Len(cells) :
                           /\ cells[k] = Cell(id, Slot(g, IF g = 0 THEN k ELSE k - 1))
                           /\ cells[k][2] \in WireSlots(p.type, p.ver, p.counts)
<1> DEFINE t == p.type
           n(g) == TailLen(t, p.ver, p.counts[g])
<1>1. /\ t \in Types /\ NumGroups[t] \in Nat /\ NumGroups[t] <= MaxGroups
      /\ Codec[t] = "var" => NumGroups[t] = 1
  BY TableAssumption, GroupsAssumption DEF Packets
<1>2. \A g \in 1 .. NumGroups[t] : n(g) \in Nat
  <2>1. \A g \in 1 .. NumGroups[t] : g \in Groups
    BY <1>1, ReadAssumption DEF Groups
  <2>2. p.ver \in Nat /\ \A g \in Groups : p.counts[g] \in Nat
    BY DEF Packets
  <2> QED
    BY <1>1, <2>1, <2>2, LayoutTypes
<1>3. Prefix(t, p.ver) \in Nat
  BY <1>1, LayoutTypes DEF Packets
<1> HIDE DEF n
<1>4. ASSUME NEW g \in 1 .. NumGroups[t], NEW cells, cells = GroupCells(id, g, n(g))
      PROVE  /\ cells \in Seq(AllCells) /\ g # 0
             /\ \A k \in 1 .. Len(cells) :
                   /\ cells[k] = Cell(id, Slot(g, k - 1))
                   /\ cells[k][2] \in WireSlots(t, p.ver, p.counts)
  <2>1. cells = [k \in 1 .. n(g) + 1 |-> <<id, <<g, k - 1>>>>]
    BY <1>4 DEF GroupCells, Cell, Slot
  <2>2. n(g) + 1 \in Nat /\ g \in Int
    BY <1>1, <1>2
  <2>3. \A k \in 1 .. n(g) + 1 : <<id, <<g, k - 1>>>> \in AllCells
    BY <2>2 DEF AllCells
  <2>4. cells \in Seq(AllCells) /\ Len(cells) = n(g) + 1
    BY <2>1, <2>2, <2>3
  <2>5. \A k \in 1 .. n(g) + 1 : <<g, k - 1>> \in {Slot(g, i) : i \in 0 .. n(g)}
    BY <1>2 DEF Slot
  <2>6. {Slot(g, i) : i \in 0 .. n(g)} \subseteq WireSlots(t, p.ver, p.counts)
    BY DEF WireSlots, n
  <2>7. ASSUME NEW k \in 1 .. Len(cells)
        PROVE  /\ cells[k] = Cell(id, Slot(g, k - 1))
               /\ cells[k][2] \in WireSlots(t, p.ver, p.counts)
    <3>1. k \in 1 .. n(g) + 1 /\ cells[k] = <<id, <<g, k - 1>>>>
      BY <2>1, <2>4
    <3>2. <<g, k - 1>> \in WireSlots(t, p.ver, p.counts)
      BY <2>5, <2>6, <3>1
    <3> QED
      BY <3>1, <3>2 DEF Cell, Slot
  <2> QED
    BY <1>1, <2>4, <2>7
<1>5. ASSUME NEW cells, cells = PrefixCells(id, t, p.ver)
      PROVE  /\ cells \in Seq(AllCells)
             /\ \A k \in 1 .. Len(cells) :
                   /\ cells[k] = Cell(id, Slot(0, k))
                   /\ cells[k][2] \in WireSlots(t, p.ver, p.counts)
  <2> DEFINE m == Prefix(t, p.ver)
  <2>1. cells = [k \in 1 .. m |-> <<id, <<0, k>>>>] /\ m \in Nat
    BY <1>3, <1>5 DEF PrefixCells, Cell, Slot
  <2>2. {Slot(0, i) : i \in 1 .. m} \subseteq WireSlots(t, p.ver, p.counts)
    BY DEF WireSlots
  <2> HIDE DEF m
  <2>3. cells \in Seq(AllCells) /\ Len(cells) = m
    BY <2>1 DEF AllCells
  <2>4. ASSUME NEW k \in 1 .. Len(cells)
        PROVE  /\ cells[k] = Cell(id, Slot(0, k))
               /\ cells[k][2] \in WireSlots(t, p.ver, p.counts)
    <3>1. k \in 1 .. m /\ cells[k] = <<id, <<0, k>>>>
      BY <2>1, <2>3
    <3>2. <<0, k>> \in WireSlots(t, p.ver, p.counts)
      BY <2>2, <3>1 DEF m, Slot
    <3> QED
      BY <3>1, <3>2 DEF Cell, Slot
  <2> QED
    BY <2>3, <2>4
<1>6. CASE Codec[t] = "var"
  <2>1. Regions(id, p) = [g \in 1 .. NumGroups[t] |-> GroupCells(id, g, n(g))]
    BY <1>6 DEF Regions, n
  <2>2. Len(Regions(id, p)) = NumGroups[t]
    BY <1>1, <2>1
  <2>3. ASSUME NEW r \in 1 .. NumGroups[t]
        PROVE  Regions(id, p)[r] = GroupCells(id, r, n(r)) /\ GroupOf(t, r) = r
               /\ r \in Nat /\ r # 0
    BY <1>1, <1>6, <2>1 DEF GroupOf
  <2>4. ASSUME NEW r \in 1 .. NumGroups[t]
        PROVE  LET cells == Regions(id, p)[r]
                   g     == GroupOf(t, r)
               IN  /\ cells \in Seq(AllCells) /\ g \in Nat
                   /\ \A k \in 1 .. Len(cells) :
                         /\ cells[k] = Cell(id, Slot(g, IF g = 0 THEN k ELSE k - 1))
                         /\ cells[k][2] \in WireSlots(t, p.ver, p.counts)
    BY <1>4, <2>3
  <2> QED
    BY <1>1, <1>6, <2>2, <2>4
<1>7. CASE Codec[t] # "var"
  <2> DEFINE N == NumGroups[t] + 1
  <2>1. Regions(id, p) = [i \in 1 .. N |-> IF i = 1 THEN PrefixCells(id, t, p.ver)
                                           ELSE GroupCells(id, i - 1, n(i - 1))]
    BY <1>7 DEF Regions, n
  <2>2. Len(Regions(id, p)) = N /\ N \in Nat /\ N >= 1
    BY <1>1, <2>1
  <2>3. ASSUME NEW r \in 2 .. N
        PROVE  /\ Regions(id, p)[r] = GroupCells(id, r - 1, n(r - 1))
               /\ GroupOf(t, r) = r - 1
               /\ r - 1 \in 1 .. NumGroups[t] /\ r - 1 \in Nat /\ r - 1 # 0
    BY <1>1, <1>7, <2>1 DEF GroupOf
  <2>4. Regions(id, p)[1] = PrefixCells(id, t, p.ver) /\ GroupOf(t, 1) = 0
    BY <1>7, <2>1, <2>2 DEF GroupOf
  <2> HIDE DEF N
  <2>5. ASSUME NEW r \in 2 .. N
        PROVE  LET cells == Regions(id, p)[r]
                   g     == GroupOf(t, r)
               IN  /\ cells \in Seq(AllCells) /\ g \in Nat
                   /\ \A k \in 1 .. Len(cells) :
                         /\ cells[k] = Cell(id, Slot(g, IF g = 0 THEN k ELSE k - 1))
                         /\ cells[k][2] \in WireSlots(t, p.ver, p.counts)
    BY <1>4, <2>3
  <2> QED
    BY <1>5, <2>2, <2>4, <2>5
<1> QED
  BY <1>6, <1>7

-----------------------------------------------------------------------------
(* Where the slots of a payload lie in memory.                             *)

(* The groups lie one behind the other, all of them within the struct.     *)
LEMMA GroupPlaces ==
    ASSUME NEW t \in Types, NEW g \in 1 .. NumGroups[t]
    PROVE  /\ GroupAddr(t, g) \in Nat
           /\ GroupAddr(t, g) > PrefixLen[t][CurVer[t]]
           /\ GroupAddr(t, g) + MaxCount[t] <= MemSize
           /\ \A k \in 1 .. g - 1 : GroupAddr(t, k) + MaxCount[t] < GroupAddr(t, g)
<1> DEFINE base == PrefixLen[t][CurVer[t]]
           m    == 1 + MaxCount[t]
           n    == NumGroups[t]
<1>1. base \in Nat /\ m \in Nat /\ n \in Nat /\ m >= 1 /\ MaxCount[t] \in Nat
  BY TableAssumption
<1>2. base + n * m <= MemSize /\ MemSize \in Nat
  BY MemoryAssumption, ReadAssumption DEF SizeOf
<1>3. \A k \in Nat : GroupAddr(t, k) = base + (k - 1) * m + 1
  BY DEF GroupAddr
<1> HIDE DEF base, m, n
<1>4. g \in 1 .. n
  BY DEF n
<1>5. \A a, b \in Nat : a < b => a * m + m <= b * m
  BY <1>1
<1>6. /\ (g - 1) * m \in Nat /\ (g - 1) * m + m <= n * m /\ n * m \in Nat
  BY <1>1, <1>4, <1>5
<1>7. ASSUME NEW k \in 1 .. g - 1
      PROVE  (k - 1) * m + m <= (g - 1) * m /\ (k - 1) * m \in Nat
  BY <1>1, <1>4, <1>5
<1>8. GroupAddr(t, g) = base + (g - 1) * m + 1
  BY <1>3, <1>4
<1>9. MaxCount[t] = m - 1
  BY <1>1 DEF m
<1> DEFINE x == (g - 1) * m
           y == n * m
<1> HIDE DEF x, y
<1>10. /\ GroupAddr(t, g) \in Nat /\ GroupAddr(t, g) > base
       /\ GroupAddr(t, g) + MaxCount[t] <= MemSize
  BY <1>1, <1>2, <1>6, <1>8, <1>9 DEF x, y
<1>11. ASSUME NEW k \in 1 .. g - 1
       PROVE  GroupAddr(t, k) + MaxCount[t] < GroupAddr(t, g)
  <2> DEFINE z == (k - 1) * m
  <2>1. GroupAddr(t, k) = base + z + 1
    BY <1>3, <1>4
  <2>2. z + m <= (g - 1) * m /\ z \in Nat
    BY <1>7
  <2> HIDE DEF z
  <2> QED
    BY <1>1, <1>6, <1>8, <1>9, <2>1, <2>2 DEF x
<1> QED
  BY <1>10, <1>11 DEF base

(* So does the prefix, before them, and a group has no more elements than  *)
(* there is room for.                                                      *)
LEMMA PrefixPlace ==
    ASSUME NEW t \in Types, NEW v \in Nat
    PROVE  /\ Prefix(t, v) \in Nat /\ Prefix(t, v) <= MemSize
           /\ Prefix(t, v) <= PrefixLen[t][CurVer[t]]
           /\ Codec[t] = "var" => Prefix(t, v) = 0 /\ PrefixLen[t][CurVer[t]] = 0
           /\ \A n \in Nat : TailLen(t, v, n) \in Nat /\ TailLen(t, v, n) <= MaxCount[t]
<1> DEFINE base == PrefixLen[t][CurVer[t]]
<1>1. /\ CurVer[t] \in Nat /\ NumGroups[t] \in Nat /\ MaxCount[t] \in Nat
      /\ base \in Nat
  BY TableAssumption
<1>2. Prefix(t, v) \in Nat /\ Prefix(t, v) <= base
  <2> DEFINE u == IF KnownVer(t, v) THEN v ELSE CurVer[t]
  <2>1. u \in 0 .. CurVer[t] /\ Prefix(t, v) = PrefixLen[t][u]
    BY <1>1 DEF Prefix, KnownVer
  <2> HIDE DEF u
  <2> QED
    BY <2>1, LayoutTypes, MemoryAssumption
<1>3. Codec[t] = "var" => Prefix(t, v) = 0 /\ base = 0
  BY <1>1, MemoryAssumption DEF Prefix, KnownVer
<1>4. base <= MemSize
  <2>1. NumGroups[t] * (1 + MaxCount[t]) \in Nat
    BY <1>1
  <2>2. base + NumGroups[t] * (1 + MaxCount[t]) <= MemSize
    BY MemoryAssumption DEF SizeOf
  <2> DEFINE y == NumGroups[t] * (1 + MaxCount[t])
  <2> HIDE DEF y
  <2> QED
    BY <1>1, <2>1, <2>2, ReadAssumption DEF y
<1>5. \A n \in Nat : TailLen(t, v, n) \in Nat /\ TailLen(t, v, n) <= MaxCount[t]
  BY <1>1 DEF TailLen
<1> QED
  BY <1>1, <1>2, <1>3, <1>4, <1>5, ReadAssumption

(* How much a simple and a variable packet have on the wire.               *)
LEMMA PlainSlots ==
    ASSUME NEW t \in Types, NEW v \in Nat, NEW counts \in [Groups -> Nat]
    PROVE  /\ Codec[t] = "simple" =>
                 /\ WireSlots(t, v, counts) = {Slot(0, i) : i \in 1 .. Prefix(t, v)}
                 /\ Cardinality(WireSlots(t, v, counts)) = Prefix(t, v)
           /\ Codec[t] = "var" =>
                 LET T == TailLen(t, v, counts[1])
                 IN  /\ WireSlots(t, v, counts) = {Slot(1, i) : i \in 0 .. T}
                     /\ Cardinality(WireSlots(t, v, counts)) = 1 + T
                     /\ T \in Nat /\ 1 \in Groups
<1>1. CASE Codec[t] = "simple"
  <2>1. NumGroups[t] = 0 /\ Prefix(t, v) \in Nat
    BY <1>1, GroupsAssumption, PrefixPlace
  <2>2. WireSlots(t, v, counts) = {Slot(0, i) : i \in 1 .. Prefix(t, v)}
    BY <2>1 DEF WireSlots
  <2> DEFINE n == Prefix(t, v)
             f == [i \in 1 .. n |-> Slot(0, i)]
             S == {Slot(0, i) : i \in 1 .. n}
  <2> HIDE DEF n
  <2>3. f \in Bijection(1 .. n, S)
    <3>1. \A i, j \in 1 .. n : f[i] = f[j] => i = j
      BY DEF Slot
    <3>2. f \in [1 .. n -> S] /\ \A y \in S : \E i \in 1 .. n : f[i] = y
      OBVIOUS
    <3> HIDE DEF f, S
    <3> QED
      BY <3>1, <3>2 DEF Bijection, Injection, Surjection, IsInjective
  <2>4. Cardinality(S) = n
    <3>1. n \in Nat
      BY <2>1 DEF n
    <3>2. IsFiniteSet(1 .. n) /\ Cardinality(1 .. n) = n
      BY <3>1, FS_Interval
    <3> HIDE DEF f, S
    <3>3. ExistsBijection(1 .. n, S)
      BY <2>3 DEF ExistsBijection
    <3> QED
      BY <3>2, <3>3, FS_Bijection
  <2> QED
    BY <1>1, <2>2, <2>4 DEF n
<1>2. CASE Codec[t] = "var"
  <2> DEFINE T == TailLen(t, v, counts[1])
  <2>1. /\ NumGroups[t] = 1 /\ Prefix(t, v) = 0 /\ 1 \in Groups
    <3>1. NumGroups[t] = 1 /\ 1 <= MaxGroups
      BY <1>2, GroupsAssumption
    <3>2. MaxGroups \in Nat
      BY ReadAssumption
    <3>3. 1 \in Groups
      BY <3>1, <3>2 DEF Groups
    <3> QED
      BY <1>2, <3>1, <3>3, PrefixPlace
  <2>2. T \in Nat
    BY <2>1, PrefixPlace
  <2>3. WireSlots(t, v, counts) = {Slot(1, i) : i \in 0 .. T}
    BY <2>1 DEF WireSlots
  <2> HIDE DEF T
  <2> DEFINE f == [i \in 0 .. T |-> Slot(1, i)]
             S == {Slot(1, i) : i \in 0 .. T}
  <2>4. f \in Bijection(0 .. T, S)
    <3>1. \A i, j \in 0 .. T : f[i] = f[j] => i = j
      BY DEF Slot
    <3>2. f \in [0 .. T -> S] /\ \A y \in S : \E i \in 0 .. T : f[i] = y
      OBVIOUS
    <3> HIDE DEF f, S
    <3> QED
      BY <3>1, <3>2 DEF Bijection, Injection, Surjection, IsInjective
  <2>5. Cardinality(S) = 1 + T
    <3>1. IsFiniteSet(0 .. T) /\ Cardinality(0 .. T) = 1 + T
      BY <2>2, FS_Interval
    <3> HIDE DEF f, S
    <3>2. ExistsBijection(0 .. T, S)
      BY <2>4 DEF ExistsBijection
    <3>3. Cardinality(S) = Cardinality(0 .. T)
      BY <3>1, <3>2, FS_Bijection
    <3> QED
      BY <2>2, <3>1, <3>3
  <2> QED
    BY <1>2, <2>1, <2>2, <2>3, <2>5 DEF T
<1> QED
  BY <1>1, <1>2

(* The cells lie at a and behind it, and the rest is what was there.       *)
Written(new, old, a, cells) ==
    /\ \A k \in 1 .. Len(cells), b \in 1 .. MemSize : b + 1 = a + k => new[b] = cells[k]
    /\ \A b \in 1 .. MemSize : b < a \/ b >= a + Len(cells) => new[b] = old[b]

LEMMA CopiedAt ==
    ASSUME NEW old, NEW cells \in Seq(AllCells), NEW a \in Nat
    PROVE  Written(Copied(old, a, cells), old, a, cells)
<1>1. Len(cells) \in Nat
  OBVIOUS
<1>2. ASSUME NEW k \in 1 .. Len(cells), NEW b \in 1 .. MemSize, b + 1 = a + k
      PROVE  Copied(old, a, cells)[b] = cells[k]
  <2>1. b \in a .. a + Len(cells) - 1 /\ b - a + 1 = k
    BY <1>1, <1>2
  <2> QED
    BY <2>1 DEF Copied
<1>3. ASSUME NEW b \in 1 .. MemSize, b < a \/ b >= a + Len(cells)
      PROVE  Copied(old, a, cells)[b] = old[b]
  <2>1. b \notin a .. a + Len(cells) - 1
    BY <1>1, <1>3
  <2> QED
    BY <2>1 DEF Copied
<1> QED
  BY <1>2, <1>3 DEF Written

(* What a payload reader knows of its call.                                *)
LEMMA PayloadCall ==
    ASSUME TypeOK, call.pc \in PayloadPcs
    PROVE  /\ call.type \in Types /\ h.hdr.ver \in Nat /\ h \in Handles
           /\ call \in Calls /\ pkt \in Buffers
           /\ call.counts \in [Groups -> Nat] /\ call.nrd \in Int
BY DEF TypeOK, CallOK, Handles, Headers, Calls

=============================================================================
