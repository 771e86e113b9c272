----------------------------- MODULE HandleRead -----------------------------
(***************************************************************************)
(* The read side of a pueo_handle_t (rawio.c:410-548 and the payload       *)
(* readers of rawio_packets.c): pueo_ll_read, pueo_ll_read_realloc and the *)
(* typed readers pueo_read_X, split at their calls of h->read_bytes.       *)
(*                                                                         *)
(* The medium behind read_bytes is not modelled here: every action that    *)
(* reads is parameterised by the result the medium returns,                *)
(*   [cells |-> what arrived, err |-> it returned -1,                      *)
(*    mark |-> it set PUEO_HANDLE_ALREADY_READ_HEAD itself].               *)
(* FileStream and UdpStream supply results of real media; the Next of this *)
(* module lets the medium return anything, so that what is proved of Spec  *)
(* holds of every backend.                                                 *)
(***************************************************************************)
EXTENDS PacketFormat

CONSTANTS
    Ops,           \* calls the client makes, within {"ll","realloc","typed"}
    InitCap,       \* the 512 bytes pueo_ll_read_realloc starts with
    ClientCaps,    \* capacities a client gives pueo_packet_init
    MaxGroups,     \* bound: waveforms of a packet
    MemSize,       \* bound: addresses of a payload buffer that are modelled
    Versions,      \* bound: version numbers a damaged header may show
    Lengths,       \* bound: num_bytes a damaged header may show
    Shapes,        \* the packets that may enter the medium
    MaxSent,       \* bound: how many do
    MaxRead,       \* bound: cells after which the client of Next stops
    Marks,         \* whether the medium of Next may set the flag itself
    ClearsByRead   \* variable packets whose reader clears after what it read

EOF == -1
EIO == -5
EMSGSIZE == -90

ASSUME GroupsAssumption ==
    \A t \in Types :
        /\ NumGroups[t] <= MaxGroups
        /\ Codec[t] = "simple" => NumGroups[t] = 0
        /\ Codec[t] = "var"    => NumGroups[t] = 1
        /\ Codec[t] = "wave"   => NumGroups[t] >= 1

ASSUME ReadAssumption ==
    /\ Ops \subseteq {"ll", "realloc", "typed"}
    /\ InitCap \in Nat
    /\ ClientCaps \subseteq Nat
    /\ MaxGroups \in Nat
    /\ MemSize \in Nat
    /\ Marks \subseteq BOOLEAN
    /\ MaxSent \in Nat /\ MaxRead \in Nat
    /\ Versions \subseteq Nat
    /\ Lengths \subseteq Nat

(* A struct fits in the memory that is modelled, old prefixes are no longer *)
(* than new ones, and what has one group starts with it.                   *)
ASSUME MemoryAssumption ==
    \A t \in Types :
        /\ SizeOf(t) <= MemSize
        /\ \A v \in 0 .. CurVer[t] :
              /\ PrefixLen[t][v] <= PrefixLen[t][CurVer[t]]
              /\ Codec[t] = "var" => PrefixLen[t][v] = 0

(* Every struct but those of variable packets has bytes before its         *)
(* waveforms: no version of it is empty.                                   *)
ASSUME PayloadAssumption ==
    \A t \in Types : Codec[t] # "var" =>
        \A v \in 0 .. CurVer[t] : PrefixLen[t][v] > 0

VARIABLES
    h,      \* the handle: hdr, required, head (the flag), bytesRead
    pkt,    \* the client's pueo_packet_t: null, head, cap, mem
    call,   \* the call in progress, or the result of the last one
    sent,   \* the packets that ever entered the medium, by identifier
    out     \* what payload readers returned: a packet, or 0 after a warning

readVars == <<h, pkt, call, out>>

Groups == 1 .. MaxGroups

Packets == [type : Types, ver : Nat, counts : [Groups -> Nat]]

ASSUME ShapesAssumption == Shapes \subseteq Packets

NoHeader == [type |-> NoType, sum |-> 0, ver |-> 0, nbytes |-> 0]

FreshHandle == [hdr |-> NoHeader, required |-> 0, head |-> FALSE, bytesRead |-> 0]

NullPacket ==
    [null |-> TRUE, head |-> NoHeader, cap |-> 0, mem |-> [a \in 1 .. MemSize |-> Junk]]

(* malloc and pueo_packet_init: nothing is known of the payload.           *)
NewPacket(cap) ==
    [null |-> FALSE, head |-> NoHeader, cap |-> cap, mem |-> [a \in 1 .. MemSize |-> Junk]]

NoCounts == [g \in Groups |-> 0]

Idle(ret) == [pc |-> "idle", op |-> "none", type |-> NoType, ret |-> ret,
              counts |-> NoCounts, grp |-> 0, nrd |-> 0]

(* A client that has a packet, or will have one, and made no call with it. *)
Fresh == [Idle(0) EXCEPT !.op = "fresh"]

Calling(op, pc) == [Idle(0) EXCEPT !.op = op, !.pc = pc]

Count(res) == IF res.err THEN -1 ELSE Len(res.cells)

-----------------------------------------------------------------------------
(* What memory holds after the cells were copied to address a and on.      *)
Copied(mem, a, cells) ==
    [b \in 1 .. MemSize |-> IF b \in a .. a + Len(cells) - 1
                            THEN cells[b - a + 1] ELSE mem[b]]

(* Mutant: no memset.                                                      *)
Uncleared(mem, from) == mem

Cleared(mem, from) == [b \in 1 .. MemSize |-> IF b >= from THEN Zero ELSE mem[b]]

(* The two halves of a header as the bytes of a cell read; a cell that is  *)
(* not the matching half of a header reads as anything, with a checksum no *)
(* payload has.                                                            *)
IsHead(c, i) == c[2] = HeadSlot(i) /\ c[1] \in DOMAIN sent

FirstHalf(c) ==
    IF IsHead(c, 1) THEN {[type |-> sent[c[1]].type, sum |-> c[1]]}
                    ELSE {[type |-> t, sum |-> 0] : t \in Types \cup {NoType}}

SecondHalf(c) ==
    IF IsHead(c, 2)
    THEN LET p == sent[c[1]]
         IN  {[ver |-> p.ver, nbytes |-> NumBytes(p.type, p.ver, p.counts)]}
    ELSE [ver : Versions, nbytes : Lengths]

(* last_read_header once the cells were copied over it.                    *)
Overlaid(hdr, cells) ==
    {[type |-> a.type, sum |-> a.sum, ver |-> b.ver, nbytes |-> b.nbytes] :
        a \in IF Len(cells) >= 1 THEN FirstHalf(cells[1])
                                 ELSE {[type |-> hdr.type, sum |-> hdr.sum]},
        b \in IF Len(cells) >= 2 THEN SecondHalf(cells[2])
                                 ELSE {[ver |-> hdr.ver, nbytes |-> hdr.nbytes]}}

(* The element count a fixed part in memory holds: that of the packet it   *)
(* came from, anything when it is not such a fixed part.                   *)
CountsAt(t, c) ==
    IF /\ c[1] \in DOMAIN sent
       /\ sent[c[1]].type = t
       /\ c[2][1] \in 1 .. NumGroups[t]
       /\ c[2][2] = 0
    THEN {sent[c[1]].counts[c[2][1]]}
    ELSE 0 .. MaxCount[t]

-----------------------------------------------------------------------------
(* Mutants: required_read_size, or the flag, is left set.                  *)
ReturnsRequired(handle, r) ==
    /\ call' = Idle(r)
    /\ h' = IF call.op = "typed" THEN handle ELSE [handle EXCEPT !.head = FALSE]

ReturnsFlag(handle, r) ==
    /\ call' = Idle(r)
    /\ h' = IF call.op = "typed" THEN handle ELSE [handle EXCEPT !.required = 0]

(* Returning from pueo_read_X with r: a typed call ends; pueo_ll_read      *)
(* clears required_read_size and the flag whatever r is.                   *)
ReadXReturns(handle, r) ==
    /\ call' = Idle(r)
    /\ h' = IF call.op = "typed" THEN handle
            ELSE [handle EXCEPT !.required = 0, !.head = FALSE]

(* Mutant: variable packets are sent to a reader of waveforms.             *)
FirstReadWave(t) == IF Codec[t] = "simple" THEN "simple" ELSE "prefix"

(* Where the payload reader of a type starts.                              *)
FirstRead(t) == CASE Codec[t] = "simple" -> "simple"
                  [] Codec[t] = "var"    -> "fixed"
                  [] Codec[t] = "wave"   -> "prefix"

(* pueo_ll_read after maybe_read_header returned r: fewer than 8 bytes is  *)
(* an error, a flag that was already set included.                         *)
LLHeader(handle, r) ==
    IF r < HeadLen
    THEN h' = handle /\ call' = Idle(EIO)
    ELSE /\ h' = IF handle.hdr.type \in Types
                 THEN [handle EXCEPT !.required = SizeOf(handle.hdr.type)]
                 ELSE handle
         /\ call' = [call EXCEPT !.pc = "capacity"]

(* pueo_read_X after maybe_read_header: the wrong type leaves the header.  *)
TypedHeader(handle) ==
    IF handle.hdr.type = call.type
    THEN /\ h' = [handle EXCEPT !.head = FALSE]
         /\ call' = [call EXCEPT !.pc = FirstRead(call.type)]
    ELSE ReadXReturns(handle, 0)

HeaderDone(handle, r) == IF call.pc = "ll_header" THEN LLHeader(handle, r)
                                                  ELSE TypedHeader(handle)

(* maybe_read_header returns EOF to either caller.                         *)
HeaderEOF(handle) == IF call.pc = "ll_header"
                     THEN h' = handle /\ call' = Idle(EOF)
                     ELSE ReadXReturns(handle, EOF)

-----------------------------------------------------------------------------
(* The client: which call it makes next.                                   *)

(* pueo_ll_read on a packet the client allocated.                          *)
LLRead ==
    /\ call.pc = "idle" /\ "ll" \in Ops /\ ~pkt.null
    /\ call' = Calling("ll", IF h.required = 0 THEN "ll_header" ELSE "capacity")
    /\ UNCHANGED <<h, pkt, out>>

(* pueo_ll_read_realloc, which allocates 512 bytes for a null pointer.     *)
LLReadRealloc ==
    /\ call.pc = "idle" /\ "realloc" \in Ops
    /\ pkt' = IF pkt.null THEN NewPacket(InitCap) ELSE pkt
    /\ call' = Calling("realloc", IF h.required = 0 THEN "ll_header" ELSE "capacity")
    /\ UNCHANGED <<h, out>>

(* pueo_read_X into the payload of a packet that has room for an X.        *)
TypedRead(t) ==
    /\ call.pc = "idle" /\ "typed" \in Ops /\ ~pkt.null /\ pkt.cap >= SizeOf(t)
    /\ call' = [Calling("typed", "typed_header") EXCEPT !.type = t]
    /\ UNCHANGED <<h, pkt, out>>

(* The client allocates a packet: a first one, or one of the size that     *)
(* required_read_size asks for after -EMSGSIZE.                            *)
ClientAllocates(cap) ==
    /\ call.pc = "idle" /\ {"ll", "typed"} \cap Ops # {}
    /\ \/ pkt.null /\ cap \in ClientCaps
       \/ call.ret = EMSGSIZE /\ cap = h.required
    /\ pkt' = NewPacket(cap)
    /\ call' = Fresh
    /\ UNCHANGED <<h, out>>

-----------------------------------------------------------------------------
(* maybe_read_header.                                                      *)

HeaderPcs == {"ll_header", "typed_header"}

(* The flag says there is a header already: nothing is read.               *)
HeaderAlreadyRead ==
    /\ call.pc \in HeaderPcs /\ h.head
    /\ HeaderDone(h, 0)
    /\ UNCHANGED <<pkt, out>>

(* Some cells arrive, perhaps fewer than a header has.                     *)
HeaderArrives(res) ==
    /\ call.pc \in HeaderPcs /\ ~h.head
    /\ ~res.err /\ Len(res.cells) > 0
    /\ \E hdr \in Overlaid(h.hdr, res.cells) :
          HeaderDone([h EXCEPT !.hdr = hdr, !.head = TRUE,
                               !.bytesRead = @ + Len(res.cells)], Len(res.cells))
    /\ UNCHANGED <<pkt, out>>

(* Nothing arrives: EOF, and the flag is left as the medium set it.        *)
HeaderNothing(res) ==
    /\ call.pc \in HeaderPcs /\ ~h.head
    /\ ~res.err /\ Len(res.cells) = 0
    /\ HeaderEOF([h EXCEPT !.head = res.mark])
    /\ UNCHANGED <<pkt, out>>

(* read_bytes fails: its -1 is counted, the flag is set all the same, and  *)
(* -1 is EOF to the callers.                                               *)
HeaderFails(res) ==
    /\ call.pc \in HeaderPcs /\ ~h.head
    /\ res.err
    /\ HeaderEOF([h EXCEPT !.head = TRUE, !.bytesRead = @ - 1])
    /\ UNCHANGED <<pkt, out>>

-----------------------------------------------------------------------------
(* pueo_ll_read between the header and pueo_read_X.                        *)

(* Mutant: the header that was read is forgotten.                          *)
TooSmallForgets ==
    /\ call.pc = "capacity" /\ pkt.cap < h.required
    /\ IF call.op = "ll"
       THEN pkt' = [pkt EXCEPT !.head = NoHeader] /\ call' = Idle(EMSGSIZE)
       ELSE pkt' = NewPacket(h.required) /\ call' = [call EXCEPT !.op = "ll"]
    /\ h' = [h EXCEPT !.head = FALSE]
    /\ UNCHANGED out

(* Not enough room: -EMSGSIZE to the client of pueo_ll_read; the realloc   *)
(* variant calls it once more with a packet of exactly the required size.  *)
TooSmall ==
    /\ call.pc = "capacity" /\ pkt.cap < h.required
    /\ IF call.op = "ll"
       THEN pkt' = [pkt EXCEPT !.head = NoHeader] /\ call' = Idle(EMSGSIZE)
       ELSE pkt' = NewPacket(h.required) /\ call' = [call EXCEPT !.op = "ll"]
    /\ UNCHANGED <<h, out>>

(* Mutant: only the header of an unknown type is copied.                   *)
DispatchNoCopy ==
    /\ call.pc = "capacity" /\ pkt.cap >= h.required
    /\ IF h.hdr.type \in Types
       THEN /\ call' = [call EXCEPT !.pc = "typed_header", !.type = h.hdr.type]
            /\ UNCHANGED <<h, pkt>>
       ELSE /\ pkt' = [pkt EXCEPT !.head = h.hdr]
            /\ ReadXReturns(h, 0)
    /\ UNCHANGED out

(* Enough room: copy the header and dispatch on its type.  A type that is  *)
(* not in the table reads nothing, and its payload stays in the medium.    *)
Dispatch ==
    /\ call.pc = "capacity" /\ pkt.cap >= h.required
    /\ pkt' = [pkt EXCEPT !.head = h.hdr]
    /\ IF h.hdr.type \in Types
       THEN /\ call' = [call EXCEPT !.pc = "typed_header", !.type = h.hdr.type]
            /\ UNCHANGED h
       ELSE ReadXReturns(h, 0)
    /\ UNCHANGED out

-----------------------------------------------------------------------------
(* The payload readers.  Each action is one call of read_bytes with what   *)
(* follows it up to the next one; got is what lies in memory afterwards.   *)

WantsPayload(pc) == call.pc = pc

(* The flag, should the medium set it while the payload is read.           *)
Marked(res) == h' = [h EXCEPT !.head = @ \/ res.mark]

GoOn(pc, n) == call' = [call EXCEPT !.pc = pc, !.nrd = @ + n]

(* pueo_read_packet_X of a simple type, version known.                     *)
SimpleRead(res) ==
    /\ WantsPayload("simple") /\ KnownVer(call.type, h.hdr.ver)
    /\ pkt' = [pkt EXCEPT !.mem = Cleared(Copied(@, 1, res.cells),
                                          Prefix(call.type, h.hdr.ver) + 1)]
    /\ GoOn("check", Count(res)) /\ Marked(res)
    /\ UNCHANGED out

(* A version newer than the library: the reader returns -1, and the        *)
(* checksum is then taken over (size_t)-1 bytes, which no process survives.*)
SimpleBadVersion ==
    /\ WantsPayload("simple") /\ ~KnownVer(call.type, h.hdr.ver)
    /\ call' = [call EXCEPT !.pc = "crashed"]
    /\ UNCHANGED <<h, pkt, out>>

(* The fixed part of a variable packet; the element count is then whatever *)
(* the struct holds, read or not.                                          *)
VarFixed(res) ==
    /\ WantsPayload("fixed")
    /\ LET mem == Copied(pkt.mem, 1, res.cells)
       IN  /\ pkt' = [pkt EXCEPT !.mem = mem]
           /\ \E n \in CountsAt(call.type, mem[1]) :
                 call' = [call EXCEPT !.pc = "tail", !.nrd = @ + Count(res),
                                      !.counts[1] = n]
    /\ Marked(res) /\ UNCHANGED out

(* The elements, and the memset of the rest of the struct.                 *)
VarTail(res) ==
    /\ WantsPayload("tail")
    /\ LET whole == 1 + TailLen(call.type, h.hdr.ver, call.counts[1])
           kept  == IF call.type \in ClearsByRead THEN call.nrd + Count(res)
                                                  ELSE whole
       IN  pkt' = [pkt EXCEPT !.mem = Cleared(Copied(@, 2, res.cells), kept + 1)]
    /\ GoOn("check", Count(res)) /\ Marked(res)
    /\ UNCHANGED out

(* A waveform packet: any short read ends it with -1.                      *)
WaveFails(res) ==
    /\ call' = [call EXCEPT !.pc = "check", !.nrd = -1]
    /\ Marked(res)

Complete(res, n) == ~res.err /\ Len(res.cells) = n

(* Version 0 ends before readout_time, which is then cleared; the fields   *)
(* behind it are not.                                                      *)
ReadoutCleared(mem) ==
    LET readout == PrefixLen[call.type][0] + 1
    IN  [b \in 1 .. MemSize |->
            IF h.hdr.ver = 0 /\ CurVer[call.type] > 0 /\ b = readout
            THEN Zero ELSE mem[b]]

(* The part before the waveforms, whose length depends on the version.     *)
WavePrefix(res) ==
    /\ WantsPayload("prefix")
    /\ pkt' = [pkt EXCEPT !.mem = ReadoutCleared(Copied(@, 1, res.cells))]
    /\ IF Complete(res, Prefix(call.type, h.hdr.ver))
       THEN call' = [call EXCEPT !.pc = "wf_head", !.nrd = @ + Count(res), !.grp = 1]
            /\ Marked(res)
       ELSE WaveFails(res)
    /\ UNCHANGED out

(* read_waveform: channel, surf word and length of waveform grp.           *)
WaveHead(res) ==
    /\ WantsPayload("wf_head")
    /\ LET a   == GroupAddr(call.type, call.grp)
           mem == Copied(pkt.mem, a, res.cells)
       IN  /\ pkt' = [pkt EXCEPT !.mem = mem]
           /\ IF Complete(res, 1)
              THEN /\ \E n \in CountsAt(call.type, mem[a]) :
                         call' = [call EXCEPT !.pc = "wf_data", !.nrd = @ + 1,
                                              !.counts[call.grp] = n]
                   /\ Marked(res)
              ELSE WaveFails(res)
    /\ UNCHANGED out

(* read_waveform: the samples; what lies beyond them in memory stays.      *)
WaveData(res) ==
    /\ WantsPayload("wf_data")
    /\ LET a == GroupAddr(call.type, call.grp)
           n == TailLen(call.type, h.hdr.ver, call.counts[call.grp])
       IN  /\ pkt' = [pkt EXCEPT !.mem = Copied(@, a + 1, res.cells)]
           /\ IF ~Complete(res, n) THEN WaveFails(res)
              ELSE /\ call' = [call EXCEPT
                                 !.nrd = @ + n,
                                 !.pc  = IF call.grp = NumGroups[call.type]
                                         THEN "check" ELSE "wf_head",
                                 !.grp = IF @ = NumGroups[call.type]
                                         THEN @ ELSE @ + 1]
                   /\ Marked(res)
    /\ UNCHANGED out

-----------------------------------------------------------------------------
(* The end of pueo_read_X: the payload's size and checksum are compared    *)
(* with those of the header, and a difference is only printed.             *)
WireSlotsRead == WireSlots(call.type, h.hdr.ver, call.counts)

ChecksumOk ==
    /\ h.hdr.sum \in DOMAIN sent
    /\ LET p == sent[h.hdr.sum]
       IN  WireSlotsRead = WireSlots(p.type, p.ver, p.counts)
    /\ \A s \in WireSlotsRead :
          pkt.mem[AddrOf(call.type, s)] = Cell(h.hdr.sum, s)

LengthOk == call.nrd = h.hdr.nbytes /\ h.hdr.nbytes = Cardinality(WireSlotsRead)

(* Mutant: the checksum is not compared.                                   *)
SilentLength == LengthOk /\ h.hdr.sum # 0

Silent == ChecksumOk /\ LengthOk

(* Mutant: the payload is not counted in bytes_read.                       *)
CheckUncounted ==
    /\ call.pc = "check"
    /\ out' = IF call.nrd > 0
              THEN Append(out, IF Silent THEN h.hdr.sum ELSE 0) ELSE out
    /\ ReadXReturns(h, call.nrd)
    /\ UNCHANGED pkt

Check ==
    /\ call.pc = "check"
    /\ out' = IF call.nrd > 0
              THEN Append(out, IF Silent THEN h.hdr.sum ELSE 0) ELSE out
    /\ ReadXReturns([h EXCEPT !.bytesRead = @ + call.nrd], call.nrd)
    /\ UNCHANGED pkt

(* How many cells the next read_bytes asks for.                            *)
ReadPcs == HeaderPcs \cup {"simple", "fixed", "tail", "prefix", "wf_head", "wf_data"}

Reading == \/ call.pc \in HeaderPcs /\ ~h.head
           \/ call.pc = "simple" /\ KnownVer(call.type, h.hdr.ver)
           \/ call.pc \in ReadPcs \ (HeaderPcs \cup {"simple"})

Wanted ==
    CASE call.pc \in HeaderPcs -> HeadLen
      [] call.pc \in {"simple", "prefix"} -> Prefix(call.type, h.hdr.ver)
      [] call.pc \in {"fixed", "wf_head"} -> 1
      [] call.pc = "tail" -> TailLen(call.type, h.hdr.ver, call.counts[1])
      [] call.pc = "wf_data" ->
            TailLen(call.type, h.hdr.ver, call.counts[call.grp])

(* What the handle does with the result of a read_bytes.                   *)
Receive(res) ==
    \/ HeaderArrives(res) \/ HeaderNothing(res) \/ HeaderFails(res)
    \/ SimpleRead(res)
    \/ VarFixed(res) \/ VarTail(res)
    \/ WavePrefix(res) \/ WaveHead(res) \/ WaveData(res)

(* What needs no read_bytes.                                               *)
Internal == HeaderAlreadyRead \/ TooSmall \/ Dispatch \/ SimpleBadVersion \/ Check

Client == \/ LLRead \/ LLReadRealloc
          \/ \E t \in Types : TypedRead(t)
          \/ \E cap \in ClientCaps \cup {h.required} : ClientAllocates(cap)

-----------------------------------------------------------------------------
(* Any medium: packets enter it at any time, and read_bytes returns any    *)
(* cells of any of them, in any order, any number of times, or none.       *)

CellsOf(id) ==
    LET p == sent[id]
    IN  {Cell(id, HeadSlot(i)) : i \in 1 .. HeadLen}
            \cup {Cell(id, s) : s \in WireSlots(p.type, p.ver, p.counts)}

AnyCell == UNION {CellsOf(id) : id \in DOMAIN sent}

AnyResult ==
    [cells : UNION {[1 .. n -> AnyCell] : n \in 0 .. Wanted},
     err   : {FALSE}, mark : Marks]
        \cup [cells : {<<>>}, err : {TRUE}, mark : Marks]

Put(p) == /\ Len(sent) < MaxSent
          /\ sent' = Append(sent, p)
          /\ UNCHANGED readVars

Init == /\ h = FreshHandle
        /\ pkt = NullPacket
        /\ call = Fresh
        /\ out = <<>>
        /\ sent = <<>>

Next == \/ \E p \in Shapes : Put(p)
        \/ h.bytesRead \in -MaxRead .. MaxRead /\ Client /\ UNCHANGED sent
        \/ Internal /\ UNCHANGED sent
        \/ Reading /\ (\E res \in AnyResult : Receive(res)) /\ UNCHANGED sent

Spec == Init /\ [][Next]_<<readVars, sent>>

-----------------------------------------------------------------------------
(* Properties.                                                             *)

AllCells == Nat \X (Int \X Nat)

Headers == [type : Types \cup {NoType}, sum : Nat, ver : Nat, nbytes : Nat]

PayloadPcs == ReadPcs \ HeaderPcs

(* A reader that runs is the one of its type's codec, at one of its groups.*)
CallOK ==
    /\ call.pc \in {"typed_header", "check", "crashed"} \cup PayloadPcs =>
          call.type \in Types
    /\ call.pc = "simple" => Codec[call.type] = "simple"
    /\ call.pc \in {"fixed", "tail"} => Codec[call.type] = "var"
    /\ call.pc \in {"prefix", "wf_head", "wf_data"} => Codec[call.type] = "wave"
    /\ call.pc \in {"wf_head", "wf_data"} => call.grp \in 1 .. NumGroups[call.type]

Handles == [hdr : Headers, required : Nat, head : BOOLEAN, bytesRead : Int]

Buffers == [null : BOOLEAN, head : Headers, cap : Nat,
            mem : [1 .. MemSize -> AllCells]]

Calls == [pc : ReadPcs \cup {"idle", "capacity", "check", "crashed"},
          op : {"none", "fresh", "ll", "realloc", "typed"},
          type : Types \cup {NoType}, ret : Int,
          counts : [Groups -> Nat], grp : Nat, nrd : Int]

TypeOK ==
    /\ h \in Handles
    /\ pkt \in Buffers
    /\ call \in Calls
    /\ CallOK
    /\ sent \in Seq(Shapes)
    /\ out \in Seq(Nat)

(* Whenever pueo_ll_read will skip the header because required_read_size   *)
(* is set (rawio.c:431), the handle does hold a header that was read and   *)
(* not yet used, of a known type, and the size asked for is that type's.   *)
HandleConsistent ==
    h.required # 0 /\ call.pc = "idle" =>
        /\ h.head
        /\ h.hdr.type \in Types
        /\ h.required = SizeOf(h.hdr.type)

(* A payload is only ever read into a packet that has room for the newest  *)
(* struct of the type being read (the check of rawio.c:453 is about        *)
(* required_read_size, the readers of rawio_packets.c trust the pointer).  *)
RoomForPayload ==
    call.pc \in PayloadPcs =>
        ~pkt.null /\ call.type \in Types /\ SizeOf(call.type) <= pkt.cap

(* The header the client finds in the packet is the one its payload was    *)
(* read and checked under (copied at rawio.c:461, payload read later).     *)
HeaderIsThePayloads ==
    call.pc \in PayloadPcs \cup {"check"} /\ call.op # "typed" => pkt.head = h.hdr

(* What makes the three hold for clients of the low-level reads only: at   *)
(* every point of a call, the header, the size asked for, the type being   *)
(* read and the packet it is read into belong together.                    *)
LLInv ==
    /\ HandleConsistent
    /\ call.pc # "idle" => call.op \in {"ll", "realloc"}
    /\ call.pc \in {"ll_header", "capacity"} => ~pkt.null
    /\ call.pc = "ll_header" => h.required = 0
    /\ call.pc = "capacity" =>
          /\ h.head
          /\ h.required = IF h.hdr.type \in Types THEN SizeOf(h.hdr.type) ELSE 0
    /\ call.pc = "typed_header" => h.head
    /\ call.pc \in {"typed_header", "check", "crashed"} \cup PayloadPcs =>
          /\ call.type = h.hdr.type
          /\ ~pkt.null /\ SizeOf(call.type) <= pkt.cap
          /\ pkt.head = h.hdr

(* A header that was read and is waiting for a large enough packet is not  *)
(* read over: no step replaces it while required_read_size is set.         *)
HeaderKept == [][h.required # 0 => h'.hdr = h.hdr]_<<readVars, sent>>

(* rawio.h:72, 150-151: required_read_size is not 0 only if the last read  *)
(* had not enough space, and 0 after a successful read.                    *)
RequiredZeroAfterRead == call.pc = "idle" /\ call.ret > 0 => h.required = 0

(* pueo_packet_as_X of the type in the packet's own header.                *)
PacketAs(t) == pkt.head.type = t /\ pkt.cap > SizeOf(t)

(* rawio.h:205: pueo_packet_as_X returns NULL only for another type, so    *)
(* what was just read can be looked at.                                    *)
CastFindsWhatWasRead ==
    call.pc = "idle" /\ call.ret > 0 =>
        \E t \in Types : pkt.head.type = t /\ PacketAs(t)
=============================================================================
