----------------------------- MODULE FileStream -----------------------------
(***************************************************************************)
(* A writer handle and a reader handle on the two ends of one stream of    *)
(* bytes: a file (FILE* or gzFile: fread returns less than asked for only  *)
(* at the end of the file) or a pipe or socket behind an fd (read returns  *)
(* what there is, blocks when there is nothing, and may fail).             *)
(*                                                                         *)
(* The writer's bytes wait in the stdio buffer until some prefix of them   *)
(* is flushed, at any byte; a crash loses what waits, and the program      *)
(* starts again and appends.  The medium may take less than it is given    *)
(* (disk full), or fail.                                                   *)
(***************************************************************************)
EXTENDS HandleRead

CONSTANTS
    Scenes,      \* what the stream may be and who reads it: see scene (bound)
    Live,        \* whether the reader runs while the writer still writes
    Persistent   \* whether the client calls again after a result <= 0

ASSUME StreamAssumption ==
    /\ Scenes \subseteq [medium : {"file", "pipe"}, ops : SUBSET Ops, faults : Nat]
    /\ Live \in BOOLEAN /\ Persistent \in BOOLEAN

VARIABLES
    scene,    \* the medium (the functions the handles point to), the calls
              \* the reading program makes, and the bound on the faults:
              \* crashes, short and failed writes, failed reads
    w,        \* the writer handle and its call in progress
    buf,      \* cells accepted by write_bytes and not flushed yet
    stream,   \* cells in the file, or that went into the pipe
    rpos,     \* how many of them the reader has consumed
    faults    \* how many faults there were

Write == INSTANCE HandleWrite

writeVars == <<w, buf, sent>>
vars == <<scene, readVars, writeVars, stream, rpos, faults>>

FInit == /\ Init
         /\ scene \in Scenes
         /\ w = Write!FreshWriter
         /\ buf = <<>> /\ stream = <<>> /\ rpos = 0
         /\ faults = 0

-----------------------------------------------------------------------------
(* The writing process.                                                    *)

(* pueo_write_X, or pueo_ll_write, is called for a new packet.             *)
StartWrite(p) ==
    /\ w.pc = "idle" /\ Len(sent) < MaxSent
    /\ sent' = Append(sent, p)
    /\ w' = Write!Begin(w, Len(sent) + 1)
    /\ UNCHANGED <<readVars, buf, stream, rpos, faults>>

(* write_bytes returned n: it took so many cells, or none and failed.  An  *)
(* fd has no buffer of its own.                                            *)
Accept(n) ==
    LET p == sent[w.id]
        cells == Write!Offered(w, p)
    IN  /\ w' = IF w.pc = "head" THEN Write!HeadWritten(w, n)
                ELSE Write!RegionWritten(w, n, Len(Regions(w.id, p)))
        /\ IF scene.medium = "file"
           THEN buf' = buf \o SubSeq(cells, 1, n) /\ UNCHANGED stream
           ELSE stream' = stream \o SubSeq(cells, 1, n) /\ UNCHANGED buf

WriteBytes ==
    /\ w.pc \in {"head", "region"}
    /\ Accept(Len(Write!Offered(w, sent[w.id])))
    /\ UNCHANGED <<readVars, sent, rpos, faults>>

WriteShort ==
    /\ w.pc \in {"head", "region"} /\ faults < scene.faults
    /\ \E n \in -1 .. Len(Write!Offered(w, sent[w.id])) - 1 :
          (n = -1 => scene.medium = "pipe") /\ Accept(n)
    /\ faults' = faults + 1
    /\ UNCHANGED <<readVars, sent, rpos>>

(* The end of pueo_write_X: files and pipes have no done_write_packet.     *)
FinishWrite ==
    /\ w.pc = "done"
    /\ w' = Write!Done(w, 0)
    /\ UNCHANGED <<readVars, sent, buf, stream, rpos, faults>>

(* Some of what waits reaches the file.                                    *)
Flush ==
    /\ buf # <<>>
    /\ \E n \in 1 .. Len(buf) :
          /\ stream' = stream \o SubSeq(buf, 1, n)
          /\ buf' = SubSeq(buf, n + 1, Len(buf))
    /\ UNCHANGED <<readVars, sent, w, rpos, faults>>

(* The writing process dies and is started again, in mode "a".             *)
Crash ==
    /\ faults < scene.faults
    /\ buf' = <<>>
    /\ w' = Write!FreshWriter
    /\ faults' = faults + 1
    /\ UNCHANGED <<readVars, sent, stream, rpos>>

Quiet == w.pc = "idle" /\ buf = <<>> /\ Len(sent) = MaxSent

-----------------------------------------------------------------------------
(* The reading process.                                                    *)

(* The program's next call: the loops of test/read-*.c end at the first    *)
(* result that is not positive; -EMSGSIZE makes a client of pueo_ll_read   *)
(* allocate what it needs.                                                 *)
ClientStep ==
    /\ Live \/ Quiet
    /\ Client
    /\ call'.op \in scene.ops \/ (call'.op = "fresh" /\ scene.ops # {"realloc"})
    /\ \/ Persistent \/ call.ret > 0 \/ call.op = "fresh"
       \/ call.ret = EMSGSIZE /\ pkt' # pkt
    /\ UNCHANGED <<writeVars, stream, rpos, faults>>

InternalStep == Internal /\ UNCHANGED <<writeVars, stream, rpos, faults>>

Available == Len(stream) - rpos

Consume(n) ==
    /\ Receive([cells |-> SubSeq(stream, rpos + 1, rpos + n),
                err |-> FALSE, mark |-> FALSE])
    /\ rpos' = rpos + n

(* fread: everything asked for, as far as the file goes.                   *)
FileRead ==
    /\ scene.medium = "file" /\ Reading
    /\ Consume(IF Wanted < Available THEN Wanted ELSE Available)
    /\ UNCHANGED <<writeVars, stream, faults>>

(* read on a pipe: some of what there is; nothing once the writer is gone. *)
PipeRead ==
    /\ scene.medium = "pipe" /\ Reading
    /\ \E n \in 0 .. Wanted :
          /\ n <= Available
          /\ n = 0 => Wanted = 0 \/ (Quiet /\ Available = 0)
          /\ Consume(n)
    /\ UNCHANGED <<writeVars, stream, faults>>

(* read fails, interrupted for instance.                                   *)
PipeReadFails ==
    /\ scene.medium = "pipe" /\ Reading /\ faults < scene.faults
    /\ Receive([cells |-> <<>>, err |-> TRUE, mark |-> FALSE])
    /\ faults' = faults + 1
    /\ UNCHANGED <<writeVars, stream, rpos>>

FNext == /\ UNCHANGED scene
         /\ \/ \E p \in Shapes : StartWrite(p)
            \/ WriteBytes \/ WriteShort \/ FinishWrite \/ Flush \/ Crash
            \/ ClientStep \/ InternalStep
            \/ FileRead \/ PipeRead \/ PipeReadFails

ReaderStep == ClientStep \/ InternalStep \/ FileRead \/ PipeRead

(* A step as FNext has it.                                                 *)
SameScene == UNCHANGED scene

(* The writer finishes the packet it began and the buffer is flushed at    *)
(* the latest when the handle is closed; the reading process runs.         *)
Fairness == /\ WF_vars(SameScene /\ \E p \in Shapes : StartWrite(p))
            /\ WF_vars(SameScene /\ (WriteBytes \/ FinishWrite))
            /\ WF_vars(SameScene /\ Flush)
            /\ WF_vars(SameScene /\ ReaderStep)

FSpec == FInit /\ [][FNext]_vars
LiveSpec == FSpec /\ Fairness

-----------------------------------------------------------------------------
(* Properties.                                                             *)

FTypeOK ==
    /\ TypeOK
    /\ w.pc \in {"idle", "head", "region", "done"}
    /\ w.id \in 0 .. Len(sent)
    /\ w.counter \in Nat /\ w.bytes \in Nat
    /\ rpos \in 0 .. Len(stream)
    /\ faults \in 0 .. scene.faults

WholeInStream(id) ==
    LET p == sent[id]
    IN  \A s \in {HeadSlot(i) : i \in 1 .. HeadLen}
                 \cup WireSlots(p.type, p.ver, p.counts) :
            \E i \in 1 .. rpos : stream[i] = Cell(id, s)

(* Whatever was lost, cut off or appended to, and wherever the reader lost *)
(* its place: a packet it returns without a warning (rawio.c:541-542) went *)
(* through the stream whole, and such packets come out in the order in     *)
(* which they were written, none of them twice.                            *)
SilentInOrder ==
    /\ \A i \in DOMAIN out : out[i] # 0 => WholeInStream(out[i])
    /\ \A i, j \in DOMAIN out :
          i < j /\ out[i] # 0 /\ out[j] # 0 => out[i] < out[j]

(* A simple or variable packet that is returned without a warning holds    *)
(* its own bytes and zeros, nothing of the packets read into the same      *)
(* memory before (the memsets of the readers in rawio_packets.c).          *)
NothingStale ==
    call.pc = "check" /\ Silent /\ Codec[call.type] # "wave" =>
        \A a \in 1 .. SizeOf(call.type) :
            pkt.mem[a] = Zero \/ pkt.mem[a][1] = h.hdr.sum

(* On an undamaged stream bytes_read is the reader's place in it.          *)
BytesReadExact == call.pc = "idle" => h.bytesRead = rpos

(* bytes_written and packet_write_counter of a writer that met no fault    *)
(* are what its medium was given.                                          *)
BytesWrittenExact ==
    w.pc = "idle" /\ faults = 0 =>
        w.bytes = Len(stream) + Len(buf) /\ w.counter = Len(sent)

(* On an undamaged stream the reader gets every packet once, in order and  *)
(* without a warning, through every -EMSGSIZE and second try.              *)
Queue == INSTANCE PacketQueue WITH
    queue <- [i \in 1 .. Len(sent) - Len(out) |-> Len(out) + i],
    taken <- out

FIFO == Queue!Spec

(* The read loop comes to the end of an undamaged file and has then        *)
(* returned all that was written.                                          *)
Drained == <>[](call.pc = "idle" /\ call.ret = EOF /\ Len(out) = MaxSent)
=============================================================================
