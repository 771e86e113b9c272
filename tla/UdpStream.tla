----------------------------- MODULE UdpStream -----------------------------
(***************************************************************************)
(* A writer and a reader handle on UDP sockets (rawio.c:88-145): the       *)
(* writer collects a packet in aux->buf and done_write_packet sends it as  *)
(* one datagram; the reader takes a datagram off the socket whenever it    *)
(* has used up the last one.  Datagrams are lost, duplicated and reordered *)
(* by the network; send and recv may fail.                                 *)
(***************************************************************************)
EXTENDS HandleRead

CONSTANTS
    Scenes      \* who reads what from which network: see scene (bound)

ASSUME UdpAssumption ==
    Scenes \subseteq [udpMax : Nat \ {0}, ops : SUBSET Ops,
                      packets : 0 .. MaxSent, faults : Nat]

VARIABLES
    scene,   \* UDP_MAX in cells, the calls the reading program makes, and the
             \* bounds on the packets sent and on the faults: datagrams lost
             \* or duplicated, failed sends and recvs
    w,       \* the writer handle and its call in progress
    wbuf,    \* aux->buf of the writer, up to aux->nin
    net,     \* datagrams under way, as <<cells, copy number>>
    rbuf,    \* aux->buf of the reader, up to aux->nin
    nout,    \* aux->nout of the reader
    copies,  \* how many copies of each packet's datagram there were
    lost,    \* how many were lost, duplicated or refused
    failed   \* how many recv failed

Write == INSTANCE HandleWrite

udpVars == <<scene, w, wbuf, net, rbuf, nout, copies, lost, failed>>
vars == <<readVars, sent, udpVars>>

UInit == /\ Init
         /\ scene \in Scenes
         /\ w = Write!FreshWriter /\ wbuf = <<>>
         /\ net = {}
         /\ rbuf = <<>> /\ nout = 0
         /\ copies = <<>> /\ lost = 0 /\ failed = 0

Faults == lost + failed

-----------------------------------------------------------------------------
(* The writing process.                                                    *)

StartWrite(p) ==
    /\ w.pc = "idle" /\ Len(sent) < scene.packets
    /\ sent' = Append(sent, p)
    /\ copies' = Append(copies, 0)
    /\ w' = Write!Begin(w, Len(sent) + 1)
    /\ UNCHANGED <<scene, readVars, wbuf, net, rbuf, nout, lost, failed>>

(* socket_writebytes: what exceeds UDP_MAX is cut off.                     *)
SocketWrite ==
    /\ w.pc \in {"head", "region"}
    /\ LET p     == sent[w.id]
           cells == Write!Offered(w, p)
           room  == scene.udpMax - Len(wbuf)
           n     == IF Len(cells) > room THEN room ELSE Len(cells)
       IN  /\ wbuf' = wbuf \o SubSeq(cells, 1, n)
           /\ w' = IF w.pc = "head" THEN Write!HeadWritten(w, n)
                   ELSE Write!RegionWritten(w, n, Len(Regions(w.id, p)))
    /\ UNCHANGED <<scene, readVars, sent, net, rbuf, nout, copies, lost, failed>>

(* Mutant: the buffer is not emptied.                                      *)
SocketDoneKeeps ==
    /\ w.pc = "done"
    /\ \/ /\ w' = Write!Done(w, 0)
          /\ net' = net \cup {<<wbuf, 1>>}
          /\ copies' = [copies EXCEPT ![w.id] = 1]
          /\ UNCHANGED lost
       \/ /\ Faults < scene.faults
          /\ w' = Write!Done(w, -1)
          /\ lost' = lost + 1
          /\ UNCHANGED <<net, copies>>
    /\ UNCHANGED <<scene, readVars, sent, wbuf, rbuf, nout, failed>>

(* socket_done: one datagram of all that was collected; the buffer is      *)
(* empty afterwards even when the socket refused it.                       *)
SocketDone ==
    /\ w.pc = "done"
    /\ wbuf' = <<>>
    /\ \/ /\ w' = Write!Done(w, 0)
          /\ net' = net \cup {<<wbuf, 1>>}
          /\ copies' = [copies EXCEPT ![w.id] = 1]
          /\ UNCHANGED lost
       \/ /\ Faults < scene.faults
          /\ w' = Write!Done(w, -1)
          /\ lost' = lost + 1
          /\ UNCHANGED <<net, copies>>
    /\ UNCHANGED <<scene, readVars, sent, rbuf, nout, failed>>

-----------------------------------------------------------------------------
(* The network.  Reordering needs no action: recv picks any datagram.      *)

Lose == /\ Faults < scene.faults
        /\ \E d \in net : net' = net \ {d}
        /\ lost' = lost + 1
        /\ UNCHANGED <<scene, readVars, sent, w, wbuf, rbuf, nout, copies, failed>>

Duplicate ==
    /\ Faults < scene.faults
    /\ \E d \in net :
          LET id == d[1][1][1]
          IN  /\ net' = net \cup {<<d[1], copies[id] + 1>>}
              /\ copies' = [copies EXCEPT ![id] = @ + 1]
    /\ lost' = lost + 1
    /\ UNCHANGED <<scene, readVars, sent, w, wbuf, rbuf, nout, failed>>

-----------------------------------------------------------------------------
(* The reading process.                                                    *)

ClientStep ==
    /\ Client
    /\ call'.op \in scene.ops \/ (call'.op = "fresh" /\ scene.ops # {"realloc"})
    /\ UNCHANGED <<sent, udpVars>>
InternalStep == Internal /\ UNCHANGED <<sent, udpVars>>

(* What socket_readbytes copies out of the datagram in buf from out on.    *)
CopyOut(datagram, from, mark) ==
    LET left  == Len(datagram) - from
        ncopy == IF left < Wanted THEN left ELSE Wanted
    IN  /\ Receive([cells |-> SubSeq(datagram, from + 1, from + ncopy),
                    err |-> FALSE, mark |-> mark])
        /\ nout' = from + ncopy

(* socket_readbytes with some of the last datagram left.                   *)
ReadOn ==
    /\ Reading /\ Len(rbuf) # nout
    /\ CopyOut(rbuf, nout, FALSE)
    /\ UNCHANGED <<scene, sent, w, wbuf, net, rbuf, copies, lost, failed>>

(* socket_readbytes with nothing left, be it that nothing is asked for: it *)
(* waits for a datagram, and sets the handle's flag.                       *)
ReadNext ==
    /\ Reading /\ Len(rbuf) = nout
    /\ \E d \in net : /\ net' = net \ {d}
                      /\ rbuf' = d[1]
                      /\ CopyOut(d[1], 0, TRUE)
    /\ UNCHANGED <<scene, sent, w, wbuf, copies, lost, failed>>

(* recv fails.                                                             *)
ReadFails ==
    /\ Reading /\ Len(rbuf) = nout /\ Faults < scene.faults
    /\ Receive([cells |-> <<>>, err |-> TRUE, mark |-> FALSE])
    /\ failed' = failed + 1
    /\ UNCHANGED <<scene, sent, w, wbuf, net, rbuf, nout, copies, lost>>

UNext == \/ \E p \in Shapes : StartWrite(p)
         \/ SocketWrite \/ SocketDone
         \/ Lose \/ Duplicate
         \/ ClientStep \/ InternalStep \/ ReadOn \/ ReadNext \/ ReadFails

USpec == UInit /\ [][UNext]_vars

(* The reading process runs; recv returns when there is a datagram.        *)
ULiveSpec == USpec /\ WF_vars(ClientStep \/ InternalStep \/ ReadOn \/ ReadNext)

-----------------------------------------------------------------------------
(* Properties.                                                             *)

UTypeOK ==
    /\ TypeOK
    /\ w.pc \in {"idle", "head", "region", "done"}
    /\ Len(wbuf) <= scene.udpMax
    /\ nout \in 0 .. Len(rbuf)
    /\ Faults \in 0 .. scene.faults

(* The whole packet goes into its datagram: nothing is cut off at UDP_MAX. *)
FitsDatagram(id) ==
    HeadLen + NumBytes(sent[id].type, sent[id].ver, sent[id].counts) <= scene.udpMax

(* The reader only uses pueo_ll_read, of packets that fit in a datagram.   *)
Proper == "typed" \notin scene.ops /\ \A id \in DOMAIN sent : FitsDatagram(id)

Occurrences(id) == Cardinality({i \in DOMAIN out : out[i] = id})

(* Between two packets of a reader that only uses pueo_ll_read, the        *)
(* datagram in its buffer is used up or untouched: a datagram is never     *)
(* read across two packets, even though socket_readbytes fetches the next  *)
(* one when a packet that ends with an empty array is read.  (After        *)
(* -EMSGSIZE, with required_read_size set, its header has been read.)      *)
PacketPerDatagram ==
    Proper /\ call.pc = "idle" /\ h.required = 0 /\ failed = 0 =>
        nout \in {0, Len(rbuf)}

(* Whatever the network does, every packet a pueo_ll_read reader gets is   *)
(* one that was sent, intact and without a warning, and it gets it at most *)
(* as often as the network delivered it.                                   *)
IntactAtMostAsOften ==
    Proper /\ failed = 0 =>
        \A i \in DOMAIN out : out[i] # 0 /\ Occurrences(out[i]) <= copies[out[i]]

(* Packets that are cut off at UDP_MAX or read after a failed recv: what   *)
(* is returned without a warning was never cut, though the payload that is *)
(* missing may be filled up from the next datagram or be in memory since   *)
(* the last packet; and it is returned at most as often as its datagram    *)
(* was delivered.                                                          *)
SilentAtMostAsOften ==
    \A i \in DOMAIN out : out[i] # 0 =>
        FitsDatagram(out[i]) /\ Occurrences(out[i]) <= copies[out[i]]

(* -EIO, after which pueo_ll_read never recovers (the flag stays set and   *)
(* rawio.c:435 takes the 0 of maybe_read_header for a short header), takes *)
(* a failed recv; loss, duplication and reordering do not lead to it.      *)
EIOOnlyAfterFailedRecv == Proper /\ call.ret = EIO => failed > 0

(* packet_write_counter is the number of datagrams handed to the network:  *)
(* a refused send is not counted.                                          *)
CounterIsDatagrams ==
    w.pc = "idle" =>
        w.counter = Cardinality({id \in DOMAIN copies : copies[id] > 0})

(* A datagram taken off the socket is eventually returned as a packet,     *)
(* unless the packet ends with an empty array: the reader of that one      *)
(* waits for another datagram first.                                       *)
EndsWithCells(p) ==
    Codec[p.type] = "simple"
        \/ TailLen(p.type, p.ver, p.counts[NumGroups[p.type]]) > 0

ReceivedIsReturned ==
    \A id \in 1 .. MaxSent :
        Proper /\ id \in DOMAIN sent /\ EndsWithCells(sent[id])
            /\ rbuf # <<>> /\ rbuf[1][1] = id /\ failed = 0
          ~> \/ failed > 0
             \/ \E i \in DOMAIN out : out[i] = id
=============================================================================
