-------------------------------- MODULE MCUdp -------------------------------
(***************************************************************************)
(* Small instances of UdpStream: one type of each codec, each of another  *)
(* size.  Packets of older versions come from older writers.               *)
(***************************************************************************)
EXTENDS UdpStream, TLC

CONSTANTS simple, var, wave

MCTypes == {simple, var, wave}
MCCodec == simple :> "simple" @@ var :> "var" @@ wave :> "wave"
MCCurVer == simple :> 1 @@ var :> 1 @@ wave :> 1
MCPrefixLen == simple :> (0 :> 1 @@ 1 :> 2) @@ var :> (0 :> 0 @@ 1 :> 0)
                   @@ wave :> (0 :> 1 @@ 1 :> 2)
MCNumGroups == simple :> 0 @@ var :> 1 @@ wave :> 2
MCMaxCount == simple :> 0 @@ var :> 2 @@ wave :> 1
MCWholeTail == {<<var, 0>>}

Packet(t, v, n) == [type |-> t, ver |-> v, counts |-> [g \in Groups |-> n]]

(* Every version, empty and full element arrays, a waveform length beyond  *)
(* the array.                                                              *)
AllShapes == {Packet(simple, 0, 0), Packet(simple, 1, 0),
              Packet(var, 0, 1), Packet(var, 1, 0), Packet(var, 1, 1),
              Packet(wave, 0, 1), Packet(wave, 1, 0), Packet(wave, 1, 2)}
NewShapes == {Packet(simple, 1, 0), Packet(var, 1, 1)}
UdpShapes == {Packet(simple, 1, 0), Packet(var, 1, 0), Packet(wave, 1, 1)}
Scene(max, ops, packets, n) ==
    [udpMax |-> max, ops |-> ops, packets |-> packets, faults |-> n]

(* A network as it should be read, and one with packets beyond UDP_MAX and *)
(* readers of both kinds.                                                  *)
UdpScenes == {Scene(100, {"realloc"}, 3, 1), Scene(4, {"realloc"}, 2, 2),
              Scene(4, {"realloc", "typed"}, 2, 1)}
=============================================================================
