------------------------------ MODULE MCStream ------------------------------
(***************************************************************************)
(* Small instances of FileStream: one type of each codec, each of another  *)
(* size.  Packets of older versions come from older writers.               *)
(***************************************************************************)
EXTENDS FileStream, TLC

CONSTANTS simple, var, wave

MCTypes == {simple, var, wave}
MCCodec == simple :> "simple" @@ var :> "var" @@ wave :> "wave"
MCCurVer == simple :> 1 @@ var :> 1 @@ wave :> 1
MCPrefixLen == simple :> (0 :> 1 @@ 1 :> 2) @@ var :> (0 :> 0 @@ 1 :> 0)
                   @@ wave :> (0 :> 1 @@ 1 :> 2)
MCNumGroups == simple :> 0 @@ var :> 1 @@ wave :> 2
MCMaxCount == simple :> 0 @@ var :> 2 @@ wave :> 1
MCWholeTail == {<<var, 0>>}

Packet(t, v, n) == [type |-> t, ver |-> v, counts |-> [g \in Groups |-> n]]

(* Every version, empty and full element arrays, a waveform length beyond  *)
(* the array.                                                              *)
AllShapes == {Packet(simple, 0, 0), Packet(simple, 1, 0),
              Packet(var, 0, 1), Packet(var, 1, 0), Packet(var, 1, 1),
              Packet(wave, 0, 1), Packet(wave, 1, 0), Packet(wave, 1, 2)}
NewShapes == {Packet(simple, 1, 0), Packet(var, 1, 1)}

Scene(medium, ops, n) == [medium |-> medium, ops |-> ops, faults |-> n]

CleanScenes == {Scene("file", Ops, 0)}
FaultyScenes == {Scene("file", {"realloc"}, 2), Scene("pipe", {"realloc"}, 2),
                 Scene("file", {"typed"}, 0), Scene("pipe", {"typed"}, 2)}
WaveShapes == {Packet(simple, 0, 0), Packet(wave, 1, 1)}
=============================================================================
