------------------------------- MODULE MCRead -------------------------------
(***************************************************************************)
(* Small instances of HandleRead and of the modules above it: one type of  *)
(* each codec, each of another size, the smallest of which has exactly the *)
(* 512 bytes that pueo_ll_read_realloc starts with.                        *)
(***************************************************************************)
EXTENDS HandleRead, TLC

CONSTANTS simple, var, wave

MCTypes == {simple, var, wave}
MCCodec == simple :> "simple" @@ var :> "var" @@ wave :> "wave"
MCCurVer == simple :> 1 @@ var :> 0 @@ wave :> 1
MCPrefixLen == simple :> (0 :> 1 @@ 1 :> 2) @@ var :> (0 :> 0)
                   @@ wave :> (0 :> 1 @@ 1 :> 2)
MCNumGroups == simple :> 0 @@ var :> 1 @@ wave :> 1
MCMaxCount == simple :> 0 @@ var :> 2 @@ wave :> 1
MCWholeTail == {}

MCPacket(t, v, n) == [type |-> t, ver |-> v, counts |-> [g \in Groups |-> n]]

MCShapes == {MCPacket(simple, 1, 0), MCPacket(var, 0, 1), MCPacket(wave, 1, 1)}
MCOldShapes == {MCPacket(simple, 0, 0), MCPacket(var, 0, 0), MCPacket(wave, 0, 2)}

MCOneShape == {MCPacket(wave, 1, 1)}
=============================================================================
