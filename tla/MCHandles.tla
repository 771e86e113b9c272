----------------------------- MODULE MCHandles ------------------------------
(***************************************************************************)
(* A small instance of HandleLife.                                         *)
(***************************************************************************)
EXTENDS HandleLife, TLC

Uri(prefix, suffix, slashes, colon, portFirst) ==
    [prefix |-> prefix, suffix |-> suffix, slashes |-> slashes, colon |-> colon,
     portFirst |-> portFirst, writable |-> TRUE]

(* What rawio.h documents and what works in place of it.                   *)
DocUris == "udp:p//h" :> Uri("udp", "", TRUE, FALSE, TRUE)
        @@ "udp://h:p" :> Uri("udp", "", TRUE, TRUE, FALSE)
        @@ "a.zst" :> Uri("file", ".zst", FALSE, FALSE, FALSE)
=============================================================================
