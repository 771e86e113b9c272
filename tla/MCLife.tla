------------------------------- MODULE MCLife -------------------------------
(***************************************************************************)
(* A small instance of PrioTest.                                           *)
(***************************************************************************)
EXTENDS PrioTest, TLC

Uri(prefix, suffix, slashes, colon, portFirst, writable) ==
    [prefix |-> prefix, suffix |-> suffix, slashes |-> slashes, colon |-> colon,
     portFirst |-> portFirst, writable |-> writable]

(* A wave file, udp://host:port in writable memory and in a literal, and   *)
(* udp:port//host.                                                         *)
LifeUris == "wfs" :> Uri("", "", FALSE, FALSE, FALSE, TRUE)
         @@ "udp://h:p" :> Uri("udp", "", TRUE, TRUE, FALSE, TRUE)
         @@ "literal" :> Uri("udp", "", TRUE, TRUE, FALSE, FALSE)
         @@ "udp:p//h" :> Uri("udp", "", TRUE, FALSE, TRUE, TRUE)

AllFunctions == {"init", "configure", "compute", "destroy"}
MCExports == "new" :> AllFunctions @@ "old" :> AllFunctions \ {"compute"}
=============================================================================
