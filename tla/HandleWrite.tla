---------------------------- MODULE HandleWrite ----------------------------
(***************************************************************************)
(* The write side of a pueo_handle_t: pueo_write_X (rawio.c:554-573, which *)
(* pueo_ll_write dispatches to) and the payload writers of                 *)
(* rawio_packets.c, split at their calls of h->write_bytes.  The medium    *)
(* supplies how many cells each call took (or an error), and what          *)
(* done_write_packet returned.                                             *)
(*                                                                         *)
(* The operators are functions of the writer's record w:                   *)
(*   pc       "idle", "head", "region" or "done"                           *)
(*   id       the packet being written, its place in the history sent      *)
(*   region   which of its payload regions is next                         *)
(*   nwr      what the payload writer has summed up so far                 *)
(*   counter  packet_write_counter                                         *)
(*   bytes    bytes_written, in cells                                      *)
(*   ret      what the last pueo_write_X returned                          *)
(***************************************************************************)
EXTENDS PacketFormat

FreshWriter == [pc |-> "idle", id |-> 0, region |-> 0, nwr |-> 0,
                counter |-> 0, bytes |-> 0, ret |-> 0]

(* pueo_write_X is called: the header is made and handed to write_bytes.   *)
Begin(w, id) == [w EXCEPT !.pc = "head", !.id = id, !.region = 1, !.nwr = 0]

Return(w, ret) == [w EXCEPT !.pc = "idle", !.id = 0, !.region = 0, !.nwr = 0,
                            !.ret = ret]

(* Mutant: the header is not counted.                                      *)
HeadUncounted(w, n) ==
    IF n # HeadLen THEN Return(w, -1) ELSE [w EXCEPT !.pc = "region"]

(* n cells of the header were taken: anything but all of it is an error,   *)
(* and what was taken stays taken.                                         *)
HeadWritten(w, n) ==
    IF n # HeadLen THEN Return(w, -1)
    ELSE [w EXCEPT !.pc = "region", !.bytes = @ + n]

(* A region of the payload was handed over: n is added up, be it short or  *)
(* -1, and the writer goes on to the next region.                          *)
RegionWritten(w, n, regions) ==
    IF w.region < regions
    THEN [w EXCEPT !.nwr = @ + n, !.region = @ + 1]
    ELSE IF w.nwr + n < 0 THEN Return(w, w.nwr + n)
         ELSE [w EXCEPT !.nwr = @ + n, !.pc = "done"]

(* Mutant: the counter goes up whatever done_write_packet returned.        *)
DoneCounts(w, ret3) ==
    [Return(w, IF ret3 # 0 THEN ret3 ELSE HeadLen + w.nwr) EXCEPT
        !.bytes = @ + w.nwr, !.counter = @ + 1]

(* done_write_packet returned ret3, or there is none and ret3 is 0.        *)
Done(w, ret3) ==
    IF ret3 # 0 THEN Return(w, ret3)
    ELSE [Return(w, HeadLen + w.nwr) EXCEPT !.bytes   = @ + w.nwr,
                                            !.counter = @ + 1]

(* The cells the next write_bytes is given.                                *)
Offered(w, p) == IF w.pc = "head" THEN HeadCells(w.id)
                                  ELSE Regions(w.id, p)[w.region]
=============================================================================
