----------------------------- MODULE AtomicStore -----------------------------
(***************************************************************************)
(* What a database that takes whole packets promises: the rows of a packet *)
(* enter it together or not at all, and never leave it.  Rows that go      *)
(* missing before that need not be among them, or as they were offered;    *)
(* none goes missing afterwards.                                           *)
(***************************************************************************)
EXTENDS Naturals, Sequences

VARIABLES
    offered,   \* offered[id]: how many rows the id-th packet has
    missing,   \* the rows that went missing, as <<packet, row number>>
    rows       \* the rows in the database, likewise

svars == <<offered, missing, rows>>

RowsOf(id) == {<<id, i>> : i \in 1 .. offered[id]}

Init == offered = <<>> /\ missing = {} /\ rows = {}

(* One more packet is offered, of any number of rows.                      *)
Offer == /\ Len(offered') = Len(offered) + 1
         /\ SubSeq(offered', 1, Len(offered)) = offered
         /\ UNCHANGED <<missing, rows>>

(* Rows of a packet that is not stored go missing.                         *)
Miss(id) == /\ UNCHANGED <<offered, rows>>
            /\ RowsOf(id) \cap rows = {}
            /\ missing \subseteq missing' /\ missing' \subseteq missing \cup RowsOf(id)

(* A packet is stored, the whole of what is not missing.                   *)
Store(id) == /\ UNCHANGED <<offered, missing>>
             /\ RowsOf(id) \cap rows = {}
             /\ rows \cup (RowsOf(id) \ missing) \subseteq rows'
             /\ rows' \subseteq rows \cup RowsOf(id)

Next == Offer \/ \E id \in DOMAIN offered : Miss(id) \/ Store(id)

Spec == Init /\ [][Next]_svars
=============================================================================
