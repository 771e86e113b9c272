-------------------------------- MODULE MCDb --------------------------------
(***************************************************************************)
(* Small instances of DbHandle.                                            *)
(***************************************************************************)
EXTENDS DbHandle, SequencesExt

CONSTANTS p1, p2

Row(t) == [type |-> t, text |-> "plain", readings |-> <<>>]
Telemetry(kinds, values) ==
    [type |-> "sensors_telem", text |-> "plain",
     readings |-> [i \in DOMAIN kinds |-> [kind |-> kinds[i], value |-> values[i]]]]

Good == Telemetry(<<"V", "C">>, <<"finite", "infinite">>)
WithNaN == Telemetry(<<"C", "A">>, <<"nan", "finite">>)
Empty == Telemetry(<<>>, <<>>)

(* A log message with a quote in it, which ends its SQL string.            *)
Quoted == [Row("logs") EXCEPT !.text = "quoted"]

MixedPackets == {Quoted, Row("nav_sat"), Good, WithNaN, Empty}

(* One of each kind of sensor there is today, and packets whose rows need  *)
(* tables, columns, quotes or order.                                       *)
EveryKind == Telemetry(SetToSeq(CurrentKinds), [i \in 1 .. Cardinality(CurrentKinds) |-> "finite"])
DocumentedPackets == {Row(t) : t \in {"nav_pos", "prio_status", "single_waveform",
                                      "nav_att", "cmd_echo"}} \cup {EveryKind}

NoTables == {}

(* The states, but for what a handle's last call returned: no step and no  *)
(* property looks at it (what an attempt returned is in attempts).         *)
AllButRet == <<type, [p \in Handles |-> [hs[p] EXCEPT !.ret = 0]],
               attempts, db, tables, files, lost, faults>>

Symmetry == Permutations(Handles)
=============================================================================
