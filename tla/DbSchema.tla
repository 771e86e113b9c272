------------------------------ MODULE DbSchema ------------------------------
(***************************************************************************)
(* What the insert functions and init_db of rawio_db.c print: which SQL    *)
(* statements a packet becomes, whether a backend can parse them, which    *)
(* table they name, and which tables init_db creates.  The text is left    *)
(* out; a statement is a record of its table, of whether it is valid (the  *)
(* backend can parse it and its values fit the columns), and of whether    *)
(* each value is filed under its own column.                               *)
(***************************************************************************)
EXTENDS Sequences, TLC, SensorIds

Backends == {"sqldir", "pgsql", "sqlite"}

(* Types whose insert function only prints a warning and returns -1.       *)
NotInserted == {"full_waveforms", "sensors_disk", "nav_sat",
                "file_download", "saved_priorities"}

(* The table of the types that become one INSERT of one row.               *)
FlightTables ==
    [ss |-> "sun_sensors", slow |-> "slow_packets",
     single_waveform |-> "single_waveforms", nav_att |-> "nav_atts",
     nav_pos |-> "nav_poss"]

TrackingTables == [timemark |-> "timemarks", startracker |-> "startrackers"]

TextTables == [cmd_echo |-> "cmd_echos", logs |-> "logs"]

DaqTables == [prio_status |-> "prio_statuss", daq_hsk |-> "daq_hsks",
              daq_hsk_summary |-> "daq_hsk_summarys"]

RowTables == FlightTables @@ TrackingTables @@ TextTables @@ DaqTables

InsertedTypes == DOMAIN RowTables \cup {"sensors_telem"}

(* get_insert_string of pueo_db_insert_sensors_telem: the table of a kind  *)
(* of sensor, and no INSERT at all for any other kind.                     *)
KindTables == [V |-> "voltages", A |-> "currents", C |-> "temperatures",
               W |-> "powers", X |-> "flags", G |-> "magnetic_fields"]

(* One reading: a NaN is printed as a bare word, an infinity as the        *)
(* backend's own literal, nothing at all for an unknown type tag.          *)
TelemetryStatement(reading) ==
    IF reading.kind \in DOMAIN KindTables
    THEN [table |-> KindTables[reading.kind], filed |-> TRUE,
          valid |-> reading.value \in {"finite", "infinite"}]
    ELSE [table |-> "none", filed |-> TRUE, valid |-> FALSE]

(* cmd_echo leaves out the quote that opens its string for sqlite only; for*)
(* the others its first byte becomes a character, which must not be 0 or   *)
(* above 127.  Quotes in the text of logs are not doubled, and PostgreSQL  *)
(* takes no number for a BOOLEAN.  The text of a packet without such a byte*)
(* or quote is "plain".                                                    *)
RowValid(packet, backend) ==
    /\ packet.type \in DOMAIN TextTables => packet.text = "plain"
    /\ packet.type = "cmd_echo" => backend # "sqlite"
    /\ packet.type = "logs" => backend = "sqlite"

(* antenna_current_2 is given antenna_currents[1]; the last eleven columns *)
(* of nav_pos and their values are in different orders; after the first    *)
(* byte, which alone is an escape, cmd_echo's digits are taken as they are.*)
RowFiled(type, backend) ==
    type \notin {"nav_att", "nav_pos"} /\ (type = "cmd_echo" => backend = "sqlite")

Statements(packet, backend) ==
    IF packet.type = "sensors_telem"
    THEN [i \in DOMAIN packet.readings |-> TelemetryStatement(packet.readings[i])]
    ELSE <<[table |-> RowTables[packet.type], valid |-> RowValid(packet, backend),
            filed |-> RowFiled(packet.type, backend)]>>

-----------------------------------------------------------------------------
(* init_db.                                                                *)

(* The tables of readings, in the order in which init_db creates them.     *)
ReadingTables == <<"temperatures", "voltages", "currents", "powers", "flags",
                   "magnetic_fields">>

(* The others.  nav_pos_init and daq_prio_status_init exist and are not    *)
(* called.                                                                 *)
FlightTablesCreated == <<"sun_sensors", "nav_atts", "single_waveforms",
                         "cmd_echos", "logs", "slow_packets">>
DaqTablesCreated == <<"daq_hsks", "daq_hsk_summarys", "startrackers", "timemarks">>

(* single_wf_init creates its table without the prio columns that          *)
(* pueo_db_insert_single_waveform names.                                   *)
NarrowTables == {"single_waveforms"}

InitStatements ==
    LET create(t) == [table |-> t, valid |-> TRUE, filed |-> TRUE]
        names == ReadingTables \o FlightTablesCreated \o DaqTablesCreated
    IN  [i \in DOMAIN names |-> create(names[i])]
=============================================================================
