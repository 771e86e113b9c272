------------------------------ MODULE DbHandle ------------------------------
(***************************************************************************)
(* pueo_db_handle_t (rawio_db.c): opening with and without init_db, the    *)
(* pueo_db_insert_X functions between begin_sql_stream and                 *)
(* commit_sql_stream, and closing.  Several handles, one per process, work *)
(* on one database or one directory of .sql files.                         *)
(*                                                                         *)
(* The statements of an insert are printed into a memory stream (pgsql,    *)
(* sqlite) and executed at the commit, or printed into a file of their own *)
(* (sqldir) through stdio's buffer.  Nobody looks at what fprintf returns  *)
(* or asks ferror, so what stdio drops on the way is lost without a word.  *)
(* The two databases are external: a string of statements is one implicit  *)
(* transaction for PQexec, and one transaction per statement for           *)
(* sqlite3_exec, which stops at the first statement that fails.            *)
(***************************************************************************)
EXTENDS Integers, FiniteSets, DbSchema

CONSTANTS
    Handles,       \* the processes, each with one handle
    Offered,       \* the backends they may open, all of them the same one
    Names,         \* file names the clock may yield (bound)
    Packets,       \* the packets that may be inserted (bound)
    TablesAtStart, \* tables that exist, complete, before any handle opens
    Flags,         \* whether PUEO_DB_MAYBE_INIT_TABLES is given
    MaxInits,      \* bound: handles opened with it
    MaxAttempts,   \* bound: inserts and initialisations begun
    MaxFaults      \* bound: deaths, failed begins, prints, flushes and commits

ASSUME DbAssumption ==
    /\ Offered \subseteq Backends
    /\ Flags \subseteq BOOLEAN /\ 0 \notin Names
    /\ MaxInits \in Nat /\ MaxAttempts \in Nat /\ MaxFaults \in Nat
    /\ \A p \in Packets : /\ p.type \in InsertedTypes \cup NotInserted
                          /\ p.readings \in Seq([kind : STRING, value : STRING])

VARIABLES
    type,      \* the field type of every handle: the backend
    hs,        \* hs[p]: the handle of process p and its call in progress
    attempts,  \* what was begun: the packet, and what was returned
    db,        \* the rows in the database, as <<attempt, statement>>
    tables,    \* the tables that exist with all the columns inserts name
    files,     \* the .sql files: whose one is, and the statements it holds
    lost,      \* the statements stdio dropped, as <<attempt, statement>>
    faults     \* how many faults there were

vars == <<type, hs, attempts, db, tables, files, lost, faults>>

(* state is the field of that name; pc, the point in the call: "init" to   *)
(* begin init_db, "printing", and "exec" inside sqlite3_exec; id, the      *)
(* attempt in progress; at, the statements printed or executed; name, the  *)
(* file being written; linked, whether the server still answers.           *)
Closed == [state |-> "DB_INVALID", pc |-> "closed", id |-> 0, at |-> 0,
           name |-> 0, linked |-> FALSE, ret |-> 0]

(* init_db counts as an attempt of its own.                                *)
Initialising == [type |-> "init", text |-> "plain", readings |-> <<>>]

Creates(id) == attempts[id].packet = Initialising

StatementsOf(id) == IF Creates(id) THEN InitStatements
                    ELSE Statements(attempts[id].packet, type)

Length(id) == Len(StatementsOf(id))

Intact(id) == {i \in 1 .. Length(id) : <<id, i>> \notin lost}

(* A statement the database can execute: creating a table, or naming one   *)
(* that exists.  What is left of one that was lost may be anything.        *)
Executes(id, i) ==
    LET s == StatementsOf(id)[i]
    IN  /\ s.valid \/ <<id, i>> \in lost
        /\ ~Creates(id) => s.table \in tables

(* The statements the database may find in the text of an attempt: of      *)
(* those that were lost, some may have become others it takes.             *)
Found(id) == {Intact(id) \cup others : others \in SUBSET (1 .. Length(id) \ Intact(id))}

(* PQexec accepts a string of statements, none of which fails.             *)
Accepted(id, found) == found # {} /\ \A i \in found : Executes(id, i)

Init == /\ type \in Offered
        /\ hs = [p \in Handles |-> Closed]
        /\ attempts = <<>>
        /\ db = {} /\ files = <<>>
        /\ tables = TablesAtStart
        /\ lost = {} /\ faults = 0

Fault == faults < MaxFaults /\ faults' = faults + 1

-----------------------------------------------------------------------------
(* Opening and closing.                                                    *)

(* pueo_db_handle_open_X that got a connection or a directory.             *)
Open(p) ==
    /\ hs[p].pc = "closed"
    /\ \E flag \in Flags :
          /\ flag => Cardinality({q \in Handles : hs[q].pc = "init"})
                    + Cardinality({id \in DOMAIN attempts : Creates(id)}) < MaxInits
          /\ hs' = [hs EXCEPT ![p] = [Closed EXCEPT
                       !.state = "DB_READY", !.linked = TRUE,
                       !.pc = IF flag THEN "init" ELSE "idle"]]
    /\ UNCHANGED <<attempts, db, tables, files, lost, faults>>

Close(p) ==
    /\ hs[p].pc = "idle"
    /\ hs' = [hs EXCEPT ![p] = Closed]
    /\ UNCHANGED <<attempts, db, tables, files, lost, faults>>

(* The process dies; what it had executed or flushed stays.                *)
Dies(p) ==
    /\ hs[p].pc # "closed" /\ Fault
    /\ hs' = [hs EXCEPT ![p] = Closed]
    /\ attempts' = IF hs[p].id = 0 THEN attempts
                   ELSE [attempts EXCEPT ![hs[p].id].ret = "died"]
    /\ UNCHANGED <<db, tables, files, lost>>

-----------------------------------------------------------------------------
(* begin_sql_stream.                                                       *)

(* The directory with an empty file of the given attempt.                  *)
FileAdded(name, id) ==
    [n \in DOMAIN files \cup {name} |->
        IF n = name THEN [of |-> id, holds |-> {}] ELSE files[n]]

(* Mutant: no O_EXCL, a file that exists is written over.                  *)
BeginOver(p, packet) ==
    /\ hs[p].state = "DB_READY" /\ Len(attempts) < MaxAttempts
    /\ attempts' = Append(attempts, [packet |-> packet, ret |-> "none"])
    /\ \E name \in IF type = "sqldir" THEN Names ELSE {0} :
          /\ hs' = [hs EXCEPT ![p] = [@ EXCEPT
                        !.state = "DB_BEGUN", !.pc = "printing",
                        !.id = Len(attempts) + 1, !.at = 0, !.name = name]]
          /\ files' = IF name = 0 THEN files
                      ELSE FileAdded(name, Len(attempts) + 1)
    /\ UNCHANGED <<db, tables, lost, faults>>

(* It succeeds: a new attempt, with a file of its own for sqldir, whose    *)
(* name is the time of day and which must not exist (O_EXCL).              *)
BeginStream(p, packet) ==
    /\ hs[p].state = "DB_READY" /\ Len(attempts) < MaxAttempts
    /\ attempts' = Append(attempts, [packet |-> packet, ret |-> "none"])
    /\ \E name \in IF type = "sqldir" THEN Names \ DOMAIN files ELSE {0} :
          /\ hs' = [hs EXCEPT ![p] = [@ EXCEPT
                        !.state = "DB_BEGUN", !.pc = "printing",
                        !.id = Len(attempts) + 1, !.at = 0, !.name = name]]
          /\ files' = IF name = 0 THEN files
                      ELSE FileAdded(name, Len(attempts) + 1)
    /\ UNCHANGED <<db, tables, lost, faults>>

(* It returns NULL and leaves the state alone: not ready, a file of this   *)
(* name exists already, no memory, no disk, no descriptor; or fdopen       *)
(* fails, and the file just created stays, empty and of no attempt.        *)
NoStream(p) ==
    \/ hs[p].state # "DB_READY" /\ UNCHANGED <<files, lost, faults>>
    \/ type = "sqldir" /\ DOMAIN files \cap Names # {} /\ UNCHANGED <<files, lost, faults>>
    \/ Fault /\ UNCHANGED files
    \/ /\ type = "sqldir" /\ Fault
       /\ \E name \in Names \ DOMAIN files :
             files' = FileAdded(name, 0)

-----------------------------------------------------------------------------
(* The calls.                                                              *)

(* init_db, and its open function, which returns the handle whatever       *)
(* init_db did; without a stream fputs dereferences NULL.                  *)
InitBegins(p) ==
    /\ hs[p].pc = "init"
    /\ BeginStream(p, Initialising)

InitCrashes(p) ==
    /\ hs[p].pc = "init" /\ NoStream(p)
    /\ hs' = [hs EXCEPT ![p] = Closed]
    /\ UNCHANGED <<attempts, db, tables, lost>>

(* pueo_db_insert_packet or pueo_db_insert_X.                              *)
Insert(p, packet) ==
    /\ hs[p].pc = "idle" /\ packet.type \in InsertedTypes
    /\ BeginStream(p, packet)

(* A type nobody inserts: a stub, an unsupported or an unknown one.        *)
InsertRefused(p, packet) ==
    /\ hs[p].pc = "idle" /\ packet.type \in NotInserted
    /\ hs' = [hs EXCEPT ![p].ret = -1]
    /\ UNCHANGED <<attempts, db, tables, files, lost, faults>>

(* No stream: sensors_telem returns -1, all others print to a null FILE*.  *)
InsertWithoutStream(p, packet) ==
    /\ hs[p].pc = "idle" /\ packet.type \in InsertedTypes
    /\ NoStream(p)
    /\ hs' = IF packet.type = "sensors_telem" THEN [hs EXCEPT ![p].ret = -1]
             ELSE [hs EXCEPT ![p] = Closed]
    /\ UNCHANGED <<attempts, db, tables, lost>>

(* The next statement is printed into the stream.                          *)
PrintStatement(p) ==
    /\ hs[p].pc = "printing" /\ hs[p].at < Length(hs[p].id)
    /\ hs' = [hs EXCEPT ![p].at = @ + 1]
    /\ UNCHANGED <<attempts, db, tables, files, lost, faults>>

(* A print of it fails, as a memory stream cannot grow: the text lacks     *)
(* something of the statement or all of it, and the call goes on.          *)
PrintFails(p) ==
    /\ hs[p].pc = "printing" /\ hs[p].at < Length(hs[p].id)
    /\ type # "sqldir" /\ Fault
    /\ hs' = [hs EXCEPT ![p].at = @ + 1]
    /\ lost' = lost \cup {<<hs[p].id, hs[p].at + 1>>}
    /\ UNCHANGED <<attempts, db, tables, files>>

(* What was printed, and neither written to the file nor dropped.          *)
Buffered(p) == {i \in 1 .. hs[p].at : /\ i \notin files[hs[p].name].holds
                                      /\ <<hs[p].id, i>> \notin lost}

(* stdio writes what it has, or what precedes a statement that no longer   *)
(* gets into the file, or not whole.                                       *)
Written(p, upto) ==
    files' = [files EXCEPT ![hs[p].name].holds =
                  @ \cup {i \in Buffered(p) : i <= upto}]

FlushFile(p) ==
    /\ hs[p].pc = "printing" /\ type = "sqldir"
    /\ Buffered(p) # {}
    /\ Written(p, hs[p].at)
    /\ UNCHANGED <<hs, attempts, db, tables, lost, faults>>

(* The write fails, and stdio drops what it did not write: the fprintf     *)
(* that needed the room returns an error, and the call goes on.            *)
FlushFails(p) ==
    /\ hs[p].pc = "printing" /\ type = "sqldir"
    /\ Buffered(p) # {} /\ Fault
    /\ \E upto \in 0 .. hs[p].at - 1 :
          /\ Written(p, upto)
          /\ lost' = lost \cup {<<hs[p].id, i>> : i \in {j \in Buffered(p) : j > upto}}
    /\ UNCHANGED <<hs, attempts, db, tables>>

-----------------------------------------------------------------------------
(* commit_sql_stream.                                                      *)

Printed(p) == hs[p].pc = "printing" /\ hs[p].at = Length(hs[p].id)

(* Mutants: a failure is not reported; it leaves the transaction open; it  *)
(* makes the handle unusable.                                              *)
Over(p, ret, state, result) ==
    /\ hs' = [hs EXCEPT ![p] = [@ EXCEPT !.state = state, !.pc = "idle", !.id = 0,
                                         !.at = 0, !.name = 0, !.ret = ret]]
    /\ attempts' = [attempts EXCEPT ![hs[p].id].ret = result]

ReturnZero(p, ret)   == Over(p, 0, "DB_READY", "ok")
ReturnBegun(p, ret)  == IF ret = 0 THEN Over(p, 0, "DB_READY", "ok")
                        ELSE Over(p, ret, "DB_BEGUN", "failed")
ReturnFailed(p, ret) == IF ret = 0 THEN Over(p, 0, "DB_READY", "ok")
                        ELSE Over(p, ret, "DB_FAIL", "failed")

(* The handle is ready again, whatever became of the statements.           *)
Return(p, ret) ==
    /\ hs' = [hs EXCEPT ![p] = [@ EXCEPT !.state = "DB_READY", !.pc = "idle",
                                 !.id = 0, !.at = 0, !.name = 0, !.ret = ret]]
    /\ attempts' = [attempts EXCEPT ![hs[p].id].ret = IF ret = 0 THEN "ok" ELSE "failed"]

(* sqldir: fclose writes the rest, or reports that it could not or could   *)
(* not close the file.  It knows of its own write only, not of earlier ones*)
(* that failed.                                                            *)
CommitFile(p) ==
    /\ Printed(p) /\ type = "sqldir"
    /\ \/ Written(p, hs[p].at) /\ Return(p, 0) /\ UNCHANGED faults
       \/ Fault /\ Return(p, -1) /\ \E upto \in 0 .. hs[p].at : Written(p, upto)
    /\ UNCHANGED <<db, tables, lost>>

(* What executing statements of an attempt does.                           *)
Effect(id, done) ==
    IF Creates(id)
    THEN /\ tables' = tables \cup
                ({StatementsOf(id)[i].table : i \in done \cap Intact(id)} \ NarrowTables)
         /\ UNCHANGED db
    ELSE /\ db' = db \cup {<<id, i>> : i \in done}
         /\ UNCHANGED tables

(* Mutant: the statements are sent one by one, whatever becomes of each.   *)
CommitPieces(p) ==
    LET id   == hs[p].id
        good == {i \in 1 .. Length(id) : Executes(id, i)}
    IN  /\ Printed(p) /\ type = "pgsql" /\ hs[p].linked
        /\ Effect(id, good)
        /\ Return(p, IF good = 1 .. Length(id) THEN 0 ELSE -1)
        /\ UNCHANGED <<files, lost, faults>>

(* pgsql: PQexec runs all statements or none; an empty string is not       *)
(* PGRES_COMMAND_OK.  When the connection is lost, the server may or may   *)
(* not have finished, and every later PQexec of this handle fails.         *)
CommitPgsql(p) ==
    LET id == hs[p].id
    IN  /\ Printed(p) /\ type = "pgsql"
        /\ \/ \E found \in Found(id) :
                 /\ hs[p].linked /\ Accepted(id, found)
                 /\ Effect(id, found) /\ Return(p, 0)
           \/ /\ ~hs[p].linked \/ Intact(id) # 1 .. Length(id) \/ ~Accepted(id, Intact(id))
              /\ Return(p, -1) /\ UNCHANGED <<db, tables>>
        /\ UNCHANGED <<files, lost, faults>>

LosesServer(p) ==
    /\ Printed(p) /\ type = "pgsql" /\ hs[p].linked /\ Fault
    /\ LET id == hs[p].id
       IN  /\ \/ \E found \in Found(id) : Accepted(id, found) /\ Effect(id, found)
              \/ UNCHANGED <<db, tables>>
           /\ hs' = [hs EXCEPT ![p] = [@ EXCEPT
                         !.state = "DB_READY", !.pc = "idle", !.id = 0, !.at = 0,
                         !.name = 0, !.ret = -1, !.linked = FALSE]]
           /\ attempts' = [attempts EXCEPT ![id].ret = "failed"]
    /\ UNCHANGED <<files, lost>>

(* sqlite: sqlite3_exec starts on the first statement.                     *)
CommitSqlite(p) ==
    /\ Printed(p) /\ type = "sqlite"
    /\ hs' = [hs EXCEPT ![p] = [@ EXCEPT !.pc = "exec", !.at = 0]]
    /\ UNCHANGED <<attempts, db, tables, files, lost, faults>>

ExecStatement(p) ==
    /\ hs[p].pc = "exec" /\ hs[p].at < Length(hs[p].id)
    /\ Executes(hs[p].id, hs[p].at + 1)
    /\ Effect(hs[p].id, {hs[p].at + 1})
    /\ hs' = [hs EXCEPT ![p].at = @ + 1]
    /\ UNCHANGED <<attempts, files, lost, faults>>

(* There is nothing where a statement was lost.                            *)
ExecFindsNothing(p) ==
    /\ hs[p].pc = "exec" /\ <<hs[p].id, hs[p].at + 1>> \in lost
    /\ hs' = [hs EXCEPT ![p].at = @ + 1]
    /\ UNCHANGED <<attempts, db, tables, files, lost, faults>>

(* Mutant: a statement that fails is passed over.                          *)
ExecPasses(p) ==
    /\ hs[p].pc = "exec" /\ hs[p].at < Length(hs[p].id)
    /\ ~Executes(hs[p].id, hs[p].at + 1)
    /\ hs' = [hs EXCEPT ![p].at = @ + 1]
    /\ UNCHANGED <<attempts, db, tables, files, lost, faults>>

(* A statement fails, of itself, for what is left of it, or because the    *)
(* database is locked or full.                                             *)
ExecFails(p) ==
    /\ hs[p].pc = "exec" /\ hs[p].at < Length(hs[p].id)
    /\ \/ ~Executes(hs[p].id, hs[p].at + 1) /\ UNCHANGED faults
       \/ <<hs[p].id, hs[p].at + 1>> \in lost /\ UNCHANGED faults
       \/ Fault
    /\ Return(p, 1)
    /\ UNCHANGED <<db, tables, files, lost>>

ExecDone(p) ==
    /\ hs[p].pc = "exec" /\ hs[p].at = Length(hs[p].id)
    /\ Return(p, 0)
    /\ UNCHANGED <<db, tables, files, lost, faults>>

Commit(p) == \/ CommitFile(p) \/ CommitPgsql(p) \/ LosesServer(p) \/ CommitSqlite(p)
             \/ ExecStatement(p) \/ ExecFindsNothing(p) \/ ExecFails(p) \/ ExecDone(p)

Step(p) == \/ Open(p) \/ Close(p) \/ Dies(p) \/ InitBegins(p) \/ InitCrashes(p)
           \/ \E packet \in Packets : \/ Insert(p, packet)
                                      \/ InsertRefused(p, packet)
                                      \/ InsertWithoutStream(p, packet)
           \/ PrintStatement(p) \/ PrintFails(p) \/ FlushFile(p) \/ FlushFails(p)
           \/ Commit(p)

Next == UNCHANGED type /\ \E p \in Handles : Step(p)

Spec == Init /\ [][Next]_vars

-----------------------------------------------------------------------------
(* Properties.                                                             *)

DbTypeOK ==
    /\ \A p \in Handles :
          /\ hs[p].state \in {"DB_INVALID", "DB_READY", "DB_BEGUN"}
          /\ hs[p].pc \in {"closed", "idle", "init", "printing", "exec"}
          /\ hs[p].id \in 0 .. Len(attempts)
    /\ \A id \in DOMAIN attempts : attempts[id].ret \in {"none", "ok", "failed", "died"}
    /\ \A row \in db \cup lost : row[1] \in DOMAIN attempts /\ row[2] \in 1 .. Length(row[1])
    /\ \A name \in DOMAIN files :
          LET file == files[name]
          IN  file.holds \subseteq 1 .. (IF file.of = 0 THEN 0 ELSE Length(file.of))

(* Whatever failed before, a handle between two calls can begin the next   *)
(* one: its state is DB_READY, neither stuck in DB_BEGUN with a stream     *)
(* nobody will commit nor given up (rawio_db.c:232, 304, 371).             *)
UsableBetweenCalls ==
    \A p \in Handles :
        /\ hs[p].pc \in {"idle", "init"} => hs[p].state = "DB_READY"
        /\ hs[p].state = "DB_BEGUN" <=> hs[p].pc \in {"printing", "exec"}
        /\ hs[p].pc \in {"printing", "exec"} => attempts[hs[p].id].ret = "none"

(* An insert that returned 0 stored everything that reached its stream:    *)
(* all its rows are in the database, or all its statements in its file.    *)
(* Nothing is lost in the commit; the only way a 0 is wrong is a statement *)
(* stdio dropped before it, whose error no insert function reads           *)
(* (rawio_db.c:317, 330, 352, 657).                                        *)
Stored(id) ==
    IF type = "sqldir"
    THEN \E name \in DOMAIN files : /\ files[name].of = id
                                    /\ Intact(id) \subseteq files[name].holds
    ELSE \A i \in Intact(id) : <<id, i>> \in db

ZeroMeansStored ==
    \A id \in DOMAIN attempts :
        attempts[id].ret = "ok" /\ ~Creates(id) => Stored(id)

(* What is in the database of an insert that failed or was cut short is    *)
(* what comes before the place where it stopped; the only holes are where  *)
(* stdio dropped a statement.                                              *)
NoHoles == \A row \in db : \A i \in 1 .. row[2] : <<row[1], i>> \in db \cup lost

(* A .sql file belongs to one insert, and once this one has returned no    *)
(* other, of this process or another, whatever the clock says, touches it. *)
FilesAreFinal ==
    [][\A name \in DOMAIN files :
          /\ name \in DOMAIN files'
          /\ files'[name].of = files[name].of
          /\ (files[name].of = 0 \/ attempts[files[name].of].ret # "none")
                => files'[name] = files[name]]_vars

(* With pgsql an insert is atomic: through deaths, lost connections and    *)
(* other processes at work, the database is the abstract store, into which *)
(* the readings of a packet that were not lost on the way enter together.  *)
(* sqlite keeps the readings before one that failed (rawio_db.c:354).      *)
Store == INSTANCE AtomicStore WITH
    offered <- [id \in DOMAIN attempts |->
                    IF type # "pgsql" \/ Creates(id) THEN 0 ELSE Length(id)],
    missing <- {row \in lost : type = "pgsql" /\ ~Creates(row[1])},
    rows    <- IF type = "pgsql" THEN db ELSE {}

Atomic == Store!Spec

(* An insert into a database that never failed came back with an error.    *)
Rejected(id) == attempts[id].ret = "failed" /\ faults = 0

(* rawio.h:225: PUEO_DB_MAYBE_INIT_TABLES initialises the tables, those    *)
(* that the insert functions name.                                         *)
TablesInitialised ==
    \A id \in DOMAIN attempts :
        attempts[id].packet.type \in DOMAIN RowTables \ {"cmd_echo"} => ~Rejected(id)

(* sensor_ids.h:54-62: the kinds of sensors are V, A, C, W, G and X, all   *)
(* of which have a table, so finite readings of any sensor are stored.     *)
FiniteReadingsStored ==
    \A id \in DOMAIN attempts :
        LET packet == attempts[id].packet
        IN  /\ packet.type = "sensors_telem"
            /\ \A i \in DOMAIN packet.readings : packet.readings[i].value = "finite"
            => ~Rejected(id)

(* rawio_db.c:670: cmd_echo's data are "just a normal string" for sqlite,  *)
(* so that an echo becomes a row.                                          *)
EchoStored ==
    \A id \in DOMAIN attempts :
        attempts[id].packet.type = "cmd_echo" => ~Rejected(id)

(* rawio_db.c:521: the columns antenna_current_0 to antenna_current_2 are  *)
(* those of the three antennas, and every column shows its own member.     *)
ColumnsFiled ==
    \A id \in DOMAIN attempts :
        attempts[id].ret = "ok" =>
            \A i \in 1 .. Length(id) : StatementsOf(id)[i].filed

(* What the header, the enumeration of kinds, the comment and the columns  *)
(* say, once every packet was offered.                                     *)
InsertsAsDocumented ==
    Packets \subseteq {attempts[id].packet :
                           id \in {i \in DOMAIN attempts : attempts[i].ret # "none"}}
        => /\ TablesInitialised /\ FiniteReadingsStored
           /\ EchoStored /\ ColumnsFiled
=============================================================================
