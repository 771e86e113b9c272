--------------------------- MODULE DbHandle_proofs --------------------------
(***************************************************************************)
(* DbHandle for every set of processes, packets and file names, and any    *)
(* number of attempts and faults.                                          *)
(***************************************************************************)
EXTENDS DbHandle, TLAPS

(* The handle of p is inside an insert or init_db: it has a stream.        *)
Busy(p) == hs[p].pc \in {"printing", "exec"}

HandleRec == [state : {"DB_INVALID", "DB_READY", "DB_BEGUN"},
              pc : {"closed", "idle", "init", "printing", "exec"},
              id : Nat, at : Nat, name : Names \cup {0}, linked : BOOLEAN, ret : Int]
Attempt == [packet : Packets \cup {Initialising},
            ret : {"none", "ok", "failed", "died"}]
File == [of : Nat, holds : SUBSET Nat]

Shapes == /\ hs \in [Handles -> HandleRec]
          /\ attempts \in Seq(Attempt)
          /\ files \in [DOMAIN files -> File]
          /\ db \subseteq Nat \X Nat /\ lost \subseteq Nat \X Nat

(* A handle without a stream.                                              *)
Resting(rec) == /\ rec.id = 0
                /\ \/ rec.pc = "closed" /\ rec.state = "DB_INVALID"
                   \/ rec.pc \in {"idle", "init"} /\ rec.state = "DB_READY"

(* The attempt a busy handle works on has not returned, and the file it    *)
(* writes is that attempt's.                                               *)
AtWork(p) == /\ hs[p].state = "DB_BEGUN"
             /\ hs[p].id \in DOMAIN attempts /\ attempts[hs[p].id].ret = "none"
             /\ type = "sqldir" => /\ hs[p].name \in DOMAIN files
                                   /\ files[hs[p].name].of = hs[p].id
             /\ hs[p].pc = "exec" => type = "sqlite"

Occupied == \A p \in Handles : IF Busy(p) THEN AtWork(p) ELSE Resting(hs[p])

OwnAttempt == \A p, q \in Handles : Busy(p) /\ Busy(q) /\ hs[p].id = hs[q].id => p = q

(* The rows of an attempt at work are those that sqlite3_exec has done,    *)
(* where there was something to do.                                        *)
RowsSoFar == \A p \in Handles : Busy(p) => \A i \in Nat :
    /\ <<hs[p].id, i>> \in db => hs[p].pc = "exec" /\ i \in 1 .. hs[p].at
    /\ hs[p].pc = "exec" /\ ~Creates(hs[p].id) /\ i \in 1 .. hs[p].at
          => <<hs[p].id, i>> \in db \cup lost

(* Rows, and what was lost, are of attempts.                               *)
RowsOfAttempts == \A row \in db \cup lost : row[1] \in DOMAIN attempts

DInv == /\ Shapes /\ Occupied /\ OwnAttempt /\ RowsSoFar /\ RowsOfAttempts
        /\ NoHoles /\ ZeroMeansStored

-----------------------------------------------------------------------------
(* What a step of p leaves alone, and the kinds of steps.                  *)

OnlyHandle(p) == /\ hs' \in [Handles -> HandleRec]
                 /\ \A q \in Handles \ {p} : hs'[q] = hs[q]

OnlyOwnFile(p) == /\ files' \in [DOMAIN files' -> File]
                  /\ DOMAIN files \subseteq DOMAIN files'
                  /\ \A name \in DOMAIN files :
                        /\ files'[name].of = files[name].of
                        /\ ~Busy(p) \/ files[name].of # hs[p].id
                              => files'[name] = files[name]

(* No stream before and after.                                             *)
Rests(p) == /\ OnlyHandle(p) /\ OnlyOwnFile(p)
            /\ ~Busy(p) /\ Resting(hs'[p])
            /\ UNCHANGED <<type, attempts, db, lost>>

(* A stream is begun, for a new attempt.                                   *)
Begins(p) == /\ OnlyHandle(p) /\ OnlyOwnFile(p)
             /\ ~Busy(p) /\ UNCHANGED <<type, db, lost>>
             /\ \E a \in Attempt : a.ret = "none" /\ attempts' = Append(attempts, a)
             /\ hs'[p].pc = "printing" /\ hs'[p].id = Len(attempts) + 1
             /\ hs'[p].state = "DB_BEGUN"
             /\ type = "sqldir" => /\ hs'[p].name \in DOMAIN files'
                                   /\ files'[hs'[p].name].of = Len(attempts) + 1

(* Printing, flushing and executing go on, and may lose something of the   *)
(* attempt.                                                                *)
Works(p) == /\ OnlyHandle(p) /\ OnlyOwnFile(p)
            /\ Busy(p) /\ UNCHANGED <<type, attempts>>
            /\ hs'[p].id = hs[p].id /\ hs'[p].name = hs[p].name
            /\ hs'[p].state = "DB_BEGUN"
            /\ lost \subseteq lost'
            /\ \A row \in lost' \ lost :
                  /\ row[1] = hs[p].id /\ row \in Nat \X Nat
                  /\ type # "sqldir" => row[2] \in 1 .. Length(hs[p].id)
            /\ \/ hs'[p].pc = "printing" /\ hs[p].pc = "printing" /\ UNCHANGED db
               \/ /\ hs[p].pc = "printing" /\ hs'[p].pc = "exec" /\ hs'[p].at = 0
                  /\ type = "sqlite" /\ UNCHANGED db
               \/ /\ hs[p].pc = "exec" /\ hs'[p].pc = "exec"
                  /\ hs'[p].at = hs[p].at + 1 /\ UNCHANGED lost
                  /\ \/ <<hs[p].id, hs[p].at + 1>> \in lost /\ UNCHANGED db
                     \/ db' = IF Creates(hs[p].id) THEN db
                              ELSE db \cup {<<hs[p].id, hs[p].at + 1>>}

(* The attempt returns, or dies with the process.                          *)
Ends(p) == /\ OnlyHandle(p) /\ OnlyOwnFile(p)
           /\ Busy(p) /\ Resting(hs'[p]) /\ UNCHANGED <<type, lost>>
           /\ \E result \in {"ok", "failed", "died"} :
                 /\ attempts' = [attempts EXCEPT ![hs[p].id].ret = result]
                 /\ result = "ok" /\ ~Creates(hs[p].id) =>
                       IF type = "sqldir"
                       THEN \E name \in DOMAIN files' :
                                /\ files'[name].of = hs[p].id
                                /\ Intact(hs[p].id) \subseteq files'[name].holds
                       ELSE \A i \in Intact(hs[p].id) : <<hs[p].id, i>> \in db'
           /\ \/ UNCHANGED db
              \/ /\ ~Creates(hs[p].id)
                 /\ \E found \in SUBSET (1 .. Length(hs[p].id)) :
                       /\ Intact(hs[p].id) \subseteq found
                       /\ db' = db \cup {<<hs[p].id, i>> : i \in found}

-----------------------------------------------------------------------------

(* Initially nothing is open, stored or written.                           *)
LEMMA Init_DInv == Init => DInv
<1> SUFFICES ASSUME Init PROVE DInv
  OBVIOUS
<1>1. Shapes
  BY DEF Init, Shapes, Closed, HandleRec
<1>2. Occupied /\ OwnAttempt /\ RowsSoFar
  BY DEF Init, Occupied, OwnAttempt, RowsSoFar, Busy, Resting, Closed
<1>3. RowsOfAttempts /\ NoHoles /\ ZeroMeansStored
  BY DEF Init, RowsOfAttempts, NoHoles, ZeroMeansStored
<1> QED
  BY <1>1, <1>2, <1>3 DEF DInv

(* What was begun stays what it was: attempts only gain results.           *)
LEMMA SameStatements ==
    ASSUME NEW id, attempts'[id].packet = attempts[id].packet, UNCHANGED type
    PROVE  /\ Creates(id)' <=> Creates(id)
           /\ Length(id)' = Length(id)
BY DEF Creates, Length, StatementsOf

(* What is intact may be lost, and what is lost stays so.                  *)
LEMMA IntactShrinks ==
    ASSUME NEW id, attempts'[id].packet = attempts[id].packet, UNCHANGED type,
           lost \subseteq lost'
    PROVE  Intact(id)' \subseteq Intact(id)
<1>1. Length(id)' = Length(id)
  BY SameStatements
<1> QED
  BY <1>1 DEF Intact

(* Every attempt has a number of statements.                               *)
LEMMA LengthIsNat ==
    ASSUME NEW id, attempts[id].packet \in Packets \cup {Initialising}
    PROVE  Length(id) \in Nat
<1> DEFINE packet == attempts[id].packet
<1>1. ASSUME NEW T, NEW f(_), NEW s \in Seq(T)
      PROVE  Len([i \in DOMAIN s |-> f(i)]) \in Nat
  <2>1. DOMAIN s = 1 .. Len(s) /\ Len(s) \in Nat
    OBVIOUS
  <2>2. [i \in 1 .. Len(s) |-> f(i)] \in Seq({f(i) : i \in 1 .. Len(s)})
    BY <2>1
  <2> QED
    BY <2>1, <2>2
<1>2. CASE Creates(id)
  <2> DEFINE T == {"temperatures", "voltages", "currents", "powers", "flags",
                   "magnetic_fields", "sun_sensors", "nav_atts", "single_waveforms",
                   "cmd_echos", "logs", "slow_packets", "daq_hsks",
                   "daq_hsk_summarys", "startrackers", "timemarks"}
  <2>1. (ReadingTables \o FlightTablesCreated \o DaqTablesCreated) \in Seq(T)
    <3>1. ReadingTables \in Seq(T)
      BY DEF ReadingTables
    <3>2. FlightTablesCreated \in Seq(T)
      BY DEF FlightTablesCreated
    <3>3. DaqTablesCreated \in Seq(T)
      BY DEF DaqTablesCreated
    <3> QED
      BY <3>1, <3>2, <3>3
  <2>2. Len(InitStatements) \in Nat
    BY <1>1, <2>1 DEF InitStatements
  <2> QED
    BY <1>2, <2>2 DEF Length, StatementsOf
<1>3. CASE ~Creates(id) /\ packet.type = "sensors_telem"
  <2>1. packet.readings \in Seq([kind : STRING, value : STRING])
    BY <1>3, DbAssumption DEF Creates
  <2>2. Len(Statements(packet, type)) \in Nat
    BY <1>1, <1>3, <2>1 DEF Statements
  <2> QED
    BY <1>3, <2>2 DEF Length, StatementsOf
<1>4. CASE ~Creates(id) /\ packet.type # "sensors_telem"
  BY <1>4 DEF Length, StatementsOf, Statements
<1> QED
  BY <1>2, <1>3, <1>4

(* Resting handles are not busy, busy ones have an attempt of their own.   *)
LEMMA RestingIsNotBusy ==
    ASSUME NEW rec, Resting(rec)
    PROVE  rec.pc \notin {"printing", "exec"} /\ rec.id = 0
BY DEF Resting

(* Files and rows of what has returned 0 stay.                             *)
LEMMA StoredStays ==
    ASSUME DInv, NEW p \in Handles, OnlyOwnFile(p), UNCHANGED type, db \subseteq db',
           lost \subseteq lost', NEW id \in DOMAIN attempts, attempts[id].ret = "ok", ~Creates(id),
           attempts'[id].packet = attempts[id].packet
    PROVE  Stored(id)'
<1>1. Stored(id) /\ Intact(id)' \subseteq Intact(id)
  BY IntactShrinks DEF DInv, ZeroMeansStored
<1>2. CASE type = "sqldir"
  <2>1. PICK name \in DOMAIN files : /\ files[name].of = id
                                     /\ Intact(id) \subseteq files[name].holds
    BY <1>1, <1>2 DEF Stored
  <2>2. ~Busy(p) \/ files[name].of # hs[p].id
    BY <2>1 DEF DInv, Occupied, AtWork
  <2>3. name \in DOMAIN files' /\ files'[name] = files[name]
    BY <2>1, <2>2 DEF OnlyOwnFile
  <2> QED
    BY <1>1, <1>2, <2>1, <2>3 DEF Stored
<1>3. CASE type # "sqldir"
  BY <1>1, <1>3 DEF Stored
<1> QED
  BY <1>2, <1>3

(* A busy process keeps its file when another one steps.                   *)
LEMMA OthersAtWork ==
    ASSUME DInv, NEW p \in Handles, NEW q \in Handles \ {p}, Busy(q),
           OnlyHandle(p), OnlyOwnFile(p), UNCHANGED type,
           hs[q].id \in DOMAIN attempts', attempts'[hs[q].id].ret = "none"
    PROVE  AtWork(q)'
BY DEF DInv, Occupied, AtWork, OnlyHandle, OnlyOwnFile

(* No stream before and after: what is stored stays.                       *)
LEMMA RestsKeeps ==
    ASSUME DInv, NEW p \in Handles, Rests(p)
    PROVE  DInv'
<1>1. /\ OnlyHandle(p) /\ OnlyOwnFile(p) /\ ~Busy(p) /\ Resting(hs'[p])
      /\ type' = type /\ attempts' = attempts /\ db' = db /\ lost' = lost
  BY DEF Rests
<1>2. Shapes'
  BY <1>1 DEF DInv, Shapes, OnlyHandle, OnlyOwnFile
<1>3. \A q \in Handles : Busy(q)' => q # p /\ Busy(q) /\ hs'[q] = hs[q]
  BY <1>1, RestingIsNotBusy DEF Busy, OnlyHandle
<1>4. Occupied'
  <2> SUFFICES ASSUME NEW q \in Handles
               PROVE  IF Busy(q)' THEN AtWork(q)' ELSE Resting(hs'[q])
    BY DEF Occupied
  <2>1. CASE q = p
    BY <1>1, <1>3, <2>1
  <2>2. CASE q # p /\ Busy(q)
    BY <1>1, <2>2, OthersAtWork DEF DInv, Occupied, AtWork, OnlyHandle, Busy
  <2>3. CASE q # p /\ ~Busy(q)
    BY <1>1, <2>3 DEF DInv, Occupied, OnlyHandle, Busy
  <2> QED
    BY <2>1, <2>2, <2>3
<1>5. OwnAttempt'
  BY <1>3 DEF DInv, OwnAttempt
<1>6. RowsSoFar'
  BY <1>1, <1>3 DEF DInv, RowsSoFar, Creates
<1>7. RowsOfAttempts' /\ NoHoles'
  BY <1>1 DEF DInv, RowsOfAttempts, NoHoles
<1>8. ZeroMeansStored'
  BY <1>1, StoredStays, SameStatements DEF ZeroMeansStored
<1> QED
  BY <1>2, <1>4, <1>5, <1>6, <1>7, <1>8 DEF DInv

(* A new attempt has no rows yet and is nobody else's.                     *)
LEMMA BeginsKeeps ==
    ASSUME DInv, NEW p \in Handles, Begins(p)
    PROVE  DInv'
<1>1. /\ OnlyHandle(p) /\ OnlyOwnFile(p) /\ ~Busy(p) /\ type' = type /\ db' = db
      /\ lost' = lost
      /\ hs'[p].pc = "printing" /\ hs'[p].id = Len(attempts) + 1
      /\ hs'[p].state = "DB_BEGUN"
      /\ type = "sqldir" => /\ hs'[p].name \in DOMAIN files'
                            /\ files'[hs'[p].name].of = Len(attempts) + 1
  BY DEF Begins
<1>2. PICK a \in Attempt : a.ret = "none" /\ attempts' = Append(attempts, a)
  BY DEF Begins
<1>3. /\ attempts' \in Seq(Attempt) /\ DOMAIN attempts = 1 .. Len(attempts)
      /\ Len(attempts) \in Nat /\ DOMAIN attempts' = 1 .. Len(attempts) + 1
      /\ attempts'[Len(attempts) + 1] = a
      /\ \A id \in DOMAIN attempts : attempts'[id] = attempts[id]
  BY <1>2 DEF DInv, Shapes
<1>4. Shapes'
  BY <1>1, <1>3 DEF DInv, Shapes, OnlyHandle, OnlyOwnFile
<1>5. \A q \in Handles \ {p} : hs'[q] = hs[q] /\ (Busy(q)' <=> Busy(q))
  BY <1>1 DEF Busy, OnlyHandle
<1>6. \A q \in Handles : Busy(q) => hs[q].id \in 1 .. Len(attempts)
  BY <1>3 DEF DInv, Occupied, AtWork
<1>7. Occupied'
  <2> SUFFICES ASSUME NEW q \in Handles
               PROVE  IF Busy(q)' THEN AtWork(q)' ELSE Resting(hs'[q])
    BY DEF Occupied
  <2>1. CASE q = p
    BY <1>1, <1>2, <1>3, <2>1 DEF AtWork, Busy
  <2>2. CASE q # p /\ Busy(q)
    <3>1. attempts[hs[q].id].ret = "none"
      BY <2>2 DEF DInv, Occupied, AtWork
    <3> QED
      BY <1>1, <1>3, <1>5, <1>6, <2>2, <3>1, OthersAtWork
  <2>3. CASE q # p /\ ~Busy(q)
    BY <1>5, <2>3 DEF DInv, Occupied
  <2> QED
    BY <2>1, <2>2, <2>3
<1>8. OwnAttempt'
  <2> SUFFICES ASSUME NEW q \in Handles, NEW r \in Handles, Busy(q)', Busy(r)',
                      hs'[q].id = hs'[r].id
               PROVE  q = r
    BY DEF OwnAttempt
  <2>1. CASE q # p /\ r # p
    BY <1>5, <2>1 DEF DInv, OwnAttempt
  <2>2. CASE q = p \/ r = p
    BY <1>1, <1>3, <1>5, <1>6, <2>2
  <2> QED
    BY <2>1, <2>2
<1>9. RowsSoFar'
  <2> SUFFICES ASSUME NEW q \in Handles, Busy(q)', NEW i \in Nat
               PROVE  /\ <<hs'[q].id, i>> \in db' => hs'[q].pc = "exec" /\ i \in 1 .. hs'[q].at
                      /\ hs'[q].pc = "exec" /\ ~Creates(hs[q].id)' /\ i \in 1 .. hs'[q].at
                            => <<hs'[q].id, i>> \in db' \cup lost'
    BY DEF RowsSoFar
  <2>1. CASE q = p
    <3>1. <<hs'[q].id, i>> \notin db'
      BY <1>1, <1>3, <2>1 DEF DInv, RowsOfAttempts
    <3> QED
      BY <1>1, <2>1, <3>1
  <2>2. CASE q # p
    BY <1>1, <1>3, <1>5, <1>6, <2>2 DEF DInv, RowsSoFar, Creates
  <2> QED
    BY <2>1, <2>2
<1>10. RowsOfAttempts' /\ NoHoles'
  BY <1>1, <1>3 DEF DInv, RowsOfAttempts, NoHoles
<1>11. ZeroMeansStored'
  <2> SUFFICES ASSUME NEW id \in DOMAIN attempts', attempts'[id].ret = "ok", ~Creates(id)'
               PROVE  Stored(id)'
    BY DEF ZeroMeansStored
  <2>1. id \in DOMAIN attempts /\ attempts'[id] = attempts[id]
    BY <1>2, <1>3
  <2> QED
    BY <1>1, <2>1, StoredStays, SameStatements
<1> QED
  BY <1>4, <1>7, <1>8, <1>9, <1>10, <1>11 DEF DInv

(* The attempt goes on: a row that sqlite3_exec adds follows the others.   *)
LEMMA WorksKeeps ==
    ASSUME DInv, NEW p \in Handles, Works(p)
    PROVE  DInv'
<1> DEFINE id == hs[p].id
<1>1. /\ OnlyHandle(p) /\ OnlyOwnFile(p) /\ Busy(p) /\ type' = type
      /\ attempts' = attempts
      /\ hs'[p].id = id /\ hs'[p].name = hs[p].name /\ hs'[p].state = "DB_BEGUN"
      /\ Busy(p)' /\ db \subseteq db' /\ lost \subseteq lost'
  BY DEF Works, Busy
<1>2. id \in Nat /\ hs[p].at \in Nat /\ AtWork(p)
  BY <1>1 DEF DInv, Shapes, HandleRec, Occupied
<1>3. \A q \in Handles \ {p} : hs'[q] = hs[q] /\ (Busy(q)' <=> Busy(q))
  BY <1>1 DEF Busy, OnlyHandle
<1>4. \A row \in db' \ db : row = <<id, hs[p].at + 1>> /\ hs[p].pc = "exec"
                               /\ hs'[p].pc = "exec" /\ hs'[p].at = hs[p].at + 1
                               /\ ~Creates(id)
  BY DEF Works
<1>12. \A row \in lost' \ lost : row[1] = id /\ row \in Nat \X Nat
  BY DEF Works
<1>5. Shapes'
  BY <1>1, <1>2, <1>4, <1>12 DEF DInv, Shapes, OnlyHandle, OnlyOwnFile
<1>6. Occupied'
  <2> SUFFICES ASSUME NEW q \in Handles
               PROVE  IF Busy(q)' THEN AtWork(q)' ELSE Resting(hs'[q])
    BY DEF Occupied
  <2>1. CASE q = p
    <3>1. hs'[p].pc = "exec" => type = "sqlite"
      BY <1>2 DEF Works, AtWork
    <3> QED
      BY <1>1, <1>2, <2>1, <3>1 DEF AtWork, OnlyOwnFile
  <2>2. CASE q # p /\ Busy(q)
    BY <1>1, <1>3, <2>2, OthersAtWork DEF DInv, Occupied, AtWork
  <2>3. CASE q # p /\ ~Busy(q)
    BY <1>3, <2>3 DEF DInv, Occupied
  <2> QED
    BY <2>1, <2>2, <2>3
<1>7. OwnAttempt'
  BY <1>1, <1>3 DEF DInv, OwnAttempt
<1>8. RowsSoFar'
  <2> SUFFICES ASSUME NEW q \in Handles, Busy(q)', NEW i \in Nat
               PROVE  /\ <<hs'[q].id, i>> \in db' => hs'[q].pc = "exec" /\ i \in 1 .. hs'[q].at
                      /\ hs'[q].pc = "exec" /\ ~Creates(hs[q].id)' /\ i \in 1 .. hs'[q].at
                            => <<hs'[q].id, i>> \in db' \cup lost'
    BY DEF RowsSoFar
  <2>1. CASE q # p
    <3>1. hs[q].id # id /\ hs'[q] = hs[q] /\ Busy(q)
      BY <1>1, <1>3, <2>1 DEF DInv, OwnAttempt
    <3>2. <<hs[q].id, i>> \in db' <=> <<hs[q].id, i>> \in db
      BY <1>1, <1>4, <3>1
    <3> QED
      BY <1>1, <3>1, <3>2 DEF DInv, RowsSoFar, Creates
  <2>2. CASE q = p /\ hs[p].pc = "printing"
    BY <1>1, <2>2 DEF DInv, RowsSoFar, Works
  <2>3. CASE q = p /\ hs[p].pc = "exec"
    <3>1. /\ hs'[p].pc = "exec" /\ hs'[p].at = hs[p].at + 1 /\ lost' = lost
          /\ \/ <<id, hs[p].at + 1>> \in lost /\ db' = db
             \/ db' = IF Creates(id) THEN db ELSE db \cup {<<id, hs[p].at + 1>>}
      BY <2>3 DEF Works
    <3>2. Creates(id)' <=> Creates(id)
      BY <1>1 DEF Creates
    <3>3. /\ <<id, i>> \in db => i \in 1 .. hs[p].at
          /\ ~Creates(id) /\ i \in 1 .. hs[p].at => <<id, i>> \in db \cup lost
      BY <1>1, <2>3 DEF DInv, RowsSoFar
    <3> QED
      BY <1>1, <1>2, <2>3, <3>1, <3>2, <3>3 DEF Creates
  <2> QED
    BY <1>1, <2>1, <2>2, <2>3 DEF Busy
<1>9. RowsOfAttempts'
  BY <1>1, <1>2, <1>4, <1>12 DEF DInv, RowsOfAttempts, AtWork
<1>10. NoHoles'
  <2> SUFFICES ASSUME NEW row \in db', NEW i \in 1 .. row[2]
               PROVE  <<row[1], i>> \in db' \cup lost'
    BY DEF NoHoles
  <2>1. CASE row \in db
    BY <1>1, <2>1 DEF DInv, NoHoles
  <2>2. CASE row \notin db
    <3>1. /\ row[1] = id /\ row[2] = hs[p].at + 1 /\ hs[p].pc = "exec"
          /\ ~Creates(id) /\ row = <<id, hs[p].at + 1>>
      BY <1>4, <2>2
    <3>2. CASE i = hs[p].at + 1
      BY <3>1, <3>2
    <3>3. CASE i \in 1 .. hs[p].at
      BY <1>1, <1>2, <3>1, <3>3 DEF DInv, RowsSoFar
    <3> QED
      BY <1>2, <3>1, <3>2, <3>3
  <2> QED
    BY <2>1, <2>2
<1>11. ZeroMeansStored'
  BY <1>1, StoredStays, SameStatements DEF ZeroMeansStored
<1> QED
  BY <1>5, <1>6, <1>7, <1>8, <1>9, <1>10, <1>11 DEF DInv

(* An attempt is given its result, and stays what it was.                  *)
LEMMA ResultChanges ==
    ASSUME attempts \in Seq(Attempt), NEW id \in DOMAIN attempts,
           NEW result \in {"ok", "failed", "died"},
           attempts' = [attempts EXCEPT ![id].ret = result]
    PROVE  /\ attempts' \in Seq(Attempt) /\ DOMAIN attempts' = DOMAIN attempts
           /\ attempts'[id].ret = result
           /\ \A j \in DOMAIN attempts : /\ attempts'[j].packet = attempts[j].packet
                                         /\ j # id => attempts'[j] = attempts[j]
<1> DEFINE a == [packet |-> attempts[id].packet, ret |-> result]
<1>1. attempts[id] \in Attempt
  OBVIOUS
<1>2. [attempts[id] EXCEPT !.ret = result] = a /\ a \in Attempt
  BY <1>1 DEF Attempt
<1>3. attempts' = [attempts EXCEPT ![id] = a]
  BY <1>2
<1> HIDE DEF a
<1>4. /\ attempts' \in Seq(Attempt) /\ DOMAIN attempts' = DOMAIN attempts
      /\ attempts'[id] = a /\ \A j \in DOMAIN attempts : j # id => attempts'[j] = attempts[j]
  BY <1>2, <1>3
<1> QED
  BY <1>4 DEF a

(* The attempt returns: 0 only if it stored everything.                    *)
LEMMA EndsKeeps ==
    ASSUME DInv, NEW p \in Handles, Ends(p)
    PROVE  DInv'
<1> DEFINE id == hs[p].id
<1>1. /\ OnlyHandle(p) /\ OnlyOwnFile(p) /\ Busy(p) /\ Resting(hs'[p])
      /\ type' = type /\ db \subseteq db' /\ lost' = lost
  BY DEF Ends
<1>2. PICK result \in {"ok", "failed", "died"} :
         /\ attempts' = [attempts EXCEPT ![id].ret = result]
         /\ result = "ok" /\ ~Creates(id) =>
               IF type = "sqldir"
               THEN \E name \in DOMAIN files' :
                        files'[name].of = id /\ Intact(id) \subseteq files'[name].holds
               ELSE \A i \in Intact(id) : <<id, i>> \in db'
  BY DEF Ends
<1>3. id \in DOMAIN attempts /\ id \in Nat /\ DOMAIN attempts = 1 .. Len(attempts)
  BY <1>1 DEF DInv, Shapes, HandleRec, Occupied, AtWork
<1>4. /\ attempts' \in Seq(Attempt) /\ DOMAIN attempts' = DOMAIN attempts
      /\ attempts'[id].ret = result
      /\ \A j \in DOMAIN attempts : /\ attempts'[j].packet = attempts[j].packet
                                    /\ j # id => attempts'[j] = attempts[j]
  BY <1>2, <1>3, ResultChanges DEF DInv, Shapes
<1>5. Length(id) \in Nat
  <2>1. attempts[id] \in Attempt
    BY <1>3 DEF DInv, Shapes
  <2> QED
    BY <2>1, LengthIsNat DEF Attempt
<1>6. \A row \in db' \ db : \E i \in 1 .. Length(id) : row = <<id, i>>
  BY DEF Ends
<1>7. Shapes'
  BY <1>1, <1>3, <1>4, <1>5, <1>6 DEF DInv, Shapes, OnlyHandle, OnlyOwnFile
<1>8. \A q \in Handles : Busy(q)' => q # p /\ Busy(q) /\ hs'[q] = hs[q] /\ hs[q].id # id
  BY <1>1, RestingIsNotBusy DEF Busy, OnlyHandle, DInv, OwnAttempt
<1>9. Occupied'
  <2> SUFFICES ASSUME NEW q \in Handles
               PROVE  IF Busy(q)' THEN AtWork(q)' ELSE Resting(hs'[q])
    BY DEF Occupied
  <2>1. CASE q = p
    BY <1>1, <1>8, <2>1
  <2>2. CASE q # p /\ Busy(q)
    <3>1. hs[q].id \in DOMAIN attempts /\ attempts[hs[q].id].ret = "none"
      BY <2>2 DEF DInv, Occupied, AtWork
    <3>2. hs'[q] = hs[q] /\ Busy(q)' /\ hs[q].id # id
      BY <1>1, <2>2 DEF OnlyHandle, Busy, DInv, OwnAttempt
    <3> QED
      BY <1>1, <1>4, <2>2, <3>1, <3>2, OthersAtWork
  <2>3. CASE q # p /\ ~Busy(q)
    BY <1>1, <2>3 DEF DInv, Occupied, OnlyHandle, Busy
  <2> QED
    BY <2>1, <2>2, <2>3
<1>10. OwnAttempt'
  BY <1>8 DEF DInv, OwnAttempt
<1>11. RowsSoFar'
  <2> SUFFICES ASSUME NEW q \in Handles, Busy(q)', NEW i \in Nat
               PROVE  /\ <<hs'[q].id, i>> \in db' => hs'[q].pc = "exec" /\ i \in 1 .. hs'[q].at
                      /\ hs'[q].pc = "exec" /\ ~Creates(hs[q].id)' /\ i \in 1 .. hs'[q].at
                            => <<hs'[q].id, i>> \in db' \cup lost'
    BY DEF RowsSoFar
  <2>1. Busy(q) /\ hs'[q] = hs[q] /\ hs[q].id # id
    BY <1>8
  <2>2. <<hs[q].id, i>> \in db' <=> <<hs[q].id, i>> \in db
    BY <1>1, <1>6, <2>1
  <2>3. attempts'[hs[q].id] = attempts[hs[q].id]
    BY <1>4, <2>1 DEF DInv, Occupied, AtWork
  <2> QED
    BY <1>1, <2>1, <2>2, <2>3 DEF DInv, RowsSoFar, Creates
<1>12. RowsOfAttempts'
  BY <1>1, <1>3, <1>4, <1>6 DEF DInv, RowsOfAttempts
<1>13. NoHoles'
  <2> SUFFICES ASSUME NEW row \in db', NEW i \in 1 .. row[2]
               PROVE  <<row[1], i>> \in db' \cup lost'
    BY DEF NoHoles
  <2>1. CASE row \in db
    BY <1>1, <2>1 DEF DInv, NoHoles
  <2>2. CASE row \notin db
    <3>1. PICK last \in 1 .. Length(id) : row = <<id, last>>
      BY <1>6, <2>2
    <3>2. PICK found \in SUBSET (1 .. Length(id)) :
             Intact(id) \subseteq found /\ db' = db \cup {<<id, j>> : j \in found}
      BY <2>2 DEF Ends
    <3>3. row[1] = id /\ i \in 1 .. Length(id)
      BY <1>5, <3>1
    <3>4. CASE i \in found
      BY <3>2, <3>3, <3>4
    <3>5. CASE i \notin found
      BY <1>1, <3>2, <3>3, <3>5 DEF Intact
    <3> QED
      BY <3>4, <3>5
  <2> QED
    BY <2>1, <2>2
<1>14. ZeroMeansStored'
  <2> SUFFICES ASSUME NEW j \in DOMAIN attempts', attempts'[j].ret = "ok", ~Creates(j)'
               PROVE  Stored(j)'
    BY DEF ZeroMeansStored
  <2>1. CASE j # id
    BY <1>1, <1>4, <2>1, StoredStays, SameStatements
  <2>2. CASE j = id
    <3>1. Intact(j)' \subseteq Intact(j) /\ ~Creates(j)
      BY <1>1, <1>3, <1>4, <2>2, SameStatements, IntactShrinks
    <3> QED
      BY <1>1, <1>2, <1>4, <2>2, <3>1 DEF Stored
  <2> QED
    BY <2>1, <2>2
<1> QED
  BY <1>7, <1>9, <1>10, <1>11, <1>12, <1>13, <1>14 DEF DInv

-----------------------------------------------------------------------------
(* The handle of p is replaced by a record; the others stay.               *)
LEMMA HandleReplaced ==
    ASSUME Shapes, NEW p \in Handles, NEW rec \in HandleRec,
           hs' = [hs EXCEPT ![p] = rec]
    PROVE  OnlyHandle(p) /\ hs'[p] = rec
BY DEF Shapes, OnlyHandle

(* The records of a handle that returns, that has lost its server, and     *)
(* that was opened.                                                        *)
LEMMA ReturnedRec ==
    ASSUME NEW r \in HandleRec, NEW ret \in Int, NEW rec,
           rec = [r EXCEPT !.state = "DB_READY", !.pc = "idle",
                           !.id = 0, !.at = 0, !.name = 0, !.ret = ret]
    PROVE  rec \in HandleRec /\ Resting(rec)
<1>1. /\ rec.state = "DB_READY" /\ rec.pc = "idle" /\ rec.id = 0
      /\ rec.at = 0 /\ rec.name = 0
      /\ rec.linked = r.linked /\ rec.ret = ret
  BY DEF HandleRec
<1>2. rec = [x \in {"state", "pc", "id", "at", "name", "linked", "ret"} |-> rec[x]]
  BY DEF HandleRec
<1> QED
  BY <1>1, <1>2 DEF HandleRec, Resting

LEMMA LostRec ==
    ASSUME NEW r \in HandleRec, NEW rec,
           rec = [r EXCEPT !.state = "DB_READY", !.pc = "idle", !.id = 0, !.at = 0,
                           !.name = 0, !.ret = -1, !.linked = FALSE]
    PROVE  rec \in HandleRec /\ Resting(rec)
<1>1. /\ rec.state = "DB_READY" /\ rec.pc = "idle" /\ rec.id = 0
      /\ rec.at = 0 /\ rec.name = 0
      /\ rec.linked \in BOOLEAN /\ rec.ret \in Int
  BY DEF HandleRec
<1>2. rec = [x \in {"state", "pc", "id", "at", "name", "linked", "ret"} |-> rec[x]]
  BY DEF HandleRec
<1> QED
  BY <1>1, <1>2 DEF HandleRec, Resting

LEMMA OpenedRec ==
    ASSUME NEW r \in HandleRec, r.id = 0, NEW place \in {"init", "idle"}, NEW rec,
           rec = [r EXCEPT !.state = "DB_READY", !.linked = TRUE, !.pc = place]
    PROVE  rec \in HandleRec /\ Resting(rec)
<1>1. /\ rec.state = "DB_READY" /\ rec.pc = place /\ rec.id = 0
      /\ rec.at = r.at /\ rec.name = r.name
      /\ rec.linked \in BOOLEAN /\ rec.ret = r.ret
  BY DEF HandleRec
<1>2. rec = [x \in {"state", "pc", "id", "at", "name", "linked", "ret"} |-> rec[x]]
  BY DEF HandleRec
<1>3. rec.pc \in {"init", "idle"}
  BY <1>1
<1>4. rec \in HandleRec
  BY <1>1, <1>2, <1>3 DEF HandleRec
<1>5. Resting(rec)
  BY <1>1, <1>3 DEF Resting
<1> QED
  BY <1>4, <1>5

(* A file that is not touched.                                             *)
LEMMA SameFiles ==
    ASSUME Shapes, NEW p \in Handles, UNCHANGED files
    PROVE  OnlyOwnFile(p)
BY DEF Shapes, OnlyOwnFile

(* A file is created under a name that was free.                           *)
LEMMA FileCreated ==
    ASSUME Shapes, NEW p \in Handles, NEW name, name \notin DOMAIN files,
           NEW id \in Nat, files' = FileAdded(name, id)
    PROVE  OnlyOwnFile(p) /\ name \in DOMAIN files' /\ files'[name].of = id
<1> DEFINE file == [of |-> id, holds |-> {}]
<1>1. file \in File /\ file.of = id
  BY DEF File
<1>2. files' = [n \in DOMAIN files \cup {name} |-> IF n = name THEN file ELSE files[n]]
  BY DEF FileAdded
<1> HIDE DEF file
<1> QED
  BY <1>1, <1>2 DEF Shapes, OnlyOwnFile

(* The attempt's own file is given some of what was printed.               *)
LEMMA FileGrows ==
    ASSUME Shapes, NEW p \in Handles, Busy(p), AtWork(p), type = "sqldir",
           NEW upto \in Nat, Written(p, upto)
    PROVE  /\ OnlyOwnFile(p) /\ hs[p].name \in DOMAIN files'
           /\ DOMAIN files' = DOMAIN files
           /\ \A name \in DOMAIN files \ {hs[p].name} : files'[name] = files[name]
           /\ files'[hs[p].name].of = hs[p].id
           /\ files'[hs[p].name].holds =
                  files[hs[p].name].holds \cup {i \in Buffered(p) : i <= upto}
<1> DEFINE name == hs[p].name
           more == files[name].holds \cup {i \in Buffered(p) : i <= upto}
           file == [of |-> hs[p].id, holds |-> more]
<1>1. name \in DOMAIN files /\ files[name] \in File /\ files[name].of = hs[p].id
  BY DEF Shapes, AtWork
<1>2. hs[p].at \in Nat /\ hs[p].id \in Nat
  BY DEF Shapes, HandleRec
<1>3. more \in SUBSET Nat
  BY <1>1, <1>2 DEF File, Buffered
<1>4. files' = [files EXCEPT ![name] = [files[name] EXCEPT !.holds = more]]
  BY DEF Written
<1> HIDE DEF more
<1>5. [files[name] EXCEPT !.holds = more] = file /\ file \in File
  BY <1>1, <1>2, <1>3 DEF File
<1>6. files' = [files EXCEPT ![name] = file]
  BY <1>4, <1>5
<1>7. file.of = files[name].of /\ file.holds = more
  BY <1>1
<1> HIDE DEF file, name
<1>8. /\ DOMAIN files' = DOMAIN files /\ files'[name] = file
      /\ \A n \in DOMAIN files \ {name} : files'[n] = files[n]
      /\ files' \in [DOMAIN files' -> File]
  BY <1>1, <1>5, <1>6, ZenonT(30) DEF Shapes
<1>9. OnlyOwnFile(p)
  BY <1>1, <1>7, <1>8 DEF OnlyOwnFile, name
<1> QED
  BY <1>1, <1>7, <1>8, <1>9 DEF name, more

LEMMA ClosedRests == Closed \in HandleRec /\ Resting(Closed)
BY DEF Closed, HandleRec, Resting

(* Calls that begin no stream.                                             *)
LEMMA RestsSteps ==
    ASSUME DInv, NEW p \in Handles, UNCHANGED type,
           \/ Open(p) \/ Close(p) \/ InitCrashes(p) \/ (Dies(p) /\ ~Busy(p))
           \/ \E packet \in Packets : InsertRefused(p, packet)
                                      \/ InsertWithoutStream(p, packet)
    PROVE  Rests(p)
<1>1. Shapes /\ hs[p] \in HandleRec /\ (~Busy(p) => Resting(hs[p]))
  BY DEF DInv, Shapes, Occupied
<1>2. ASSUME NoStream(p) PROVE OnlyOwnFile(p)
  <2>1. ASSUME NEW name \in Names \ DOMAIN files,
               files' = FileAdded(name, 0)
        PROVE  OnlyOwnFile(p)
    BY <1>1, <2>1, FileCreated
  <2> QED
    BY <1>1, <1>2, <2>1, SameFiles DEF NoStream
<1>3. CASE Open(p)
  <2>1. PICK flag \in Flags :
          hs' = [hs EXCEPT ![p] = [Closed EXCEPT
                       !.state = "DB_READY", !.linked = TRUE,
                       !.pc = IF flag THEN "init" ELSE "idle"]]
    BY <1>3 DEF Open
  <2> DEFINE place == IF flag THEN "init" ELSE "idle"
  <2>2. PICK rec : rec = [Closed EXCEPT !.state = "DB_READY", !.linked = TRUE,
                                        !.pc = place]
    OBVIOUS
  <2>3. rec \in HandleRec /\ Resting(rec)
    <3>1. place \in {"init", "idle"}
      BY Zenon
    <3>2. Closed.id = 0
      BY DEF Closed
    <3> HIDE DEF place
    <3> QED
      BY <2>2, <3>1, <3>2, ClosedRests, OpenedRec, Zenon
  <2>4. OnlyHandle(p) /\ hs'[p] = rec
    BY <1>1, <2>1, <2>2, <2>3, HandleReplaced, Zenon
  <2> QED
    BY <1>1, <1>3, <2>3, <2>4, SameFiles DEF Open, Rests, Busy
<1>4. CASE Close(p)
  <2>1. OnlyHandle(p) /\ hs'[p] = Closed
    BY <1>1, <1>4, ClosedRests, HandleReplaced DEF Close
  <2> QED
    BY <1>1, <1>4, <2>1, ClosedRests, SameFiles DEF Close, Rests, Busy
<1>5. CASE InitCrashes(p)
  <2>1. OnlyHandle(p) /\ hs'[p] = Closed
    BY <1>1, <1>5, ClosedRests, HandleReplaced DEF InitCrashes
  <2> QED
    BY <1>2, <1>5, <2>1, ClosedRests DEF InitCrashes, Rests, Busy
<1>6. CASE Dies(p) /\ ~Busy(p)
  <2>1. OnlyHandle(p) /\ hs'[p] = Closed
    BY <1>1, <1>6, ClosedRests, HandleReplaced DEF Dies
  <2>2. hs[p].id = 0
    BY <1>1, <1>6 DEF Resting
  <2> QED
    BY <1>1, <1>6, <2>1, <2>2, ClosedRests, SameFiles DEF Dies, Rests
<1> DEFINE refused == [hs[p] EXCEPT !.ret = -1]
<1>7. ASSUME hs[p].pc = "idle"
      PROVE  refused \in HandleRec /\ Resting(refused) /\ ~Busy(p)
  BY <1>1, <1>7 DEF HandleRec, Resting, Busy
<1> HIDE DEF refused
<1>8. ASSUME NEW packet \in Packets, InsertRefused(p, packet)
      PROVE  Rests(p)
  <2>1. hs' = [hs EXCEPT ![p] = refused]
    BY <1>8 DEF InsertRefused, refused
  <2>2. OnlyHandle(p) /\ hs'[p] = refused
    BY <1>1, <1>7, <1>8, <2>1, HandleReplaced DEF InsertRefused
  <2> QED
    BY <1>1, <1>7, <1>8, <2>2, SameFiles DEF InsertRefused, Rests
<1>9. ASSUME NEW packet \in Packets, InsertWithoutStream(p, packet)
      PROVE  Rests(p)
  <2>1. \/ hs' = [hs EXCEPT ![p] = refused]
        \/ hs' = [hs EXCEPT ![p] = Closed]
    BY <1>9 DEF InsertWithoutStream, refused
  <2>2. OnlyHandle(p) /\ Resting(hs'[p])
    BY <1>1, <1>7, <1>9, <2>1, ClosedRests, HandleReplaced DEF InsertWithoutStream
  <2> QED
    BY <1>2, <1>7, <1>9, <2>2 DEF InsertWithoutStream, Rests
<1> QED
  BY <1>3, <1>4, <1>5, <1>6, <1>8, <1>9

(* begin_sql_stream.                                                       *)
LEMMA BeginsSteps ==
    ASSUME DInv, NEW p \in Handles, UNCHANGED type, hs[p].pc \in {"idle", "init"},
           NEW packet \in Packets \cup {Initialising}, BeginStream(p, packet)
    PROVE  Begins(p)
<1>1. Shapes /\ hs[p] \in HandleRec /\ ~Busy(p) /\ Len(attempts) \in Nat
  BY DEF DInv, Shapes, Busy
<1> DEFINE a == [packet |-> packet, ret |-> "none"]
<1>2. a \in Attempt /\ a.ret = "none" /\ attempts' = Append(attempts, a)
  BY DEF BeginStream, Attempt
<1>3. PICK name \in IF type = "sqldir" THEN Names \ DOMAIN files ELSE {0} :
          /\ hs' = [hs EXCEPT ![p] = [@ EXCEPT
                        !.state = "DB_BEGUN", !.pc = "printing",
                        !.id = Len(attempts) + 1, !.at = 0, !.name = name]]
          /\ files' = IF name = 0 THEN files ELSE FileAdded(name, Len(attempts) + 1)
  BY DEF BeginStream
<1>9. PICK id \in Nat : id = Len(attempts) + 1
  BY <1>1
<1>10. PICK rec : rec = [hs[p] EXCEPT !.state = "DB_BEGUN", !.pc = "printing",
                                      !.id = id, !.at = 0, !.name = name]
  OBVIOUS
<1>4. /\ rec \in HandleRec /\ rec.state = "DB_BEGUN" /\ rec.pc = "printing"
      /\ rec.id = Len(attempts) + 1 /\ rec.name = name /\ Len(attempts) + 1 \in Nat
  <2>1. name \in Names \cup {0} /\ hs[p] \in HandleRec /\ id \in Nat
    BY <1>1, <1>3
  <2>2. /\ rec.state = "DB_BEGUN" /\ rec.pc = "printing" /\ rec.id = id
        /\ rec.at = 0 /\ rec.name = name
        /\ rec.linked = hs[p].linked /\ rec.ret = hs[p].ret
    BY <1>10, <2>1 DEF HandleRec
  <2>3. rec = [x \in {"state", "pc", "id", "at", "name", "linked", "ret"} |-> rec[x]]
    BY <1>10, <2>1 DEF HandleRec
  <2>4. rec \in HandleRec
    BY <2>1, <2>2, <2>3 DEF HandleRec
  <2> QED
    BY <1>9, <2>2, <2>4
<1>5. hs' = [hs EXCEPT ![p] = rec]
  BY <1>3, <1>9, <1>10, Zenon
<1>6. OnlyHandle(p) /\ hs'[p] = rec
  BY <1>1, <1>4, <1>5, HandleReplaced
<1>7. CASE type = "sqldir"
  <2>1. name # 0 /\ name \notin DOMAIN files
    BY <1>3, <1>7, DbAssumption
  <2>2. OnlyOwnFile(p) /\ name \in DOMAIN files' /\ files'[name].of = Len(attempts) + 1
    BY <1>1, <1>3, <1>4, <2>1, FileCreated
  <2> QED
    BY <1>1, <1>2, <1>4, <1>6, <1>7, <2>2 DEF Begins, BeginStream
<1>8. CASE type # "sqldir"
  <2>1. OnlyOwnFile(p)
    BY <1>1, <1>3, <1>8, SameFiles
  <2> QED
    BY <1>1, <1>2, <1>4, <1>6, <1>8, <2>1 DEF Begins, BeginStream
<1> QED
  BY <1>7, <1>8

(* What a failed flush drops was printed.                                  *)
LEMMA FlushDrops ==
    ASSUME NEW p \in Handles, FlushFails(p)
    PROVE  /\ lost \subseteq lost'
           /\ \A row \in lost' \ lost : \E i \in 1 .. hs[p].at : row = <<hs[p].id, i>>
<1>1. PICK upto \in 0 .. hs[p].at - 1 :
         lost' = lost \cup {<<hs[p].id, i>> : i \in {j \in Buffered(p) : j > upto}}
  BY DEF FlushFails
<1>2. Buffered(p) \subseteq 1 .. hs[p].at
  BY DEF Buffered
<1> HIDE DEF Buffered
<1> QED
  BY <1>1, <1>2, Zenon

(* Printing, flushing, and sqlite3_exec from one statement to the next.    *)
LEMMA WorksSteps ==
    ASSUME DInv, NEW p \in Handles, UNCHANGED type,
           \/ PrintStatement(p) \/ PrintFails(p) \/ FlushFile(p) \/ FlushFails(p)
           \/ CommitSqlite(p) \/ ExecStatement(p) \/ ExecFindsNothing(p)
    PROVE  Works(p)
<1>1. Shapes /\ hs[p] \in HandleRec /\ (Busy(p) => AtWork(p))
  BY DEF DInv, Shapes, Occupied
<1>2. ASSUME NEW rec, rec = [hs[p] EXCEPT !.at = hs[p].at + 1]
      PROVE  /\ rec \in HandleRec /\ rec.at = hs[p].at + 1
             /\ rec.id = hs[p].id /\ rec.name = hs[p].name
             /\ rec.state = hs[p].state /\ rec.pc = hs[p].pc
  BY <1>1, <1>2 DEF HandleRec
<1>3. PICK next : next = [hs[p] EXCEPT !.at = hs[p].at + 1]
  OBVIOUS
<1>8. Busy(p) => hs[p].at \in Nat /\ hs[p].id \in Nat
  BY <1>1 DEF HandleRec
<1>4. CASE PrintStatement(p) \/ PrintFails(p)
  <2>1. hs' = [hs EXCEPT ![p] = next] /\ hs[p].pc = "printing"
    BY <1>3, <1>4 DEF PrintStatement, PrintFails
  <2>2. OnlyHandle(p) /\ hs'[p] = next
    BY <1>1, <1>2, <1>3, <2>1, HandleReplaced
  <2>3. /\ lost \subseteq lost'
        /\ \A row \in lost' \ lost : row = <<hs[p].id, hs[p].at + 1>>
    BY <1>4 DEF PrintStatement, PrintFails
  <2>6. /\ hs[p].at \in Nat /\ hs[p].id \in Nat /\ Length(hs[p].id) \in Nat
        /\ hs[p].at < Length(hs[p].id)
    <3>1. attempts[hs[p].id] \in Attempt
      BY <1>1, <2>1 DEF Shapes, AtWork, Busy
    <3> QED
      BY <1>4, <1>8, <2>1, <3>1, LengthIsNat DEF PrintStatement, PrintFails, Busy, Attempt
  <2>4. \A row \in lost' \ lost : /\ row[1] = hs[p].id /\ row \in Nat \X Nat
                                   /\ row[2] \in 1 .. Length(hs[p].id)
    BY <2>3, <2>6
  <2>5. UNCHANGED <<attempts, db, files>>
    BY <1>4 DEF PrintStatement, PrintFails
  <2> QED
    BY <1>1, <1>2, <1>3, <2>1, <2>2, <2>3, <2>4, <2>5, SameFiles DEF Works, Busy, AtWork
<1>5. CASE FlushFile(p) \/ FlushFails(p)
  <2>1. Busy(p) /\ OnlyHandle(p) /\ type = "sqldir" /\ UNCHANGED <<hs, attempts, db>>
    BY <1>1, <1>5 DEF FlushFile, FlushFails, Busy, Shapes, OnlyHandle
  <2>2. \E upto \in Nat : Written(p, upto)
    BY <1>5, <1>8, <2>1 DEF FlushFile, FlushFails
  <2>3. OnlyOwnFile(p)
    BY <1>1, <2>1, <2>2, FileGrows
  <2>4. lost \subseteq lost' /\ \A row \in lost' \ lost : row[1] = hs[p].id /\ row \in Nat \X Nat
    <3>1. CASE FlushFails(p)
      BY <1>8, <2>1, <3>1, FlushDrops
    <3> QED
      BY <1>5, <3>1 DEF FlushFile
  <2> QED
    BY <1>1, <1>5, <2>1, <2>3, <2>4 DEF FlushFile, FlushFails, Works, AtWork
<1>6. CASE CommitSqlite(p)
  <2>1. PICK rec : rec = [hs[p] EXCEPT !.pc = "exec", !.at = 0]
    OBVIOUS
  <2>2. /\ rec \in HandleRec /\ rec.at = 0 /\ rec.pc = "exec"
        /\ rec.id = hs[p].id /\ rec.name = hs[p].name /\ rec.state = hs[p].state
    BY <1>1, <2>1 DEF HandleRec
  <2>3. hs' = [hs EXCEPT ![p] = rec]
    BY <1>6, <2>1, Zenon DEF CommitSqlite
  <2>4. OnlyHandle(p) /\ hs'[p] = rec
    BY <1>1, <2>2, <2>3, HandleReplaced
  <2> QED
    BY <1>1, <1>6, <2>2, <2>4, SameFiles
    DEF CommitSqlite, Printed, Works, Busy, AtWork
<1>7. CASE ExecStatement(p) \/ ExecFindsNothing(p)
  <2>1. hs' = [hs EXCEPT ![p] = next] /\ hs[p].pc = "exec"
    BY <1>3, <1>7 DEF ExecStatement, ExecFindsNothing
  <2>2. OnlyHandle(p) /\ hs'[p] = next
    BY <1>1, <1>2, <1>3, <2>1, HandleReplaced
  <2>3. \/ <<hs[p].id, hs[p].at + 1>> \in lost /\ UNCHANGED db
        \/ db' = IF Creates(hs[p].id) THEN db
                 ELSE db \cup {<<hs[p].id, hs[p].at + 1>>}
    BY <1>7 DEF ExecStatement, ExecFindsNothing, Effect
  <2>4. UNCHANGED <<attempts, files, lost>>
    BY <1>7 DEF ExecStatement, ExecFindsNothing
  <2> QED
    BY <1>1, <1>2, <1>3, <2>1, <2>2, <2>3, <2>4, SameFiles DEF Works, Busy, AtWork
<1> QED
  BY <1>4, <1>5, <1>6, <1>7

(* The way out of commit_sql_stream.                                       *)
LEMMA Returns ==
    ASSUME Shapes, NEW p \in Handles, NEW ret \in Int, Return(p, ret)
    PROVE  /\ OnlyHandle(p) /\ Resting(hs'[p])
           /\ attempts' = [attempts EXCEPT ![hs[p].id].ret =
                               IF ret = 0 THEN "ok" ELSE "failed"]
<1>1. PICK rec : rec = [hs[p] EXCEPT !.state = "DB_READY", !.pc = "idle",
                                     !.id = 0, !.at = 0, !.name = 0, !.ret = ret]
  OBVIOUS
<1>2. hs[p] \in HandleRec
  BY DEF Shapes
<1>3. rec \in HandleRec /\ Resting(rec)
  BY <1>1, <1>2, ReturnedRec, Zenon
<1>4. hs' = [hs EXCEPT ![p] = rec]
  BY <1>1, Zenon DEF Return
<1>5. OnlyHandle(p) /\ hs'[p] = rec
  BY <1>3, <1>4, HandleReplaced
<1> QED
  BY <1>3, <1>5 DEF Return

(* Every way an attempt ends.                                              *)
LEMMA EndsSteps ==
    ASSUME DInv, NEW p \in Handles, UNCHANGED type,
           \/ Dies(p) /\ Busy(p)
           \/ CommitFile(p) \/ CommitPgsql(p) \/ LosesServer(p)
           \/ ExecFails(p) \/ ExecDone(p)
    PROVE  Ends(p)
<1>1. Shapes /\ hs[p] \in HandleRec /\ (Busy(p) => AtWork(p))
  BY DEF DInv, Shapes, Occupied
<1>2. CASE Dies(p) /\ Busy(p)
  <2>1. hs[p].id # 0
    BY <1>1, <1>2 DEF AtWork, Shapes
  <2>2. OnlyHandle(p) /\ Resting(hs'[p])
    BY <1>1, <1>2, ClosedRests, HandleReplaced DEF Dies
  <2> QED
    BY <1>1, <1>2, <2>1, <2>2, SameFiles DEF Dies, Ends
<1>3. CASE CommitFile(p)
  <2>1. Busy(p) /\ type = "sqldir" /\ hs[p].at = Length(hs[p].id) /\ UNCHANGED db
    BY <1>3 DEF CommitFile, Printed, Busy
  <2>4. hs[p].at \in Nat
    BY <1>1 DEF HandleRec
  <2>2. CASE Written(p, hs[p].at) /\ Return(p, 0)
    <3>1. /\ OnlyOwnFile(p) /\ hs[p].name \in DOMAIN files'
          /\ files'[hs[p].name].of = hs[p].id
          /\ files'[hs[p].name].holds =
                files[hs[p].name].holds \cup {i \in Buffered(p) : i <= hs[p].at}
      BY <1>1, <2>1, <2>2, <2>4, FileGrows
    <3>3. Intact(hs[p].id) \subseteq files'[hs[p].name].holds
      BY <2>1, <2>4, <3>1 DEF Intact, Buffered
    <3>2. /\ OnlyHandle(p) /\ Resting(hs'[p])
          /\ attempts' = [attempts EXCEPT ![hs[p].id].ret = "ok"]
      BY <1>1, <2>2, Returns
    <3> QED
      BY <1>3, <2>1, <3>1, <3>2, <3>3 DEF Ends, CommitFile
  <2>3. CASE Return(p, -1) /\ \E upto \in 0 .. hs[p].at : Written(p, upto)
    <3>2. OnlyOwnFile(p)
      BY <1>1, <2>1, <2>3, <2>4, FileGrows
    <3>1. /\ OnlyHandle(p) /\ Resting(hs'[p])
          /\ attempts' = [attempts EXCEPT ![hs[p].id].ret = "failed"]
      BY <1>1, <2>3, Returns
    <3> QED
      BY <1>1, <1>3, <2>1, <2>3, <3>1, <3>2 DEF Ends, CommitFile
  <2> QED
    BY <1>3, <2>2, <2>3 DEF CommitFile
<1>8. ASSUME NEW found \in Found(hs[p].id), Effect(hs[p].id, found)
      PROVE  \/ UNCHANGED db
             \/ /\ ~Creates(hs[p].id)
                /\ found \in SUBSET (1 .. Length(hs[p].id))
                /\ Intact(hs[p].id) \subseteq found
                /\ db' = db \cup {<<hs[p].id, i>> : i \in found}
  BY <1>8 DEF Effect, Found, Intact
<1>9. ASSUME ~Creates(hs[p].id), NEW found \in Found(hs[p].id), Effect(hs[p].id, found)
      PROVE  \A i \in Intact(hs[p].id) : <<hs[p].id, i>> \in db'
  BY <1>9 DEF Effect, Found
<1>4. CASE CommitPgsql(p)
  <2>1. Busy(p) /\ type = "pgsql" /\ UNCHANGED <<files, lost>>
    BY <1>4 DEF CommitPgsql, Printed, Busy
  <2>2. ASSUME NEW found \in Found(hs[p].id), Effect(hs[p].id, found), Return(p, 0)
        PROVE  Ends(p)
    <3>1. /\ OnlyHandle(p) /\ Resting(hs'[p])
          /\ attempts' = [attempts EXCEPT ![hs[p].id].ret = "ok"]
      BY <1>1, <2>2, Returns
    <3> QED
      BY <1>1, <1>8, <1>9, <2>1, <2>2, <3>1, SameFiles DEF Ends
  <2>3. CASE Return(p, -1) /\ UNCHANGED db
    <3>1. /\ OnlyHandle(p) /\ Resting(hs'[p])
          /\ attempts' = [attempts EXCEPT ![hs[p].id].ret = "failed"]
      BY <1>1, <2>3, Returns
    <3> QED
      BY <1>1, <2>1, <2>3, <3>1, SameFiles DEF Ends
  <2> QED
    BY <1>4, <2>2, <2>3 DEF CommitPgsql
<1>5. CASE LosesServer(p)
  <2>1. Busy(p) /\ UNCHANGED <<files, lost>>
    BY <1>5 DEF LosesServer, Printed, Busy
  <2>2. PICK rec : rec = [hs[p] EXCEPT !.state = "DB_READY", !.pc = "idle", !.id = 0,
                              !.at = 0, !.name = 0, !.ret = -1, !.linked = FALSE]
    OBVIOUS
  <2>3. rec \in HandleRec /\ Resting(rec)
    BY <1>1, <2>2, LostRec, Zenon
  <2>4. hs' = [hs EXCEPT ![p] = rec]
    BY <1>5, <2>2, Zenon DEF LosesServer
  <2>5. OnlyHandle(p) /\ Resting(hs'[p])
    BY <1>1, <2>3, <2>4, HandleReplaced
  <2>6. \/ UNCHANGED db
        \/ /\ ~Creates(hs[p].id)
           /\ \E found \in SUBSET (1 .. Length(hs[p].id)) :
                 /\ Intact(hs[p].id) \subseteq found
                 /\ db' = db \cup {<<hs[p].id, i>> : i \in found}
    BY <1>5, <1>8 DEF LosesServer
  <2>7. attempts' = [attempts EXCEPT ![hs[p].id].ret = "failed"]
    BY <1>5 DEF LosesServer
  <2> QED
    BY <1>1, <2>1, <2>5, <2>6, <2>7, SameFiles DEF Ends
<1>6. CASE ExecFails(p)
  <2>1. /\ OnlyHandle(p) /\ Resting(hs'[p])
        /\ attempts' = [attempts EXCEPT ![hs[p].id].ret = "failed"]
    BY <1>1, <1>6, Returns DEF ExecFails
  <2> QED
    BY <1>1, <1>6, <2>1, SameFiles DEF ExecFails, Ends, Busy
<1>7. CASE ExecDone(p)
  <2>1. /\ OnlyHandle(p) /\ Resting(hs'[p])
        /\ attempts' = [attempts EXCEPT ![hs[p].id].ret = "ok"]
    BY <1>1, <1>7, Returns DEF ExecDone
  <2>2. Busy(p) /\ type = "sqlite" /\ UNCHANGED <<db, files, lost>>
    BY <1>1, <1>7 DEF ExecDone, Busy, AtWork
  <2>3. ~Creates(hs[p].id) => \A i \in Intact(hs[p].id) : <<hs[p].id, i>> \in db
    BY <1>7, <2>2 DEF ExecDone, DInv, RowsSoFar, Intact
  <2> QED
    BY <1>1, <2>1, <2>2, <2>3, SameFiles DEF Ends
<1> QED
  BY <1>2, <1>3, <1>4, <1>5, <1>6, <1>7

-----------------------------------------------------------------------------

(* Every step is of one of the four kinds.                                 *)
LEMMA StepKinds ==
    ASSUME DInv, NEW p \in Handles, UNCHANGED type, Step(p)
    PROVE  Rests(p) \/ Begins(p) \/ Works(p) \/ Ends(p)
<1>1. CASE InitBegins(p)
  BY <1>1, BeginsSteps DEF InitBegins
<1>2. ASSUME NEW packet \in Packets, Insert(p, packet)
      PROVE  Begins(p)
  BY <1>2, BeginsSteps DEF Insert
<1> QED
  BY <1>1, <1>2, RestsSteps, WorksSteps, EndsSteps DEF Step, Commit

LEMMA DInvInductive == DInv /\ [Next]_vars => DInv'
<1> SUFFICES ASSUME DInv, [Next]_vars PROVE DInv'
  OBVIOUS
<1>1. ASSUME NEW p \in Handles, UNCHANGED type, Step(p)
      PROVE  DInv'
  BY <1>1, StepKinds, RestsKeeps, BeginsKeeps, WorksKeeps, EndsKeeps
<1>2. CASE UNCHANGED vars
  BY <1>2 DEF vars, DInv, Shapes, Occupied, Busy, AtWork, OwnAttempt, RowsSoFar,
              Creates, RowsOfAttempts, NoHoles, ZeroMeansStored, Stored, Intact, Length,
              StatementsOf
<1> QED
  BY <1>1, <1>2 DEF Next

(* DInv holds whatever is begun, fails or dies in any number of processes. *)
THEOREM DbInvariant == Spec => []DInv
BY Init_DInv, DInvInductive, PTL DEF Spec

(* A handle between two calls can begin the next one.                      *)
THEOREM DUsableBetweenCalls == Spec => []UsableBetweenCalls
<1>1. DInv => UsableBetweenCalls
  BY DEF DInv, Occupied, Busy, AtWork, Resting, Shapes, HandleRec, UsableBetweenCalls
<1> QED
  BY <1>1, DbInvariant, PTL

(* What returned 0 is stored, in the database or in its file, except what  *)
(* stdio dropped in a print or a flush whose error is not read.            *)
THEOREM DZeroMeansStored == Spec => []ZeroMeansStored
<1>1. DInv => ZeroMeansStored
  BY DEF DInv
<1> QED
  BY <1>1, DbInvariant, PTL

(* Of an attempt that stopped half way the database has the rows before    *)
(* the place where it stopped.                                             *)
THEOREM DNoHoles == Spec => []NoHoles
<1>1. DInv => NoHoles
  BY DEF DInv
<1> QED
  BY <1>1, DbInvariant, PTL

(* Nobody touches the file of an attempt that has returned: a step changes *)
(* the file of its own process only, whose attempt has not.                *)
THEOREM DFilesAreFinal == Spec => FilesAreFinal
<1> DEFINE Final ==
      \A name \in DOMAIN files :
          /\ name \in DOMAIN files'
          /\ files'[name].of = files[name].of
          /\ (files[name].of = 0 \/ attempts[files[name].of].ret # "none")
                => files'[name] = files[name]
<1>1. DInv /\ [Next]_vars => [Final]_vars
  <2> SUFFICES ASSUME DInv, Next PROVE Final
    BY DEF Final
  <2>1. PICK p \in Handles : UNCHANGED type /\ Step(p)
    BY DEF Next
  <2>2. OnlyOwnFile(p)
    BY <2>1, StepKinds DEF Rests, Begins, Works, Ends
  <2>3. Busy(p) => /\ hs[p].id # 0 /\ attempts[hs[p].id].ret = "none"
    BY DEF DInv, Occupied, AtWork, Shapes
  <2> QED
    BY <2>2, <2>3 DEF OnlyOwnFile
<1> QED
  BY <1>1, DbInvariant, PTL DEF Spec, FilesAreFinal

-----------------------------------------------------------------------------
(* With pgsql the handles implement AtomicStore.                           *)

OfferedRows == [id \in DOMAIN attempts |->
                    IF type # "pgsql" \/ Creates(id) THEN 0 ELSE Length(id)]
MissingRows == {row \in lost : type = "pgsql" /\ ~Creates(row[1])}
StoredRows == IF type = "pgsql" THEN db ELSE {}

(* What an attempt offers is settled when it is begun.                     *)
LEMMA SameOffer ==
    ASSUME UNCHANGED type, DOMAIN attempts' = DOMAIN attempts,
           \A id \in DOMAIN attempts : attempts'[id].packet = attempts[id].packet
    PROVE  OfferedRows' = OfferedRows
<1>1. \A id \in DOMAIN attempts : (Creates(id)' <=> Creates(id)) /\ Length(id)' = Length(id)
  BY SameStatements
<1> DEFINE rows(id) == IF type # "pgsql" \/ Creates(id) THEN 0 ELSE Length(id)
<1>2. \A id \in DOMAIN attempts : rows(id)' = rows(id)
  BY <1>1
<1>3. OfferedRows = [id \in DOMAIN attempts |-> rows(id)]
  BY DEF OfferedRows
<1>4. OfferedRows' = [id \in DOMAIN attempts' |-> rows(id)']
  BY DEF OfferedRows
<1> HIDE DEF rows
<1> QED
  BY <1>2, <1>3, <1>4

(* What was lost of attempts that stay what they were is as missing.       *)
LEMMA SameMissing ==
    ASSUME DInv, UNCHANGED <<type, lost>>,
           \A id \in DOMAIN attempts : attempts'[id].packet = attempts[id].packet
    PROVE  MissingRows' = MissingRows
<1>1. \A row \in lost : Creates(row[1])' <=> Creates(row[1])
  BY DEF DInv, RowsOfAttempts, Creates
<1> QED
  BY <1>1 DEF MissingRows

(* One more attempt is one more offer.                                     *)
LEMMA BeginsOffers ==
    ASSUME DInv, NEW p \in Handles, Begins(p)
    PROVE  /\ Len(OfferedRows') = Len(OfferedRows) + 1
           /\ SubSeq(OfferedRows', 1, Len(OfferedRows)) = OfferedRows
           /\ MissingRows' = MissingRows
           /\ StoredRows' = StoredRows
<1> DEFINE n == Len(attempts)
           rows(id) == IF type # "pgsql" \/ Creates(id) THEN 0 ELSE Length(id)
<1>1. /\ n \in Nat /\ DOMAIN attempts = 1 .. n /\ DOMAIN attempts' = 1 .. n + 1
      /\ \A id \in 1 .. n : attempts'[id] = attempts[id]
      /\ attempts' \in Seq(Attempt) /\ attempts \in Seq(Attempt)
      /\ UNCHANGED <<type, db, lost>>
  BY DEF Begins, DInv, Shapes
<1>2. \A id \in 1 .. n : (Creates(id)' <=> Creates(id)) /\ Length(id)' = Length(id)
  BY <1>1, SameStatements
<1>3. \A id \in 1 .. n : rows(id)' = rows(id)
  BY <1>1, <1>2
<1>4. OfferedRows = [id \in 1 .. n |-> rows(id)]
  BY <1>1 DEF OfferedRows
<1>5. OfferedRows' = [id \in 1 .. n + 1 |-> rows(id)']
  BY <1>1 DEF OfferedRows
<1> HIDE DEF rows
<1>6. /\ OfferedRows \in Seq({rows(id) : id \in 1 .. n}) /\ Len(OfferedRows) = n
      /\ OfferedRows' \in Seq({rows(id)' : id \in 1 .. n + 1}) /\ Len(OfferedRows') = n + 1
  BY <1>1, <1>4, <1>5
<1>7. SubSeq(OfferedRows', 1, n) = OfferedRows
  BY <1>1, <1>3, <1>4, <1>5, <1>6
<1>8. StoredRows' = StoredRows
  BY <1>1 DEF StoredRows
<1>9. MissingRows' = MissingRows
  BY <1>1, SameMissing
<1> QED
  BY <1>6, <1>7, <1>8, <1>9

(* An attempt that ends has stored all of its rows that are not missing,   *)
(* of which there were none, or nothing.                                   *)
LEMMA EndsStores ==
    ASSUME DInv, NEW p \in Handles, Ends(p)
    PROVE  /\ OfferedRows' = OfferedRows /\ MissingRows' = MissingRows
           /\ \/ StoredRows' = StoredRows
              \/ \E id \in DOMAIN OfferedRows :
                    LET new == {<<id, i>> : i \in 1 .. OfferedRows[id]}
                    IN  /\ new \cap StoredRows = {}
                        /\ StoredRows \cup (new \ MissingRows) \subseteq StoredRows'
                        /\ StoredRows' \subseteq StoredRows \cup new
<1> DEFINE id == hs[p].id
<1>1. id \in DOMAIN attempts /\ Busy(p) /\ AtWork(p) /\ UNCHANGED <<type, lost>>
      /\ attempts \in Seq(Attempt)
  BY DEF Ends, DInv, Occupied, AtWork, Shapes
<1>2. PICK result \in {"ok", "failed", "died"} :
         attempts' = [attempts EXCEPT ![id].ret = result]
  BY DEF Ends
<1>3. OfferedRows' = OfferedRows /\ MissingRows' = MissingRows
  BY <1>1, <1>2, ResultChanges, SameOffer, SameMissing
<1>4. CASE type = "pgsql" /\ db' # db
  <2>1. ~Creates(id)
    BY <1>4 DEF Ends
  <2>5. PICK found \in SUBSET (1 .. Length(id)) :
           Intact(id) \subseteq found /\ db' = db \cup {<<id, i>> : i \in found}
    BY <1>4 DEF Ends
  <2>2. OfferedRows[id] = Length(id) /\ id \in DOMAIN OfferedRows
    BY <1>1, <1>4, <2>1 DEF OfferedRows
  <2>3. hs[p].pc # "exec"
    BY <1>1, <1>4 DEF AtWork
  <2>4. {<<id, i>> : i \in 1 .. Length(id)} \cap db = {}
    BY <1>1, <2>3 DEF DInv, RowsSoFar
  <2>6. \A i \in (1 .. Length(id)) \ found : <<id, i>> \in MissingRows
    BY <1>1, <1>4, <2>1, <2>5 DEF Intact, MissingRows
  <2>7. StoredRows = db /\ StoredRows' = db'
    BY <1>1, <1>4 DEF StoredRows
  <2> QED
    BY <1>1, <1>3, <2>2, <2>4, <2>5, <2>6, <2>7
<1>5. CASE type # "pgsql" \/ db' = db
  BY <1>1, <1>3, <1>5 DEF StoredRows
<1> QED
  BY <1>4, <1>5, <1>3

(* What an attempt at work loses, it loses before any row of it is stored. *)
LEMMA WorksMisses ==
    ASSUME DInv, NEW p \in Handles, Works(p)
    PROVE  /\ OfferedRows' = OfferedRows /\ StoredRows' = StoredRows
           /\ \/ MissingRows' = MissingRows
              \/ \E id \in DOMAIN OfferedRows :
                    LET own == {<<id, i>> : i \in 1 .. OfferedRows[id]}
                    IN  /\ own \cap StoredRows = {}
                        /\ MissingRows \subseteq MissingRows'
                        /\ MissingRows' \subseteq MissingRows \cup own
<1> DEFINE id == hs[p].id
<1>1. /\ UNCHANGED <<type, attempts>> /\ Busy(p) /\ AtWork(p) /\ id \in DOMAIN attempts
      /\ lost \subseteq lost'
      /\ \A row \in lost' \ lost : /\ row[1] = id /\ row \in Nat \X Nat
                                   /\ type # "sqldir" => row[2] \in 1 .. Length(id)
  BY DEF Works, DInv, Occupied, AtWork
<1>2. OfferedRows' = OfferedRows
  BY <1>1, SameOffer
<1>3. StoredRows' = StoredRows
  BY DEF Works, DInv, Occupied, AtWork, Busy, StoredRows
<1>4. CASE MissingRows' # MissingRows
  <2>1. type = "pgsql" /\ lost' # lost
    BY <1>1, <1>4, SameMissing DEF MissingRows
  <2>2. MissingRows \subseteq MissingRows'
    BY <1>1 DEF MissingRows, Creates
  <2>3. ASSUME NEW row \in MissingRows' \ MissingRows
        PROVE  /\ row = <<id, row[2]>> /\ row[2] \in 1 .. Length(id) /\ ~Creates(id)
    <3>1. row \in lost' \ lost /\ ~Creates(row[1])
      BY <1>1, <2>3 DEF MissingRows, Creates
    <3> QED
      BY <1>1, <2>1, <3>1
  <2>4. ~Creates(id)
    BY <1>4, <2>2, <2>3
  <2>5. OfferedRows[id] = Length(id) /\ id \in DOMAIN OfferedRows
    BY <1>1, <2>1, <2>4 DEF OfferedRows
  <2>6. {<<id, i>> : i \in 1 .. Length(id)} \cap db = {} /\ StoredRows = db
    <3>1. hs[p].pc # "exec"
      BY <1>1, <2>1 DEF AtWork
    <3> QED
      BY <1>1, <2>1, <3>1 DEF DInv, RowsSoFar, StoredRows
  <2>7. MissingRows' \subseteq MissingRows \cup {<<id, i>> : i \in 1 .. Length(id)}
    BY <2>3
  <2> QED
    BY <1>2, <1>3, <2>2, <2>5, <2>6, <2>7
<1> QED
  BY <1>2, <1>3, <1>4

(* A step of DbHandle is a step of AtomicStore, or none.                   *)
LEMMA StepRefines == DInv /\ [Next]_vars => [Store!Next]_(Store!svars)
<1> SUFFICES ASSUME DInv, [Next]_vars
             PROVE  Store!Next \/ UNCHANGED <<OfferedRows, MissingRows, StoredRows>>
  BY DEF Store!svars, OfferedRows, MissingRows, StoredRows
<1>1. ASSUME NEW p \in Handles, Begins(p)
      PROVE  Store!Offer
  BY <1>1, BeginsOffers DEF Store!Offer, OfferedRows, MissingRows, StoredRows
<1>2. ASSUME NEW p \in Handles, Ends(p)
      PROVE  \/ UNCHANGED <<OfferedRows, MissingRows, StoredRows>>
             \/ \E id \in DOMAIN OfferedRows : Store!Store(id)
  BY <1>2, EndsStores DEF Store!Store, Store!RowsOf, OfferedRows, MissingRows, StoredRows
<1>3. ASSUME NEW p \in Handles, Works(p)
      PROVE  \/ UNCHANGED <<OfferedRows, MissingRows, StoredRows>>
             \/ \E id \in DOMAIN OfferedRows : Store!Miss(id)
  BY <1>3, WorksMisses DEF Store!Miss, Store!RowsOf, OfferedRows, MissingRows, StoredRows
<1>6. ASSUME NEW p \in Handles, Rests(p)
      PROVE  UNCHANGED <<OfferedRows, MissingRows, StoredRows>>
  BY <1>6, SameOffer, SameMissing DEF Rests, StoredRows
<1>4. CASE UNCHANGED vars
  BY <1>4, SameOffer, SameMissing DEF vars, StoredRows
<1>5. CASE Next
  <2>1. PICK p \in Handles : UNCHANGED type /\ Step(p)
    BY <1>5 DEF Next
  <2>2. Rests(p) \/ Begins(p) \/ Works(p) \/ Ends(p)
    BY <2>1, StepKinds
  <2> QED
    BY <1>1, <1>2, <1>3, <1>6, <2>2 DEF Store!Next, OfferedRows
<1> QED
  BY <1>4, <1>5

(* An insert into pgsql is atomic: whatever processes die or lose their    *)
(* server, the database is an AtomicStore.                                 *)
THEOREM DAtomic == Spec => Atomic
<1>1. Init => Store!Init
  BY DEF Init, Store!Init
<1> QED
  BY <1>1, DbInvariant, StepRefines, PTL DEF Spec, Atomic, Store!Spec

-----------------------------------------------------------------------------
(* What is printed, executed, stored and flushed stays within the          *)
(* statements of its attempt.                                              *)

FileBound(file) == /\ file.of \in 0 .. Len(attempts)
                   /\ \/ file.holds = {}
                      \/ file.of # 0 /\ file.holds \subseteq 1 .. Length(file.of)

Bounds == /\ \A p \in Handles : Busy(p) => hs[p].at = 0 \/ hs[p].at <= Length(hs[p].id)
          /\ \A row \in db \cup lost : row[2] \in 1 .. Length(row[1])
          /\ \A name \in DOMAIN files : FileBound(files[name])

(* Attempts are added and given results, and keep their statements.        *)
LEMMA AttemptsKept ==
    ASSUME DInv, NEW p \in Handles, UNCHANGED type, Step(p)
    PROVE  /\ Len(attempts) \in Nat /\ Len(attempts') \in Nat
           /\ Len(attempts) <= Len(attempts')
           /\ \A id \in 1 .. Len(attempts) : Length(id)' = Length(id)
<1>1. attempts \in Seq(Attempt) /\ (Busy(p) => AtWork(p))
  BY DEF DInv, Shapes, Occupied
<1>2. CASE UNCHANGED attempts
  BY <1>1, <1>2, SameStatements
<1>3. CASE Begins(p)
  <2>1. PICK a \in Attempt : attempts' = Append(attempts, a)
    BY <1>3 DEF Begins
  <2>2. /\ Len(attempts') = Len(attempts) + 1
        /\ \A id \in 1 .. Len(attempts) : attempts'[id] = attempts[id]
    BY <1>1, <2>1
  <2> QED
    BY <1>1, <2>2, SameStatements
<1>4. CASE Ends(p)
  <2>1. PICK result \in {"ok", "failed", "died"} :
           attempts' = [attempts EXCEPT ![hs[p].id].ret = result]
    BY <1>4 DEF Ends
  <2>2. hs[p].id \in DOMAIN attempts
    BY <1>1, <1>4 DEF Ends, AtWork
  <2>3. /\ attempts' \in Seq(Attempt) /\ DOMAIN attempts' = DOMAIN attempts
        /\ \A j \in DOMAIN attempts : attempts'[j].packet = attempts[j].packet
    BY <1>1, <2>1, <2>2, ResultChanges
  <2> QED
    BY <1>1, <2>3, SameStatements
<1> QED
  BY <1>2, <1>3, <1>4, StepKinds DEF Rests, Works

(* What a step may change of what is bounded.                              *)
BoundsKept(p) ==
    /\ (Busy(p) => hs[p].at = 0 \/ hs[p].at <= Length(hs[p].id))'
    /\ \A row \in (db' \ db) \cup (lost' \ lost) :
          row[1] \in 1 .. Len(attempts) /\ row[2] \in 1 .. Length(row[1])
    /\ \A name \in DOMAIN files' :
          \/ name \in DOMAIN files /\ files'[name] = files[name]
          \/ files'[name].holds = {} /\ files'[name].of \in 0 .. Len(attempts')
          \/ /\ files'[name].of \in 1 .. Len(attempts)
             /\ files'[name].holds \subseteq 1 .. Length(files'[name].of)

(* A step that does keeps them.                                            *)
LEMMA BoundsStep ==
    ASSUME DInv, Bounds, NEW p \in Handles, UNCHANGED type, Step(p), BoundsKept(p)
    PROVE  Bounds'
<1>1. /\ Len(attempts) \in Nat /\ Len(attempts') \in Nat /\ Len(attempts) <= Len(attempts')
      /\ \A id \in 1 .. Len(attempts) : Length(id)' = Length(id)
  BY AttemptsKept
<1>2. DInv'
  BY DInvInductive DEF Next
<1>3. /\ attempts \in Seq(Attempt) /\ attempts' \in Seq(Attempt)
      /\ \A q \in Handles \ {p} : hs'[q] = hs[q]
  BY <1>2, StepKinds DEF DInv, Shapes, Rests, Begins, Works, Ends, OnlyHandle
<1>4. ASSUME NEW q \in Handles PROVE (Busy(q) => hs[q].at = 0 \/ hs[q].at <= Length(hs[q].id))'
  <2>1. CASE q = p
    BY <2>1 DEF BoundsKept
  <2>2. CASE q # p
    <3> SUFFICES ASSUME Busy(q)' PROVE (hs[q].at = 0 \/ hs[q].at <= Length(hs[q].id))'
      OBVIOUS
    <3>1. Busy(q) /\ hs'[q] = hs[q]
      BY <1>3, <2>2 DEF Busy
    <3> PICK id : id = hs[q].id
      OBVIOUS
    <3>2. id \in 1 .. Len(attempts)
      BY <1>3, <3>1 DEF DInv, Occupied, AtWork
    <3>3. /\ hs'[q].at = 0 \/ hs'[q].at <= Length(id)
          /\ Length(id)' = Length(id) /\ hs'[q].id = id
      BY <1>1, <3>1, <3>2 DEF Bounds
    <3> QED
      BY <3>3
  <2> QED
    BY <2>1, <2>2
<1>5. ASSUME NEW row \in db' \cup lost' PROVE row[2] \in 1 .. Length(row[1])'
  <2>1. row[1] \in 1 .. Len(attempts) /\ row[2] \in 1 .. Length(row[1])
    <3>1. CASE row \in db \cup lost
      BY <1>3, <3>1 DEF Bounds, DInv, RowsOfAttempts
    <3>2. CASE row \notin db \cup lost
      BY <1>5, <3>2 DEF BoundsKept
    <3> QED
      BY <3>1, <3>2
  <2> QED
    BY <1>1, <2>1
<1>6. ASSUME NEW name \in DOMAIN files' PROVE FileBound(files[name])'
  <2> PICK file : file = files'[name]
    OBVIOUS
  <2>1. ASSUME file.of \in 1 .. Len(attempts), file.holds \subseteq 1 .. Length(file.of)
        PROVE  FileBound(file)'
    BY <1>1, <2>1 DEF FileBound
  <2>2. ASSUME file.holds = {}, file.of \in 0 .. Len(attempts')
        PROVE  FileBound(file)'
    BY <2>2 DEF FileBound
  <2>3. CASE name \in DOMAIN files /\ file = files[name]
    <3>1. FileBound(file)
      BY <2>3 DEF Bounds
    <3>2. CASE file.holds = {}
      BY <1>1, <2>2, <3>1, <3>2 DEF FileBound
    <3>3. CASE file.of # 0 /\ file.holds \subseteq 1 .. Length(file.of)
      <4>1. file.of \in 1 .. Len(attempts)
        BY <1>1, <3>1, <3>3 DEF FileBound
      <4> QED
        BY <2>1, <3>3, <4>1
    <3> QED
      BY <3>1, <3>2, <3>3 DEF FileBound
  <2>4. FileBound(file)'
    BY <2>1, <2>2, <2>3 DEF BoundsKept
  <2> QED
    BY <2>4
<1> QED
  BY <1>4, <1>5, <1>6 DEF Bounds

(* Every step keeps to the bounds.                                         *)
LEMMA KeepsBounds ==
    ASSUME DInv, Bounds, NEW p \in Handles, UNCHANGED type, Step(p)
    PROVE  BoundsKept(p)
<1>1. /\ Shapes /\ hs[p] \in HandleRec /\ (Busy(p) => AtWork(p))
      /\ attempts \in Seq(Attempt)
  BY DEF DInv, Shapes, Occupied
<1>2. /\ Len(attempts) \in Nat /\ Len(attempts') \in Nat /\ Len(attempts) <= Len(attempts')
      /\ \A id \in 1 .. Len(attempts) : Length(id)' = Length(id)
  BY AttemptsKept
<1>3. Busy(p) => /\ hs[p].id \in 1 .. Len(attempts) /\ hs[p].at \in Nat
                 /\ hs[p].at <= Length(hs[p].id) /\ Length(hs[p].id) \in Nat
  <2> SUFFICES ASSUME Busy(p)
               PROVE  /\ hs[p].id \in 1 .. Len(attempts) /\ hs[p].at \in Nat
                      /\ hs[p].at <= Length(hs[p].id) /\ Length(hs[p].id) \in Nat
    OBVIOUS
  <2>1. hs[p].id \in 1 .. Len(attempts) /\ hs[p].at \in Nat
    BY <1>1 DEF AtWork, HandleRec
  <2>2. attempts[hs[p].id].packet \in Packets \cup {Initialising}
    <3>1. attempts[hs[p].id] \in Attempt
      BY <1>1, <2>1
    <3> QED
      BY <3>1 DEF Attempt
  <2> QED
    BY <2>1, <2>2, LengthIsNat DEF Bounds
<1>4. CASE Rests(p)
  <2>1. ~Busy(p)' /\ db' = db /\ lost' = lost
    BY <1>4, RestingIsNotBusy DEF Rests, Busy
  <2>2. \/ UNCHANGED files
        \/ \E name : name \notin DOMAIN files /\ files' = FileAdded(name, 0)
    <3>1. ~Busy(p) /\ ~Begins(p)
      BY <1>4, RestingIsNotBusy DEF Rests, Begins
    <3>2. ~InitBegins(p) /\ \A packet \in Packets : ~Insert(p, packet)
      BY <3>1, BeginsSteps DEF InitBegins, Insert
    <3>3. /\ ~PrintStatement(p) /\ ~PrintFails(p) /\ ~FlushFile(p)
          /\ ~FlushFails(p) /\ ~Commit(p)
      BY <3>1 DEF Busy, PrintStatement, FlushFile, Commit, CommitFile, CommitPgsql,
         LosesServer, CommitSqlite, ExecStatement, ExecFindsNothing, ExecFails, ExecDone,
         Printed, PrintFails, FlushFails
    <3>4. CASE Open(p) \/ Close(p) \/ Dies(p)
      BY <3>4 DEF Open, Close, Dies
    <3>5. CASE NoStream(p)
      BY <3>5 DEF NoStream
    <3>6. CASE \E packet \in Packets : InsertRefused(p, packet)
      BY <3>6 DEF InsertRefused
    <3> QED
      BY <3>2, <3>3, <3>4, <3>5, <3>6 DEF Step, InitCrashes, InsertWithoutStream
  <2>3. ASSUME NEW name \in DOMAIN files'
        PROVE  \/ name \in DOMAIN files /\ files'[name] = files[name]
               \/ files'[name].holds = {} /\ files'[name].of \in 0 .. Len(attempts')
    <3>1. ASSUME NEW new, new \notin DOMAIN files, files' = FileAdded(new, 0)
          PROVE  \/ name \in DOMAIN files /\ files'[name] = files[name]
                 \/ files'[name] = [of |-> 0, holds |-> {}]
      BY <3>1 DEF FileAdded
    <3> QED
      BY <1>2, <2>2, <3>1
  <2> QED
    BY <2>1, <2>3 DEF BoundsKept
<1>5. ASSUME NEW packet, BeginStream(p, packet), hs[p].pc \in {"idle", "init"}
      PROVE  BoundsKept(p)
  <2>1. PICK name \in IF type = "sqldir" THEN Names \ DOMAIN files ELSE {0} :
           /\ hs' = [hs EXCEPT ![p] = [@ EXCEPT
                        !.state = "DB_BEGUN", !.pc = "printing",
                        !.id = Len(attempts) + 1, !.at = 0, !.name = name]]
           /\ files' = IF name = 0 THEN files
                       ELSE FileAdded(name, Len(attempts) + 1)
    BY <1>5 DEF BeginStream
  <2> PICK id : id = Len(attempts) + 1
    OBVIOUS
  <2>2. attempts' = Append(attempts, [packet |-> packet, ret |-> "none"])
        /\ db' = db /\ lost' = lost
    BY <1>5 DEF BeginStream
  <2>3. Len(attempts') = id /\ id \in 1 .. Len(attempts')
    BY <1>2, <2>2
  <2>4. hs'[p].at = 0 /\ hs'[p].id = id
    <3>1. hs'[p] = [hs[p] EXCEPT !.state = "DB_BEGUN", !.pc = "printing",
                                 !.id = id, !.at = 0, !.name = name]
      BY <1>1, <2>1 DEF Shapes
    <3> QED
      BY <1>1, <3>1 DEF HandleRec
  <2>7. ASSUME NEW n \in DOMAIN files'
        PROVE  \/ n \in DOMAIN files /\ files'[n] = files[n]
               \/ files'[n].holds = {} /\ files'[n].of \in 0 .. Len(attempts')
    <3>1. CASE files' = files
      BY <3>1
    <3>2. CASE files' = FileAdded(name, id)
      <4>1. \/ n \in DOMAIN files /\ files'[n] = files[n]
            \/ files'[n] = [of |-> id, holds |-> {}]
        BY <3>2 DEF FileAdded
      <4> QED
        BY <2>3, <4>1
    <3> QED
      BY <2>1, <3>1, <3>2
  <2> QED
    BY <2>2, <2>4, <2>7 DEF BoundsKept
<1>12. ASSUME Busy(p), type = "sqldir", NEW upto \in Nat, Written(p, upto)
       PROVE  \A n \in DOMAIN files' :
                 \/ n \in DOMAIN files /\ files'[n] = files[n]
                 \/ /\ files'[n].of \in 1 .. Len(attempts)
                    /\ files'[n].holds \subseteq 1 .. Length(files'[n].of)
  <2> PICK id : id = hs[p].id
    OBVIOUS
  <2> PICK name : name = hs[p].name
    OBVIOUS
  <2>1. /\ name \in DOMAIN files /\ files[name].of = id
        /\ id \in 1 .. Len(attempts) /\ hs[p].at \in Nat
        /\ hs[p].at <= Length(id) /\ Length(id) \in Nat
    BY <1>1, <1>3, <1>12 DEF AtWork
  <2>2. files[name].holds \subseteq 1 .. Length(id)
    BY <2>1 DEF Bounds, FileBound
  <2>3. Buffered(p) \subseteq 1 .. Length(id)
    BY <2>1 DEF Buffered
  <2>4. /\ DOMAIN files' = DOMAIN files
        /\ \A n \in DOMAIN files \ {name} : files'[n] = files[n]
        /\ files'[name].of = id
        /\ files'[name].holds = files[name].holds \cup {i \in Buffered(p) : i <= upto}
    BY <1>1, <1>12, FileGrows
  <2> QED
    BY <2>1, <2>2, <2>3, <2>4
<1>6. CASE \/ PrintStatement(p) \/ PrintFails(p) \/ FlushFile(p) \/ FlushFails(p)
           \/ CommitSqlite(p) \/ ExecStatement(p) \/ ExecFindsNothing(p)
  <2>1. Busy(p) /\ UNCHANGED <<type, attempts>>
    BY <1>6, WorksSteps DEF Works
  <2> PICK id : id = hs[p].id
    OBVIOUS
  <2>2. /\ id \in 1 .. Len(attempts) /\ hs[p].at \in Nat
        /\ hs[p].at <= Length(id) /\ Length(id) \in Nat /\ Length(id)' = Length(id)
    BY <1>2, <1>3, <2>1
  <2>3. /\ hs'[p].id = id
        /\ \/ hs'[p].at \in {hs[p].at, 0}
           \/ hs'[p].at = hs[p].at + 1 /\ hs[p].at < Length(id)
    <3>1. CASE FlushFile(p) \/ FlushFails(p)
      BY <3>1 DEF FlushFile, FlushFails
    <3>2. CASE CommitSqlite(p)
      <4>1. hs'[p] = [hs[p] EXCEPT !.pc = "exec", !.at = 0]
        BY <1>1, <3>2 DEF CommitSqlite, Shapes
      <4> QED
        BY <1>1, <4>1 DEF HandleRec
    <3>3. CASE PrintStatement(p) \/ PrintFails(p) \/ ExecStatement(p) \/ ExecFindsNothing(p)
      <4>1. hs'[p] = [hs[p] EXCEPT !.at = @ + 1]
        BY <1>1, <3>3 DEF PrintStatement, PrintFails, ExecStatement, ExecFindsNothing, Shapes
      <4>2. hs[p].at < Length(id)
        <5>1. CASE ExecFindsNothing(p)
          <6>1. <<id, hs[p].at + 1>> \in lost
            BY <5>1 DEF ExecFindsNothing
          <6>2. hs[p].at + 1 \in 1 .. Length(id)
            BY <6>1 DEF Bounds
          <6> QED
            BY <2>2, <6>2
        <5> QED
          BY <3>3, <5>1 DEF PrintStatement, PrintFails, ExecStatement
      <4> QED
        BY <1>1, <4>1, <4>2 DEF HandleRec
    <3> QED
      BY <1>6, <3>1, <3>2, <3>3
  <2>4. \A row \in db' \ db : row = <<id, hs[p].at + 1>> /\ hs[p].at < Length(id)
    BY <1>6 DEF PrintStatement, PrintFails, FlushFile, FlushFails, CommitSqlite,
                ExecStatement, ExecFindsNothing, Effect
  <2>6. \A row \in lost' \ lost : \E i \in 1 .. Length(id) : row = <<id, i>>
    <3>1. CASE PrintFails(p)
      BY <2>2, <3>1 DEF PrintFails
    <3>2. CASE FlushFails(p)
      <4>1. \A i \in 1 .. hs[p].at : i \in 1 .. Length(id)
        BY <2>2
      <4> QED
        BY <3>2, <4>1, FlushDrops
    <3> QED
      BY <1>6, <3>1, <3>2 DEF PrintStatement, FlushFile, CommitSqlite, ExecStatement,
                              ExecFindsNothing
  <2>5. ASSUME NEW n \in DOMAIN files'
        PROVE  \/ n \in DOMAIN files /\ files'[n] = files[n]
               \/ /\ files'[n].of \in 1 .. Len(attempts)
                  /\ files'[n].holds \subseteq 1 .. Length(files'[n].of)
    <3>1. CASE FlushFile(p) \/ FlushFails(p)
      BY <1>12, <2>1, <2>2, <3>1 DEF FlushFile, FlushFails
    <3>2. CASE UNCHANGED files
      BY <3>2
    <3> QED
      BY <1>6, <3>1, <3>2 DEF PrintStatement, PrintFails, CommitSqlite, ExecStatement,
                              ExecFindsNothing
  <2> QED
    BY <2>2, <2>3, <2>4, <2>5, <2>6 DEF BoundsKept
<1>7. CASE Ends(p)
  <2>1. /\ Busy(p) /\ ~Busy(p)' /\ lost' = lost
        /\ \A row \in db' \ db : /\ row[1] = hs[p].id
                                 /\ row[2] \in 1 .. Length(hs[p].id)
    BY <1>7, RestingIsNotBusy DEF Ends, Busy
  <2> PICK id : id = hs[p].id
    OBVIOUS
  <2>2. /\ id \in 1 .. Len(attempts) /\ hs[p].at \in Nat
        /\ hs[p].at <= Length(id) /\ Length(id) \in Nat
    BY <1>3, <2>1
  <2>3. CASE UNCHANGED files
    BY <2>1, <2>2, <2>3 DEF BoundsKept
  <2>4. CASE type = "sqldir" /\ \E upto \in Nat : Written(p, upto)
    BY <1>12, <2>1, <2>2, <2>4 DEF BoundsKept
  <2>5. CASE \/ Dies(p) \/ CommitFile(p) \/ CommitPgsql(p) \/ LosesServer(p)
             \/ ExecFails(p) \/ ExecDone(p)
    <3>1. CASE CommitFile(p)
      BY <2>2, <2>4, <3>1 DEF CommitFile
    <3> QED
      BY <2>3, <2>5, <3>1 DEF Dies, CommitPgsql, LosesServer, ExecFails, ExecDone
  <2>6. CASE \/ PrintStatement(p) \/ PrintFails(p) \/ FlushFile(p) \/ FlushFails(p)
             \/ CommitSqlite(p) \/ ExecStatement(p) \/ ExecFindsNothing(p)
    BY <1>6, <2>6
  <2>7. CASE \E packet \in Packets : InsertRefused(p, packet) \/ InsertWithoutStream(p, packet)
    BY <2>1, <2>7 DEF InsertRefused, InsertWithoutStream, Busy
  <2> QED
    BY <2>1, <2>5, <2>6, <2>7 DEF Step, Commit, Open, Close, InitBegins, InitCrashes,
       Insert, Busy
<1>8. CASE \E packet \in Packets : Insert(p, packet)
  BY <1>5, <1>8 DEF Insert
<1>9. CASE InitBegins(p)
  BY <1>5, <1>9 DEF InitBegins
<1>10. CASE \/ Open(p) \/ Close(p) \/ InitCrashes(p) \/ (Dies(p) /\ ~Busy(p))
            \/ \E packet \in Packets : InsertRefused(p, packet)
                                      \/ InsertWithoutStream(p, packet)
  BY <1>4, <1>10, RestsSteps
<1>11. CASE \/ Dies(p) /\ Busy(p)
            \/ CommitFile(p) \/ CommitPgsql(p) \/ LosesServer(p)
            \/ ExecFails(p) \/ ExecDone(p)
  BY <1>7, <1>11, EndsSteps
<1> QED
  BY <1>6, <1>8, <1>9, <1>10, <1>11 DEF Step, Commit

(* What the handles, the attempts, the rows and the files may be: no row   *)
(* beyond the statements of its attempt, no file that holds more than was  *)
(* printed for it.                                                         *)
THEOREM DbTypeCorrect == Spec => []DbTypeOK
<1>1. Init => Bounds
  BY DEF Init, Bounds, Busy, Closed
<1>2. DInv /\ Bounds /\ [Next]_vars => Bounds'
  <2> SUFFICES ASSUME DInv, Bounds, [Next]_vars PROVE Bounds'
    OBVIOUS
  <2>1. ASSUME NEW p \in Handles, UNCHANGED type, Step(p) PROVE Bounds'
    BY <2>1, KeepsBounds, BoundsStep
  <2>2. CASE UNCHANGED vars
    BY <2>2 DEF vars, Bounds, FileBound, Busy, Length, StatementsOf, Creates
  <2> QED
    BY <2>1, <2>2 DEF Next
<1>3. DInv /\ Bounds => DbTypeOK
  <2> SUFFICES ASSUME DInv, Bounds PROVE DbTypeOK
    OBVIOUS
  <2>1. attempts \in Seq(Attempt) /\ \A p \in Handles : hs[p] \in HandleRec
    BY DEF DInv, Shapes
  <2>2. \A p \in Handles : hs[p].id \in 0 .. Len(attempts)
    BY <2>1 DEF DInv, Occupied, AtWork, Resting
  <2>3. ASSUME NEW name \in DOMAIN files
        PROVE  files[name].holds \subseteq 1 .. (IF files[name].of = 0 THEN 0
                                                 ELSE Length(files[name].of))
    <3> PICK id : id = files[name].of
      OBVIOUS
    <3>1. files[name].holds \subseteq Nat /\ id \in 0 .. Len(attempts) /\ FileBound(files[name])
      BY <2>3 DEF DInv, Shapes, File, Bounds, FileBound
    <3>2. ASSUME id # 0 PROVE Length(id) \in Nat
      <4>1. attempts[id] \in Attempt
        BY <2>1, <3>1, <3>2
      <4>2. attempts[id].packet \in Packets \cup {Initialising}
        BY <4>1 DEF Attempt
      <4> QED
        BY <4>2, LengthIsNat
    <3> QED
      BY <3>1, <3>2 DEF FileBound
  <2>4. \A p \in Handles : /\ hs[p].state \in {"DB_INVALID", "DB_READY", "DB_BEGUN"}
                           /\ hs[p].pc \in {"closed", "idle", "init", "printing", "exec"}
    BY <2>1 DEF HandleRec
  <2>5. \A id \in DOMAIN attempts : attempts[id].ret \in {"none", "ok", "failed", "died"}
    <3>1. \A id \in DOMAIN attempts : attempts[id] \in Attempt
      BY <2>1
    <3> QED
      BY <3>1 DEF Attempt
  <2>6. \A row \in db \cup lost : row[1] \in DOMAIN attempts /\ row[2] \in 1 .. Length(row[1])
    BY DEF DInv, RowsOfAttempts, Bounds
  <2> QED
    BY <2>2, <2>3, <2>4, <2>5, <2>6 DEF DbTypeOK
<1> QED
  BY <1>1, <1>2, <1>3, DbInvariant, PTL DEF Spec
=============================================================================
