-------------------------- MODULE HandleLife_proofs -------------------------
(***************************************************************************)
(* HandleLife for every set of handles, descriptor numbers and uris: what  *)
(* a handle closes is its own, and no descriptor but a socket is orphaned. *)
(***************************************************************************)
EXTENDS HandleLife, TLAPS

(* A descriptor somebody has to close is open: without it nothing is known *)
(* of a FILE or a descriptor when it is given to a handle.                 *)
OwnedIsOpen == \A f \in Fds : owner[f] # "nobody" => table[f] # "closed"

LInv == LTypeOK /\ OwnedIsOpen /\ ClosesItsOwn /\ OnlySocketsOrphaned

(* The kinds of steps on the descriptors: a free number is opened for a    *)
(* handle, or for nobody or the program; a descriptor is given away; one   *)
(* is closed; none is touched.                                             *)
Acquires(h, f, what) ==
    /\ table[f] = "closed" /\ what \in {"file", "socket"}
    /\ Opens(f, what, h)
    /\ \E rec \in Handle : /\ rec.aux = f /\ rec.close \in Closers
                           /\ hs' = [hs EXCEPT ![h] = rec]

Receives(h, f) ==
    /\ owner[f] = "program" /\ UNCHANGED table
    /\ \E rec \in Handle :
         /\ rec.aux = f /\ hs' = [hs EXCEPT ![h] = rec]
         /\ \/ rec.close \in Closers /\ owner' = [owner EXCEPT ![f] = h]
            \/ rec.close = "NULL" /\ UNCHANGED owner

Abandons(h) ==
    /\ hs' = [hs EXCEPT ![h] = Zeroed]
    /\ \/ UNCHANGED <<table, owner>>
       \/ \E f \in Fds : table[f] = "closed" /\ Opens(f, "socket", "nobody")

-----------------------------------------------------------------------------

(* The initial state satisfies the invariant: nothing is open.             *)
LEMMA LInit_LInv == LInit => LInv
<1> SUFFICES ASSUME LInit PROVE LInv
  OBVIOUS
<1>1. LTypeOK
  BY DEF LInit, LTypeOK, Handle, Junk, NoFd, NoCall
<1>2. OwnedIsOpen /\ OnlySocketsOrphaned
  BY DEF LInit, OwnedIsOpen, OnlySocketsOrphaned
<1>3. ClosesItsOwn
  BY DEF LInit, ClosesItsOwn, Junk, Closers
<1> QED
  BY <1>1, <1>2, <1>3 DEF LInv

(* A handle that holds nothing owns nothing.                               *)
LEMMA UnusedOwnsNothing ==
    ASSUME LInv, NEW h \in Handles, Unused(h)
    PROVE  /\ \A f \in Fds : owner[f] # h
           /\ hs[h].close \notin Closers
<1>1. hs[h].aux = -1 /\ hs[h].close \notin Closers
  BY DEF Unused, Junk, Zeroed, NoFd, Closers
<1>2. \A f \in Fds : f # -1 /\ h \notin {"program", "nobody"}
  BY LifeAssumption
<1> QED
  BY <1>1, <1>2 DEF LInv, OnlySocketsOrphaned, OwnedIsOpen

(* A file or a socket opened for an unused handle.                         *)
LEMMA AcquiresKeeps ==
    ASSUME LInv, LTypeOK', NEW h \in Handles, Unused(h), NEW f \in Fds, NEW what,
           Acquires(h, f, what)
    PROVE  LInv'
<1> h \notin {"program", "nobody"}
  BY LifeAssumption
<1>1. PICK rec \in Handle : /\ rec.aux = f /\ rec.close \in Closers
                            /\ hs' = [hs EXCEPT ![h] = rec]
  BY DEF Acquires
<1>2. /\ table' = [table EXCEPT ![f] = what] /\ what # "closed"
      /\ owner' = [owner EXCEPT ![f] = h] /\ table[f] = "closed"
  BY DEF Acquires, Opens
<1>3. /\ hs' \in [Handles -> Handle] /\ hs'[h] = rec
      /\ \A g \in Handles \ {h} : hs'[g] = hs[g]
  BY <1>1 DEF LInv, LTypeOK
<1>4. /\ table'[f] = what /\ owner'[f] = h
      /\ \A g \in Fds \ {f} : table'[g] = table[g] /\ owner'[g] = owner[g]
  BY <1>2 DEF LInv, LTypeOK
<1>5. OwnedIsOpen'
  BY <1>2, <1>4 DEF LInv, OwnedIsOpen
<1>6. ClosesItsOwn'
  BY <1>1, <1>2, <1>3, <1>4 DEF LInv, ClosesItsOwn
<1>7. OnlySocketsOrphaned'
  BY <1>1, <1>2, <1>3, <1>4, UnusedOwnsNothing DEF LInv, OnlySocketsOrphaned
<1> QED
  BY <1>5, <1>6, <1>7 DEF LInv

(* A FILE or a descriptor of the program's given or lent to an unused      *)
(* handle.                                                                 *)
LEMMA ReceivesKeeps ==
    ASSUME LInv, LTypeOK', NEW h \in Handles, Unused(h), NEW f \in Fds,
           Receives(h, f)
    PROVE  LInv'
<1> h \notin {"program", "nobody"}
  BY LifeAssumption
<1>1. PICK rec \in Handle :
        /\ rec.aux = f /\ hs' = [hs EXCEPT ![h] = rec]
        /\ \/ rec.close \in Closers /\ owner' = [owner EXCEPT ![f] = h]
           \/ rec.close = "NULL" /\ UNCHANGED owner
  BY DEF Receives
<1>2. /\ hs'[h] = rec
      /\ \A g \in Handles \ {h} : hs'[g] = hs[g]
  BY <1>1 DEF LInv, LTypeOK
<1>3. /\ table' = table /\ owner[f] = "program" /\ table[f] # "closed"
  BY DEF Receives, LInv, OwnedIsOpen
<1>4. CASE rec.close \in Closers
  <2>1. /\ owner'[f] = h
        /\ \A g \in Fds \ {f} : owner'[g] = owner[g]
    BY <1>1, <1>4 DEF LInv, LTypeOK, Closers
  <2>2. OwnedIsOpen'
    BY <1>3, <2>1 DEF LInv, OwnedIsOpen
  <2>3. ClosesItsOwn'
    <3> SUFFICES ASSUME NEW g \in Handles, hs'[g].close \in Closers
                 PROVE  /\ hs'[g].aux \in Fds
                        /\ owner'[hs'[g].aux] = g /\ table'[hs'[g].aux] # "closed"
      BY DEF ClosesItsOwn, Closers
    <3>1. CASE g = h
      BY <1>1, <1>2, <1>3, <2>1, <3>1
    <3>2. CASE g # h
      <4>1. /\ hs[g].aux \in Fds /\ owner[hs[g].aux] = g
            /\ table[hs[g].aux] # "closed"
        BY <1>2, <3>2 DEF LInv, ClosesItsOwn
      <4>2. g # "program"
        BY LifeAssumption
      <4> QED
        BY <1>2, <1>3, <2>1, <3>2, <4>1, <4>2
    <3> QED
      BY <3>1, <3>2
  <2>4. OnlySocketsOrphaned'
    BY <1>1, <1>2, <1>3, <1>4, <2>1, UnusedOwnsNothing
       DEF LInv, OnlySocketsOrphaned
  <2> QED
    BY <2>2, <2>3, <2>4 DEF LInv
<1>5. CASE rec.close = "NULL" /\ UNCHANGED owner
  <2>1. OwnedIsOpen'
    BY <1>3, <1>5 DEF LInv, OwnedIsOpen
  <2>2. ClosesItsOwn'
    BY <1>2, <1>3, <1>5 DEF LInv, ClosesItsOwn, Closers
  <2>3. OnlySocketsOrphaned'
    BY <1>2, <1>3, <1>5, UnusedOwnsNothing DEF LInv, OnlySocketsOrphaned
  <2> QED
    BY <2>1, <2>2, <2>3 DEF LInv
<1> QED
  BY <1>1, <1>4, <1>5

(* An initialisation that returns -1, perhaps with a socket behind it.     *)
LEMMA AbandonsKeeps ==
    ASSUME LInv, LTypeOK', NEW h \in Handles, Unused(h), Abandons(h)
    PROVE  LInv'
<1> h \notin {"program", "nobody"}
  BY LifeAssumption
<1>1. /\ hs'[h].close = "NULL"
      /\ \A g \in Handles \ {h} : hs'[g] = hs[g]
  BY DEF Abandons, LInv, LTypeOK, Zeroed
<1>2. CASE UNCHANGED <<table, owner>>
  <2>1. OwnedIsOpen'
    BY <1>2 DEF LInv, OwnedIsOpen
  <2>2. ClosesItsOwn'
    BY <1>1, <1>2 DEF LInv, ClosesItsOwn, Closers
  <2>3. OnlySocketsOrphaned'
    BY <1>1, <1>2, UnusedOwnsNothing DEF LInv, OnlySocketsOrphaned
  <2> QED
    BY <2>1, <2>2, <2>3 DEF LInv
<1>3. ASSUME NEW f \in Fds, table[f] = "closed", Opens(f, "socket", "nobody")
      PROVE  LInv'
  <2>1. /\ table'[f] = "socket" /\ owner'[f] = "nobody"
        /\ \A g \in Fds \ {f} : table'[g] = table[g] /\ owner'[g] = owner[g]
    BY <1>3 DEF Opens, LInv, LTypeOK
  <2>2. OwnedIsOpen'
    BY <2>1 DEF LInv, OwnedIsOpen
  <2>3. ClosesItsOwn'
    BY <1>1, <1>3, <2>1 DEF LInv, ClosesItsOwn, Closers
  <2>4. OnlySocketsOrphaned'
    BY <1>1, <2>1, UnusedOwnsNothing DEF LInv, OnlySocketsOrphaned
  <2> QED
    BY <2>2, <2>3, <2>4 DEF LInv
<1> QED
  BY <1>2, <1>3 DEF Abandons

-----------------------------------------------------------------------------

(* Every step keeps the types.                                             *)
LEMMA LTypeStep == LTypeOK /\ [LNext]_lifeVars => LTypeOK'
<1> SUFFICES ASSUME LTypeOK, [LNext]_lifeVars PROVE LTypeOK'
  OBVIOUS
<1> USE LifeAssumption
<1>1. Zeroed \in Handle
  BY DEF Zeroed, Handle, NoFd
<1>2. ASSUME NEW h \in Handles, NEW uri \in Uris, NEW mode \in Modes,
             InitFile(h, uri, mode) \/ InitUdp(h, uri, mode),
             uriCut' \subseteq Uris, running' \in BOOLEAN
      PROVE  LTypeOK'
  <2>1. ASSUME NEW f \in Fds, NEW what \in {"file", "socket"},
               NEW who \in Handles \cup {"program", "nobody"}, Opens(f, what, who)
        PROVE  /\ table' \in [Fds -> {"closed", "file", "socket"}]
               /\ owner' \in [Fds -> Handles \cup {"program", "nobody"}]
    BY <2>1 DEF Opens, LTypeOK
  <2>2. CASE Leaves(h, uri, mode, "failed") \/ Leaves(h, uri, mode, "refused")
    <3>1. hs' \in [Handles -> Handle]
      BY <1>1, <2>2 DEF Leaves, LTypeOK
    <3>2. call' \in [Handles -> [uri : Uris \cup {"none"},
                                 mode : Modes \cup {"none"},
                                 outcome : {"none", "done", "refused", "failed"}]]
      BY <2>2 DEF Leaves, Returns, LTypeOK
    <3>3. /\ table' \in [Fds -> {"closed", "file", "socket"}]
          /\ owner' \in [Fds -> Handles \cup {"program", "nobody"}]
      BY <1>2, <2>1 DEF InitFile, InitUdp, LTypeOK
    <3> QED
      BY <1>2, <3>1, <3>2, <3>3 DEF LTypeOK
  <2>3. ASSUME NEW f \in Fds, NEW what \in {"file", "socket"}, Opens(f, what, h),
               NEW rec \in Handle, hs' = [hs EXCEPT ![h] = rec],
               Returns(h, uri, mode, "done")
        PROVE  LTypeOK'
    <3>1. hs' \in [Handles -> Handle]
      BY <2>3 DEF LTypeOK
    <3>2. call' \in [Handles -> [uri : Uris \cup {"none"},
                                 mode : Modes \cup {"none"},
                                 outcome : {"none", "done", "refused", "failed"}]]
      BY <2>3 DEF Returns, LTypeOK
    <3> QED
      BY <1>2, <2>1, <2>3, <3>1, <3>2 DEF LTypeOK
  <2>4. CASE InitFile(h, uri, mode)
    BY <2>2, <2>3, <2>4 DEF InitFile, Handle
  <2>5. CASE InitUdp(h, uri, mode)
    BY <2>2, <2>3, <2>5 DEF InitUdp, Handle
  <2> QED
    BY <1>2, <2>4, <2>5
<1>3. ASSUME NEW h \in Handles, NEW uri \in Uris, NEW mode \in Modes,
             InitUri(h, uri, mode)
      PROVE  LTypeOK'
  <2>1. CASE UriOf[uri].prefix = "udp" /\ InitUdpUri(h, uri, mode)
    <3>1. CASE InitUdp(h, uri, mode) /\ uriCut' = uriCut \cup {uri}
                 /\ UNCHANGED running
      BY <1>2, <3>1 DEF LTypeOK
    <3>2. CASE /\ Returns(h, uri, mode, "refused")
               /\ UNCHANGED <<hs, table, owner, uriCut, running>>
      BY <3>2 DEF Returns, LTypeOK
    <3>3. CASE /\ running' = FALSE
               /\ UNCHANGED <<hs, table, owner, call, uriCut>>
      BY <3>3 DEF LTypeOK
    <3> QED
      BY <2>1, <3>1, <3>2, <3>3 DEF InitUdpUri
  <2>2. CASE InitFile(h, uri, mode) /\ UNCHANGED <<uriCut, running>>
    BY <1>2, <2>2 DEF LTypeOK
  <2> QED
    BY <1>3, <2>1, <2>2 DEF InitUri
<1>4. ASSUME NEW h \in Handles, InitFilep(h) \/ InitFd(h)
      PROVE  LTypeOK'
  <2>1. \E rec \in Handle : hs' = [hs EXCEPT ![h] = rec]
    BY <1>1, <1>4 DEF InitFilep, InitFd, Given, Leaves, Handle
  <2>2. hs' \in [Handles -> Handle]
    BY <2>1 DEF LTypeOK
  <2>3. call' \in [Handles -> [uri : Uris \cup {"none"},
                               mode : Modes \cup {"none"},
                               outcome : {"none", "done", "refused", "failed"}]]
    BY <1>4 DEF InitFilep, InitFd, Leaves, Returns, LTypeOK, Modes
  <2>4. owner' \in [Fds -> Handles \cup {"program", "nobody"}]
    BY <1>4 DEF InitFilep, InitFd, LTypeOK
  <2> QED
    BY <1>4, <2>2, <2>3, <2>4 DEF InitFilep, InitFd, LTypeOK
<1>5. ASSUME NEW h \in Handles, Close(h)
      PROVE  LTypeOK'
  <2>1. hs' \in [Handles -> Handle]
    BY <1>1, <1>5 DEF Close, LTypeOK
  <2> QED
    BY <1>5, <2>1 DEF Close, RunsClose, Opens, LTypeOK
<1>6. CASE ProgramOpens
  BY <1>6 DEF ProgramOpens, Opens, LTypeOK
<1>7. CASE ProgramCloses
  BY <1>7 DEF ProgramCloses, Opens, LTypeOK
<1>8. CASE UNCHANGED lifeVars
  BY <1>8 DEF lifeVars, LTypeOK
<1> QED
  BY <1>3, <1>4, <1>5, <1>6, <1>7, <1>8 DEF LNext, LifeStep

(* Every step keeps the invariant.                                         *)
LEMMA LStep == LInv /\ [LNext]_lifeVars => LInv'
<1> SUFFICES ASSUME LInv, [LNext]_lifeVars PROVE LInv'
  OBVIOUS
<1>0. LTypeOK'
  BY LTypeStep DEF LInv
<1>1. ASSUME NEW h \in Handles, Unused(h),
             NEW uri \in Uris, NEW mode \in Modes, InitFile(h, uri, mode)
      PROVE  LInv'
  <2>1. ASSUME NEW f \in Fds, LowestFree(f), Opens(f, "file", h),
               hs' = [hs EXCEPT ![h] =
                        [close |-> IF UriOf[uri].suffix \in {".gz", ".zst"}
                                   THEN "gz_close" ELSE "file_close",
                         aux |-> f, reads |-> TRUE, writes |-> TRUE]]
        PROVE  LInv'
    <3> DEFINE rec == [close |-> IF UriOf[uri].suffix \in {".gz", ".zst"}
                                  THEN "gz_close" ELSE "file_close",
                        aux |-> f, reads |-> TRUE, writes |-> TRUE]
    <3>0. rec \in Handle /\ rec.aux = f /\ rec.close \in Closers
      BY DEF Handle, Closers
    <3>1. hs' = [hs EXCEPT ![h] = rec]
      BY <2>1
    <3> HIDE DEF rec
    <3>2. Acquires(h, f, "file")
      BY <2>1, <3>0, <3>1 DEF LowestFree, Acquires
    <3> QED
      BY <1>0, <1>1, <3>2, AcquiresKeeps
  <2>2. CASE Leaves(h, uri, mode, "failed") /\ UNCHANGED <<table, owner>>
    BY <1>0, <1>1, <2>2, AbandonsKeeps DEF Abandons, Leaves
  <2> QED
    BY <1>1, <2>1, <2>2 DEF InitFile
<1>2. ASSUME NEW h \in Handles, Unused(h),
             NEW uri \in Uris, NEW mode \in Modes, InitUdp(h, uri, mode)
      PROVE  LInv'
  <2>1. ASSUME NEW f \in Fds, LowestFree(f), Opens(f, "socket", h),
               hs' = [hs EXCEPT ![h] =
                        [close |-> "socket_close", aux |-> f,
                         reads |-> mode = "r", writes |-> mode = "w"]]
        PROVE  LInv'
    <3> DEFINE rec == [close |-> "socket_close", aux |-> f,
                        reads |-> mode = "r", writes |-> mode = "w"]
    <3>0. rec \in Handle /\ rec.aux = f /\ rec.close \in Closers
      BY DEF Handle, Closers
    <3>1. hs' = [hs EXCEPT ![h] = rec]
      BY <2>1
    <3> HIDE DEF rec
    <3>2. Acquires(h, f, "socket")
      BY <2>1, <3>0, <3>1 DEF LowestFree, Acquires
    <3> QED
      BY <1>0, <1>2, <3>2, AcquiresKeeps
  <2>2. CASE /\ hs' = [hs EXCEPT ![h] = Zeroed]
             /\ \/ UNCHANGED <<table, owner>>
                \/ \E f \in Fds : LowestFree(f) /\ Opens(f, "socket", "nobody")
    BY <1>0, <1>2, <2>2, AbandonsKeeps DEF Abandons, LowestFree
  <2> QED
    BY <1>2, <2>1, <2>2 DEF InitUdp, Leaves
<1>3. ASSUME NEW h \in Handles, NEW uri \in Uris, NEW mode \in Modes,
             InitUri(h, uri, mode)
      PROVE  LInv'
  <2>1. CASE UNCHANGED <<hs, table, owner>>
    BY <1>0, <2>1
       DEF LInv, OwnedIsOpen, ClosesItsOwn, OnlySocketsOrphaned
  <2>2. Unused(h) /\ (InitUdpUri(h, uri, mode) \/ InitFile(h, uri, mode))
    BY <1>3 DEF InitUri
  <2>3. CASE InitUdpUri(h, uri, mode)
    <3>1. UNCHANGED <<hs, table, owner>> \/ InitUdp(h, uri, mode)
      BY <2>3 DEF InitUdpUri
    <3> QED
      BY <1>2, <2>1, <2>2, <3>1
  <2> QED
    BY <1>1, <2>2, <2>3
<1>4. ASSUME NEW h \in Handles, InitFilep(h) \/ InitFd(h)
      PROVE  LInv'
  <2>1. CASE Leaves(h, "none", "r", "refused") /\ UNCHANGED <<table, owner>>
    BY <1>0, <1>4, <2>1, AbandonsKeeps DEF InitFilep, InitFd, Abandons, Leaves
  <2>2. ASSUME NEW f \in Fds, Receives(h, f)
        PROVE  LInv'
    BY <1>0, <1>4, <2>2, ReceivesKeeps DEF InitFilep, InitFd
  <2>3. CASE UNCHANGED table
    <3>1. ASSUME NEW f \in Fds, NEW closer \in Closers, NotGiven(f),
                 owner' = [owner EXCEPT ![f] = h], Given(h, f, closer)
          PROVE  Receives(h, f)
      <4>1. [close |-> closer, aux |-> f, reads |-> TRUE, writes |-> TRUE]
              \in Handle
        BY DEF Handle, Closers
      <4> QED
        BY <2>3, <3>1, <4>1 DEF NotGiven, Given, Receives
    <3>2. ASSUME NEW f \in Fds, NotGiven(f), UNCHANGED owner, Given(h, f, "NULL")
          PROVE  Receives(h, f)
      <4>1. [close |-> "NULL", aux |-> f, reads |-> TRUE, writes |-> TRUE]
              \in Handle
        BY DEF Handle
      <4> QED
        BY <2>3, <3>2, <4>1 DEF NotGiven, Given, Receives
    <3>3. \/ Leaves(h, "none", "r", "refused") /\ UNCHANGED owner
          \/ \E f \in Fds : Receives(h, f)
      <4>1. CASE InitFilep(h)
        BY <4>1, <3>1, <3>2 DEF InitFilep, Closers
      <4>2. CASE InitFd(h)
        BY <4>2, <3>1 DEF InitFd, Closers
      <4> QED
        BY <1>4, <4>1, <4>2
    <3> QED
      BY <2>1, <2>2, <2>3, <3>3
  <2> QED
    BY <1>4, <2>3 DEF InitFilep, InitFd
<1>5. ASSUME NEW h \in Handles, Close(h)
      PROVE  LInv'
  <2> h \notin {"program", "nobody"}
    BY LifeAssumption
  <2>1. /\ hs'[h] = Zeroed /\ hs'[h].close \notin Closers
        /\ \A g \in Handles \ {h} : hs'[g] = hs[g]
    BY <1>5 DEF Close, LInv, LTypeOK, Zeroed, Closers
  <2>2. CASE hs[h].close \in Closers /\ Opens(hs[h].aux, "closed", "nobody")
    <3> DEFINE f == hs[h].aux
    <3>1. f \in Fds /\ owner[f] = h
      BY <2>2 DEF LInv, ClosesItsOwn
    <3>2. /\ table'[f] = "closed" /\ owner'[f] = "nobody"
          /\ \A g \in Fds \ {f} : table'[g] = table[g] /\ owner'[g] = owner[g]
      BY <2>2, <3>1 DEF Opens, LInv, LTypeOK
    <3>3. OwnedIsOpen'
      BY <3>2 DEF LInv, OwnedIsOpen
    <3>4. ClosesItsOwn'
      BY <2>1, <3>1, <3>2 DEF LInv, ClosesItsOwn
    <3>5. OnlySocketsOrphaned'
      BY <2>1, <3>1, <3>2 DEF LInv, OnlySocketsOrphaned
    <3> QED
      BY <1>0, <3>3, <3>4, <3>5 DEF LInv
  <2>3. CASE hs[h].close \notin Closers /\ UNCHANGED <<table, owner>>
    <3>1. OwnedIsOpen'
      BY <2>3 DEF LInv, OwnedIsOpen
    <3>2. ClosesItsOwn'
      BY <2>1, <2>3 DEF LInv, ClosesItsOwn
    <3>3. OnlySocketsOrphaned'
      BY <2>1, <2>3 DEF LInv, OnlySocketsOrphaned
    <3> QED
      BY <1>0, <3>1, <3>2, <3>3 DEF LInv
  <2> QED
    BY <1>5, <2>2, <2>3 DEF Close, RunsClose, Closers
<1>6. CASE ProgramOpens
  <2>1. PICK f \in Fds : LowestFree(f) /\ Opens(f, "file", "program")
    BY <1>6 DEF ProgramOpens
  <2>2. /\ table'[f] = "file" /\ owner'[f] = "program" /\ table[f] = "closed"
        /\ \A g \in Fds \ {f} : table'[g] = table[g] /\ owner'[g] = owner[g]
    BY <2>1 DEF LowestFree, Opens, LInv, LTypeOK
  <2> QED
    BY <1>0, <1>6, <2>2
       DEF ProgramOpens, LInv, OwnedIsOpen, ClosesItsOwn, OnlySocketsOrphaned
<1>7. CASE ProgramCloses
  <2>1. PICK f \in Fds : /\ owner[f] = "program"
                         /\ Opens(f, "closed", "nobody")
    BY <1>7 DEF ProgramCloses
  <2>2. /\ table'[f] = "closed" /\ owner'[f] = "nobody" /\ f \in Fds
        /\ \A g \in Fds \ {f} : table'[g] = table[g] /\ owner'[g] = owner[g]
    BY <2>1 DEF Opens, LInv, LTypeOK
  <2>3. \A h \in Handles : h # "program"
    BY LifeAssumption
  <2> QED
    BY <1>0, <1>7, <2>1, <2>2, <2>3
       DEF ProgramCloses, LInv, OwnedIsOpen, ClosesItsOwn, OnlySocketsOrphaned
<1>8. CASE UNCHANGED lifeVars
  BY <1>0, <1>8
     DEF lifeVars, LInv, OwnedIsOpen, ClosesItsOwn, OnlySocketsOrphaned
<1> QED
  BY <1>3, <1>4, <1>5, <1>6, <1>7, <1>8 DEF LNext, LifeStep

(* A handle of any program closes only what is open and its own, however   *)
(* often it is closed and whatever was opened in between                   *)
(* (pueo_handle_close, rawio.c:268-273).                                   *)
THEOREM LClosesItsOwn == LSpec => []ClosesItsOwn
<1>1. LInv => ClosesItsOwn
  BY DEF LInv
<1> QED
  BY LInit_LInv, LStep, <1>1, PTL DEF LSpec

(* Of any number of initialisations and closes, failed ones included, no   *)
(* descriptor is left that nobody can close, but the sockets of            *)
(* pueo_handle_init_udp.                                                   *)
THEOREM LOnlySocketsOrphaned == LSpec => []OnlySocketsOrphaned
<1>1. LInv => OnlySocketsOrphaned
  BY DEF LInv
<1> QED
  BY LInit_LInv, LStep, <1>1, PTL DEF LSpec

(* No close, of an unused or a closed handle included, takes a descriptor  *)
(* from anyone but the handle that is zeroed with it.                      *)
THEOREM LOthersStayOpen == LSpec => OthersStayOpen
<1> DEFINE A == \A f \in Fds : table[f] # "closed" /\ table'[f] = "closed" =>
                  \/ owner[f] = "program"
                  \/ owner[f] \in Handles /\ hs'[owner[f]] = Zeroed
<1>1. LInv /\ [LNext]_lifeVars => [A]_lifeVars
  <2> SUFFICES ASSUME LInv, LNext, NEW f \in Fds,
                      table[f] # "closed", table'[f] = "closed"
               PROVE  \/ owner[f] = "program"
                      \/ owner[f] \in Handles /\ hs'[owner[f]] = Zeroed
    OBVIOUS
  <2>1. ASSUME NEW g \in Fds, NEW what \in {"file", "socket"},
               NEW who, Opens(g, what, who)
        PROVE  FALSE
    BY <2>1 DEF Opens, LInv, LTypeOK
  <2>2. ASSUME NEW h \in Handles, NEW uri \in Uris, NEW mode \in Modes,
               InitUri(h, uri, mode)
        PROVE  FALSE
    <3>1. ~InitFile(h, uri, mode)
      BY <2>1 DEF InitFile
    <3>2. ~InitUdp(h, uri, mode)
      BY <2>1 DEF InitUdp
    <3> QED
      BY <2>2, <3>1, <3>2 DEF InitUri, InitUdpUri
  <2>3. ASSUME NEW h \in Handles, InitFilep(h) \/ InitFd(h)
        PROVE  FALSE
    BY <2>3 DEF InitFilep, InitFd
  <2>4. ASSUME NEW h \in Handles, Close(h)
        PROVE  owner[f] \in Handles /\ hs'[owner[f]] = Zeroed
    <3>1. Opens(hs[h].aux, "closed", "nobody") /\ hs[h].close \in Closers
      BY <2>4 DEF Close, RunsClose
    <3>2. f = hs[h].aux
      BY <3>1 DEF Opens, LInv, LTypeOK
    <3>3. owner[f] = h
      BY <3>1, <3>2 DEF LInv, ClosesItsOwn
    <3> QED
      BY <2>4, <3>3 DEF Close, LInv, LTypeOK
  <2>5. CASE ProgramOpens
    BY <2>1, <2>5 DEF ProgramOpens
  <2>6. CASE ProgramCloses
    BY <2>6 DEF ProgramCloses, Opens, LInv, LTypeOK
  <2> QED
    BY <2>2, <2>3, <2>4, <2>5, <2>6 DEF LNext, LifeStep
<1> QED
  BY LInit_LInv, LStep, <1>1, PTL DEF LSpec, OthersStayOpen

(* Whatever an initialisation returned the handle may be closed, and after *)
(* -1 it is zero, unless a "udp:" uri was refused before hinit.            *)
THEOREM LRefusedIsZeroed == LSpec => []RefusedIsZeroed
<1>1. LInit => LInv /\ RefusedIsZeroed
  BY LInit_LInv DEF LInit, RefusedIsZeroed, NoCall
<1>2. LInv /\ RefusedIsZeroed /\ [LNext]_lifeVars => LInv' /\ RefusedIsZeroed'
  <2> SUFFICES ASSUME LInv, RefusedIsZeroed, [LNext]_lifeVars
               PROVE  RefusedIsZeroed'
    BY LStep
  <2>1. ASSUME NEW h \in Handles, NEW uri, NEW mode, NEW outcome,
               Returns(h, uri, mode, outcome),
               \A g \in Handles \ {h} : hs'[g] = hs[g],
               \/ hs'[h] = Zeroed \/ outcome = "done"
               \/ UriOf[uri].prefix = "udp" /\ outcome = "refused"
        PROVE  RefusedIsZeroed'
    <3>1. /\ call'[h] = [uri |-> uri, mode |-> mode, outcome |-> outcome]
          /\ \A g \in Handles \ {h} : call'[g] = call[g]
      BY <2>1 DEF Returns, LInv, LTypeOK
    <3> QED
      BY <2>1, <3>1 DEF RefusedIsZeroed
  <2>2. ASSUME NEW h \in Handles, NEW uri, NEW mode, NEW outcome,
               Leaves(h, uri, mode, outcome)
        PROVE  RefusedIsZeroed'
    <3>1. hs'[h] = Zeroed /\ \A g \in Handles \ {h} : hs'[g] = hs[g]
      BY <2>2 DEF Leaves, LInv, LTypeOK
    <3> QED
      BY <2>1, <2>2, <3>1 DEF Leaves
  <2>3. ASSUME NEW h \in Handles, NEW uri, NEW mode, NEW rec,
               hs' = [hs EXCEPT ![h] = rec], Returns(h, uri, mode, "done")
        PROVE  RefusedIsZeroed'
    <3>1. \A g \in Handles \ {h} : hs'[g] = hs[g]
      BY <2>3 DEF LInv, LTypeOK
    <3> QED
      BY <2>1, <2>3, <3>1
  <2>4. ASSUME NEW h \in Handles, NEW uri \in Uris, NEW mode \in Modes,
               InitUri(h, uri, mode)
        PROVE  RefusedIsZeroed'
    <3>1. InitFile(h, uri, mode) => RefusedIsZeroed'
      BY <2>2, <2>3 DEF InitFile
    <3>2. InitUdp(h, uri, mode) => RefusedIsZeroed'
      BY <2>2, <2>3 DEF InitUdp
    <3>3. CASE /\ UriOf[uri].prefix = "udp" /\ UNCHANGED hs
               /\ Returns(h, uri, mode, "refused")
      BY <2>1, <3>3
    <3>4. CASE UNCHANGED <<hs, call>>
      BY <3>4 DEF RefusedIsZeroed
    <3> QED
      BY <2>4, <3>1, <3>2, <3>3, <3>4 DEF InitUri, InitUdpUri
  <2>5. ASSUME NEW h \in Handles, InitFilep(h) \/ InitFd(h)
        PROVE  RefusedIsZeroed'
    BY <2>2, <2>3, <2>5 DEF InitFilep, InitFd, Given
  <2>6. ASSUME NEW h \in Handles, Close(h)
        PROVE  RefusedIsZeroed'
    <3>1. hs'[h] = Zeroed /\ \A g \in Handles \ {h} : hs'[g] = hs[g]
      BY <2>6 DEF Close, LInv, LTypeOK
    <3> QED
      BY <2>6, <3>1 DEF Close, RefusedIsZeroed
  <2>7. CASE UNCHANGED <<hs, call>>
    BY <2>7 DEF RefusedIsZeroed
  <2> QED
    BY <2>4, <2>5, <2>6, <2>7
       DEF LNext, LifeStep, ProgramOpens, ProgramCloses, lifeVars
<1> QED
  BY <1>1, <1>2, PTL DEF LSpec
=============================================================================
