--------------------------- MODULE PrioTest_proofs --------------------------
(***************************************************************************)
(* PrioTest for every set of libraries, every batch and number of files.   *)
(***************************************************************************)
EXTENDS PrioTest, HandleLife_proofs

(* What was read from the open file is in front of events[].               *)
FreshInFront ==
    /\ n \in 0 .. MaxBatch
    /\ batch \in [1 .. MaxBatch -> 0 .. MaxFile] /\ file \in 0 .. MaxFile
    /\ pc \in {"reading", "read", "computed"} => \A i \in 1 .. n : batch[i] = file

Whole == /\ DOMAIN impl = 1 .. Len(Functions)
         /\ UsedIsWhole

(* A program that was told 0 has one whole, open library.                  *)
THEOREM PUsedIsWhole == PSpec => []UsedIsWhole
<1>1. PInit => Whole
  BY DEF PInit, Whole, UsedIsWhole
<1>2. Whole /\ [PNext]_vars => Whole'
  <2> SUFFICES ASSUME Whole, [PNext]_vars PROVE Whole'
    OBVIOUS
  <2>1. ASSUME NEW lib \in Libraries, Load(lib)
        PROVE  Whole'
    <3>1. CASE pc' = "start"
      BY <2>1, <3>1 DEF Load, Whole, UsedIsWhole
    <3>2. CASE pc' = "loaded" /\ Missing(lib) = {} /\ lib \in DOMAIN Exports
      <4>1. /\ loaded' = loaded \cup {lib}
            /\ impl' = [i \in DOMAIN impl |->
                          IF \E m \in Missing(lib) : m < i THEN impl[i]
                          ELSE IF i \in Missing(lib) THEN "NULL" ELSE lib]
        BY <2>1, <3>2 DEF Load
      <4>2. impl' = [i \in DOMAIN impl |-> lib]
        BY <3>2, <4>1
      <4> QED
        BY <4>1, <4>2 DEF Whole, UsedIsWhole
    <3> QED
      BY <2>1, <3>1, <3>2 DEF Load
  <2>2. CASE OpenFile \/ CloseFile
    BY <2>2 DEF OpenFile, CloseFile, Whole, UsedIsWhole
  <2>3. CASE ReadEvent \/ Compute
    BY <2>3 DEF ReadEvent, Compute, Whole, UsedIsWhole
  <2>4. CASE UNCHANGED prioVars
    BY <2>4 DEF prioVars, Whole, UsedIsWhole
  <2> QED
    BY <2>1, <2>2, <2>3, <2>4 DEF PNext, vars
<1>3. Whole => UsedIsWhole
  BY DEF Whole
<1> QED
  BY <1>1, <1>2, <1>3, PTL DEF PSpec

(* An event of an earlier file is handed over only when the file had less  *)
(* events than are computed.                                               *)
THEOREM PStaleOnlyWhenShort == PSpec => []StaleOnlyWhenShort
<1> USE PrioAssumption
<1>1. PInit => FreshInFront
  BY DEF PInit, FreshInFront
<1>2. FreshInFront /\ [PNext]_vars => FreshInFront'
  <2> SUFFICES ASSUME FreshInFront, [PNext]_vars PROVE FreshInFront'
    OBVIOUS
  <2>1. ASSUME NEW lib \in Libraries, Load(lib)
        PROVE  FreshInFront'
    BY <2>1 DEF Load, FreshInFront
  <2>2. CASE OpenFile
    BY <2>2 DEF OpenFile, FreshInFront
  <2>3. CASE ReadEvent
    <3>1. ASSUME n < MaxBatch, batch' = [batch EXCEPT ![n + 1] = file],
                 n' = n + 1, UNCHANGED <<pc, file>>, pc = "reading"
          PROVE  FreshInFront'
      BY <3>1 DEF FreshInFront
    <3>2. ASSUME UNCHANGED <<n, batch, file>>, pc = "reading"
          PROVE  pc' \in {"reading", "read"} => FreshInFront'
      BY <3>2 DEF FreshInFront
    <3> QED
      BY <2>3, <3>1, <3>2 DEF ReadEvent, lifeVars
  <2>4. CASE Compute \/ CloseFile
    BY <2>4 DEF Compute, CloseFile, FreshInFront
  <2>5. CASE UNCHANGED prioVars
    BY <2>5 DEF prioVars, FreshInFront
  <2> QED
    BY <2>1, <2>2, <2>3, <2>4, <2>5 DEF PNext, vars
<1>3. FreshInFront => StaleOnlyWhenShort
  BY DEF FreshInFront, StaleOnlyWhenShort
<1> QED
  BY <1>1, <1>2, <1>3, PTL DEF PSpec


-----------------------------------------------------------------------------
(* The process of test-prio.c as a process with handles.                   *)

(* A step of it is a step of HandleLife, or ends the process.              *)
LEMMA PStepOfLife ==
    ASSUME [PNext]_vars
    PROVE  \/ [LNext]_lifeVars
           \/ running' = FALSE /\ UNCHANGED <<hs, table, owner, call, uriCut>>
<1> USE PrioAssumption
<1>1. CASE OpenFile
  BY <1>1 DEF OpenFile, LNext, LifeStep, Modes
<1>2. CASE CloseFile
  BY <1>2 DEF CloseFile, LNext, LifeStep
<1>3. CASE ReadEvent
  BY <1>3 DEF ReadEvent, lifeVars
<1>4. CASE Compute \/ \E lib \in Libraries : Load(lib)
  BY <1>4 DEF Compute, Load
<1>5. CASE LifeStep(Handles \ {TestHandle})
  BY <1>5 DEF LNext, LifeStep
<1>6. CASE UNCHANGED vars
  BY <1>6 DEF vars
<1> QED
  BY <1>1, <1>2, <1>3, <1>4, <1>5, <1>6 DEF PNext

(* So the handles are as in HandleLife: the ones of the files that are     *)
(* opened one after the other, and all others.                             *)
LEMMA PLife == PSpec => []LInv
<1>1. PInit => LInv
  BY LInit_LInv DEF PInit
<1>2. LInv /\ [PNext]_vars => LInv'
  <2> SUFFICES ASSUME LInv, [PNext]_vars PROVE LInv'
    OBVIOUS
  <2>1. CASE [LNext]_lifeVars
    BY <2>1, LStep
  <2>2. CASE running' = FALSE /\ UNCHANGED <<hs, table, owner, call, uriCut>>
    BY <2>2 DEF LInv, LTypeOK, OwnedIsOpen, ClosesItsOwn, OnlySocketsOrphaned
  <2> QED
    BY <2>1, <2>2, PStepOfLife
<1> QED
  BY <1>1, <1>2, PTL DEF PSpec

(* Closing the file of one number, and opening the next one in the same    *)
(* handle, never closes what another handle of the process was given       *)
(* (test-prio.c:50-72).                                                    *)
THEOREM PClosesItsOwn == PSpec => []ClosesItsOwn
<1>1. LInv => ClosesItsOwn
  BY DEF LInv
<1> QED
  BY <1>1, PLife, PTL

(* The table of functions is a table of four, the batch has room for what  *)
(* is read, and files are counted up to the bound.                         *)
THEOREM PTypeCorrect == PSpec => []PTypeOK
<1> DEFINE Own == /\ impl \in [1 .. Len(Functions) -> Libraries \cup {"junk", "NULL"}]
                  /\ loaded \subseteq Libraries
                  /\ pc \in {"start", "loaded", "reading", "read", "computed", "closed"}
                  /\ file \in 0 .. MaxFile /\ n \in 0 .. MaxBatch
                  /\ batch \in [1 .. MaxBatch -> 0 .. MaxFile]
<1> USE PrioAssumption
<1>1. PInit => Own
  BY DEF PInit
<1>2. Own /\ [PNext]_vars => Own'
  <2> SUFFICES ASSUME Own, [PNext]_vars PROVE Own'
    OBVIOUS
  <2>1. ASSUME NEW lib \in Libraries, Load(lib) PROVE Own'
    BY <2>1 DEF Load
  <2>2. CASE OpenFile
    BY <2>2 DEF OpenFile
  <2>3. CASE ReadEvent
    <3>1. CASE n < MaxBatch /\ batch' = [batch EXCEPT ![n + 1] = file]
                 /\ n' = n + 1 /\ UNCHANGED <<pc, impl, loaded, file>>
      BY <3>1
    <3>2. CASE pc' \in {pc, "read"} /\ UNCHANGED <<n, batch, impl, loaded, file>>
      BY <3>2
    <3> QED
      BY <2>3, <3>1, <3>2 DEF ReadEvent
  <2>4. CASE Compute \/ CloseFile
    BY <2>4 DEF Compute, CloseFile
  <2>5. CASE UNCHANGED prioVars
    BY <2>5 DEF prioVars
  <2> QED
    BY <2>1, <2>2, <2>3, <2>4, <2>5 DEF PNext, vars
<1>3. LInv /\ Own => PTypeOK
  BY DEF LInv, PTypeOK
<1> QED
  BY <1>1, <1>2, <1>3, PLife, PTL DEF PSpec
=============================================================================
