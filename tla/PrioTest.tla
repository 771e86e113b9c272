------------------------------ MODULE PrioTest ------------------------------
(***************************************************************************)
(* The loader of a prioritizer (src/prio_interface.c) and the program that *)
(* feeds it the events of one file after another (test/test-prio.c), in a  *)
(* process that has other handles too (HandleLife).  What the prioritizer  *)
(* computes is not modelled, what it is handed is.                         *)
(***************************************************************************)
EXTENDS HandleLife, Sequences

CONSTANTS
    TestHandle,     \* h of test-prio.c
    WaveFile,       \* wf_file, the same member of Uris for every number
    Libraries,      \* paths given to pueo_prio_create
    Exports,        \* the functions each has; a path that is not in the
                    \* domain cannot be opened
    MaxBatch,       \* PUEO_PRIO_MAX_BATCH
    InBatch,        \* n_in_batch
    MaxFile         \* files read (bound; 99 in the program)

(* PUEO_PRIO_FUNCTIONS, in its order.                                      *)
Functions == <<"init", "configure", "compute", "destroy">>

ASSUME PrioAssumption ==
    /\ TestHandle \in Handles /\ WaveFile \in Uris
    /\ DOMAIN Exports \subseteq Libraries
    /\ MaxBatch \in Nat \ {0} /\ InBatch \in 1 .. MaxBatch /\ MaxFile \in Nat

VARIABLES
    impl,       \* pueo_prio_impl_t: the library each function is from
    loaded,     \* libraries opened; none is ever closed
    pc,         \* where the program is
    file,       \* the number of the file it is reading
    n,          \* events read from it
    batch       \* the file each entry of events[] is from, 0 for none

prioVars == <<impl, loaded, pc, file, n, batch>>
vars == <<lifeVars, prioVars>>

PInit == /\ LInit
         /\ impl = [i \in 1 .. Len(Functions) |-> "junk"]
         /\ loaded = {}
         /\ pc = "start" /\ file = 0 /\ n = 0
         /\ batch = [i \in 1 .. MaxBatch |-> 0]

-----------------------------------------------------------------------------
(* pueo_prio_create.                                                       *)

Missing(lib) == {i \in 1 .. Len(Functions) : Functions[i] \notin Exports[lib]}

(* Mutant: a symbol that is not found is skipped.                          *)
LoadSkipping(lib) ==
    /\ pc \in {"start", "loaded"}
    /\ \/ /\ lib \notin DOMAIN Exports
          /\ pc' = "start"
          /\ UNCHANGED <<impl, loaded>>
       \/ /\ lib \in DOMAIN Exports
          /\ loaded' = loaded \cup {lib}
          /\ impl' = [i \in DOMAIN impl |-> IF i \in Missing(lib) THEN "NULL" ELSE lib]
          /\ pc' = "loaded"
    /\ running /\ UNCHANGED <<lifeVars, file, n, batch>>

(* It gives up at the first function that is not found: those before it    *)
(* are replaced, those behind it are not, the library stays open.  A       *)
(* program goes on only when 0 is returned, and may try another path when  *)
(* it is not.                                                              *)
Load(lib) ==
    /\ pc \in {"start", "loaded"}
    /\ \/ /\ lib \notin DOMAIN Exports
          /\ pc' = "start"
          /\ UNCHANGED <<impl, loaded>>
       \/ /\ lib \in DOMAIN Exports
          /\ loaded' = loaded \cup {lib}
          /\ impl' = [i \in DOMAIN impl |->
                        IF \E m \in Missing(lib) : m < i THEN impl[i]
                        ELSE IF i \in Missing(lib) THEN "NULL" ELSE lib]
          /\ pc' = IF Missing(lib) = {} THEN "loaded" ELSE "start"
    /\ running /\ UNCHANGED <<lifeVars, file, n, batch>>

-----------------------------------------------------------------------------
(* The loop over the files.                                                *)

(* Mutant: n goes on counting.                                             *)
OpenFileCountingOn ==
    /\ pc \in {"loaded", "closed"} /\ file < MaxFile
    /\ InitUri(TestHandle, WaveFile, "r")
    /\ pc' = "reading" /\ file' = file + 1
    /\ UNCHANGED <<impl, loaded, n, batch>>

(* Mutant: one file more.                                                  *)
OpenFileOnceMore ==
    /\ pc \in {"loaded", "closed"} /\ file <= MaxFile
    /\ InitUri(TestHandle, WaveFile, "r")
    /\ pc' = "reading" /\ file' = file + 1 /\ n' = 0
    /\ UNCHANGED <<impl, loaded, batch>>

(* What pueo_handle_init returns is not looked at.                         *)
OpenFile ==
    /\ pc \in {"loaded", "closed"} /\ file < MaxFile
    /\ InitUri(TestHandle, WaveFile, "r")
    /\ pc' = "reading" /\ file' = file + 1 /\ n' = 0
    /\ UNCHANGED <<impl, loaded, batch>>

(* pueo_read_full_waveforms calls h->read_bytes, NULL when the file could  *)
(* not be opened.  An event beyond events[] is written over what is behind *)
(* it: the run is taken to end there.                                      *)
ReadEvent ==
    /\ pc = "reading" /\ running
    /\ \/ /\ hs[TestHandle].reads /\ n < MaxBatch
          /\ batch' = [batch EXCEPT ![n + 1] = file]
          /\ n' = n + 1
          /\ UNCHANGED <<lifeVars, pc>>
       \/ /\ hs[TestHandle].reads
          /\ pc' = "read"
          /\ UNCHANGED <<lifeVars, n, batch>>
       \/ /\ ~hs[TestHandle].reads \/ n = MaxBatch
          /\ running' = FALSE
          /\ UNCHANGED <<hs, table, owner, call, uriCut, pc, n, batch>>
    /\ UNCHANGED <<impl, loaded, file>>

(* Always n_in_batch events are computed, however many were read.          *)
Compute ==
    /\ pc = "read" /\ running
    /\ pc' = "computed"
    /\ UNCHANGED <<lifeVars, impl, loaded, file, n, batch>>

CloseFile ==
    /\ pc = "computed"
    /\ Close(TestHandle)
    /\ pc' = "closed"
    /\ UNCHANGED <<impl, loaded, file, n, batch>>

PNext == \/ \E lib \in Libraries : Load(lib)
         \/ OpenFile \/ ReadEvent \/ Compute \/ CloseFile
         \/ LifeStep(Handles \ {TestHandle}) /\ UNCHANGED prioVars

PSpec == PInit /\ [][PNext]_vars

-----------------------------------------------------------------------------
(* Properties.                                                             *)

PTypeOK ==
    /\ LTypeOK
    /\ impl \in [1 .. Len(Functions) -> Libraries \cup {"junk", "NULL"}]
    /\ loaded \subseteq Libraries
    /\ pc \in {"start", "loaded", "reading", "read", "computed", "closed"}
    /\ file \in 0 .. MaxFile /\ n \in 0 .. MaxBatch
    /\ batch \in [1 .. MaxBatch -> 0 .. MaxFile]

(* A program that has been told 0 by pueo_prio_create calls four functions *)
(* of one library that is open, whatever attempts failed before and left   *)
(* part of a table behind (prio_interface.c:6-8).                          *)
UsedIsWhole ==
    pc # "start" =>
        \E lib \in loaded : \A i \in 1 .. Len(Functions) : impl[i] = lib

(* The prioritizer is handed an event of an earlier file only when the     *)
(* file had less than n_in_batch (test-prio.c:48, 51, 72): events[] is not  *)
(* cleared between files, what was read from this one is in front.         *)
StaleOnlyWhenShort ==
    pc = "computed" =>
        \A i \in 1 .. InBatch : batch[i] # file => n < i
=============================================================================
