----------------------------- MODULE HandleLife -----------------------------
(***************************************************************************)
(* The handles of one process, from the initialisation to the close, and   *)
(* the descriptors they hold (rawio.c:56-374).  A descriptor number is     *)
(* given again as soon as it is closed, always the lowest free one: a      *)
(* handle that is closed twice, or closed without having been initialised, *)
(* reaches whoever has the number by then.                                 *)
(***************************************************************************)
EXTENDS Integers

CONSTANTS
    Handles,    \* pueo_handle_t variables of the program
    Fds,        \* descriptor numbers the process may have (bound)
    Uris,       \* strings given to pueo_handle_init, or its siblings' arguments
    UriOf       \* what is in each, see UriShape

(* What the code looks at in a uri: the prefix, the suffix of the file     *)
(* name, whether "//" and ":" are found behind "udp:", whether the port is *)
(* in front of the host, and whether the string is in memory that may be   *)
(* written.                                                                *)
UriShape == [prefix : {"", "file", "udp"}, suffix : {"", ".gz", ".zst"},
             slashes : BOOLEAN, colon : BOOLEAN, portFirst : BOOLEAN,
             writable : BOOLEAN]

ASSUME LifeAssumption == /\ Handles \cap {"program", "nobody"} = {}
                         /\ Fds \subseteq Nat
                         /\ UriOf \in [Uris -> UriShape]

VARIABLES
    hs,         \* the fields of each handle
    table,      \* what each descriptor number is open on
    owner,      \* who has to close it
    call,       \* the last initialisation of each handle and its outcome
    uriCut,     \* the strings a '\0' was written into
    running     \* FALSE: the process has died

lifeVars == <<hs, table, owner, call, uriCut, running>>

NoFd == -1
NoCall == [uri |-> "none", mode |-> "none", outcome |-> "none"]
Modes == {"r", "w", "rw"}

(* The close function of a handle, the descriptor under its aux and the    *)
(* functions it has.                                                       *)
Handle == [close : {"junk", "NULL", "file_close", "gz_close", "fd_close",
                    "socket_close"},
           aux : Fds \cup {NoFd}, reads : BOOLEAN, writes : BOOLEAN]
Junk == [close |-> "junk", aux |-> NoFd, reads |-> FALSE, writes |-> FALSE]

(* hinit.                                                                  *)
Zeroed == [close |-> "NULL", aux |-> NoFd, reads |-> FALSE, writes |-> FALSE]

(* Nothing to lose by initialising h.                                      *)
Unused(h) == hs[h] \in {Junk, Zeroed}

LInit == /\ hs = [h \in Handles |-> Junk]
         /\ table = [f \in Fds |-> "closed"]
         /\ owner = [f \in Fds |-> "nobody"]
         /\ call = [h \in Handles |-> NoCall]
         /\ uriCut = {}
         /\ running = TRUE

-----------------------------------------------------------------------------
(* Outcomes of an initialisation: "done" returns 0, the others -1:         *)
(* "refused" by the library, "failed" by the system.                       *)

Returns(h, uri, mode, outcome) ==
    call' = [call EXCEPT ![h] = [uri |-> uri, mode |-> mode, outcome |-> outcome]]

LowestFree(f) == /\ table[f] = "closed"
                 /\ \A g \in Fds : g < f => table[g] # "closed"

Opens(f, what, who) == /\ table' = [table EXCEPT ![f] = what]
                       /\ owner' = [owner EXCEPT ![f] = who]

Leaves(h, uri, mode, outcome) ==
    /\ hs' = [hs EXCEPT ![h] = Zeroed]
    /\ Returns(h, uri, mode, outcome)

(* Mutant: the handle is zeroed only once the file is open.                *)
InitFileLate(h, uri, mode) ==
    \/ \E f \in Fds :
         /\ LowestFree(f)
         /\ Opens(f, "file", h)
         /\ hs' = [hs EXCEPT ![h] =
                     [close |-> IF UriOf[uri].suffix \in {".gz", ".zst"}
                                THEN "gz_close" ELSE "file_close",
                      aux |-> f, reads |-> TRUE, writes |-> TRUE]]
         /\ Returns(h, uri, mode, "done")
    \/ /\ Returns(h, uri, mode, "failed")
       /\ UNCHANGED <<hs, table, owner>>

(* pueo_handle_init_file: zlib behind .gz and behind .zst.  The system may *)
(* refuse any file.                                                        *)
InitFile(h, uri, mode) ==
    \/ \E f \in Fds :
         /\ LowestFree(f)
         /\ Opens(f, "file", h)
         /\ hs' = [hs EXCEPT ![h] =
                     [close |-> IF UriOf[uri].suffix \in {".gz", ".zst"}
                                THEN "gz_close" ELSE "file_close",
                      aux |-> f, reads |-> TRUE, writes |-> TRUE]]
         /\ Returns(h, uri, mode, "done")
    \/ /\ Leaves(h, uri, mode, "failed")
       /\ UNCHANGED <<table, owner>>

(* pueo_handle_init_udp: when the host is not found, or the address cannot *)
(* be bound or connected to, the socket stays open and nobody has it.      *)
InitUdp(h, uri, mode) ==
    \/ /\ mode = "rw"
       /\ Leaves(h, uri, mode, "refused")
       /\ UNCHANGED <<table, owner>>
    \/ /\ mode # "rw"
       /\ Leaves(h, uri, mode, "failed")
       /\ \/ UNCHANGED <<table, owner>>
          \/ \E f \in Fds : LowestFree(f) /\ Opens(f, "socket", "nobody")
    \/ /\ mode # "rw"
       /\ \E f \in Fds :
            /\ LowestFree(f)
            /\ Opens(f, "socket", h)
            /\ hs' = [hs EXCEPT ![h] =
                        [close |-> "socket_close", aux |-> f,
                         reads |-> mode = "r", writes |-> mode = "w"]]
            /\ Returns(h, uri, mode, "done")

(* pueo_handle_init on "udp:": the host is behind the first "//", the port *)
(* behind the first ":" of what follows the prefix, where the caller's     *)
(* string is cut.                                                          *)
InitUdpUri(h, uri, mode) ==
    LET u == UriOf[uri]
    IN  \/ /\ ~u.slashes \/ ~u.colon \/ uri \in uriCut
           /\ Returns(h, uri, mode, "refused")
           /\ UNCHANGED <<hs, table, owner, uriCut, running>>
        \/ /\ u.slashes /\ u.colon /\ uri \notin uriCut /\ u.writable
           /\ uriCut' = uriCut \cup {uri}
           /\ InitUdp(h, uri, mode)
           /\ UNCHANGED running
        \/ /\ u.slashes /\ u.colon /\ uri \notin uriCut /\ ~u.writable
           /\ running' = FALSE
           /\ UNCHANGED <<hs, table, owner, call, uriCut>>

(* pueo_handle_init.                                                       *)
InitUri(h, uri, mode) ==
    /\ running /\ Unused(h)
    /\ \/ /\ UriOf[uri].prefix = "udp"
          /\ InitUdpUri(h, uri, mode)
       \/ /\ UriOf[uri].prefix # "udp"
          /\ InitFile(h, uri, mode)
          /\ UNCHANGED <<uriCut, running>>

-----------------------------------------------------------------------------
(* Descriptors and FILEs of the program's own.                             *)

ProgramOpens ==
    /\ running
    /\ \E f \in Fds : LowestFree(f) /\ Opens(f, "file", "program")
    /\ UNCHANGED <<hs, call, uriCut, running>>

(* The program keeps what it has lent until the handle is done with it.    *)
ProgramCloses ==
    /\ running
    /\ \E f \in Fds : /\ owner[f] = "program"
                      /\ \A h \in Handles : hs[h].aux # f
                      /\ Opens(f, "closed", "nobody")
    /\ UNCHANGED <<hs, call, uriCut, running>>

Given(h, f, closer) ==
    hs' = [hs EXCEPT ![h] = [close |-> closer, aux |-> f,
                             reads |-> TRUE, writes |-> TRUE]]

NotGiven(f) == owner[f] = "program" /\ \A h \in Handles : hs[h].aux # f

(* Mutant: a FILE is closed with its handle in any case.                   *)
InitFilepCloses(h) ==
    /\ running /\ Unused(h)
    /\ \/ \E f \in Fds, close \in BOOLEAN :
            /\ NotGiven(f)
            /\ owner' = IF close THEN [owner EXCEPT ![f] = h] ELSE owner
            /\ Given(h, f, "file_close")
            /\ Returns(h, "none", "r", "done")
       \/ Leaves(h, "none", "r", "refused") /\ UNCHANGED owner
    /\ UNCHANGED <<table, uriCut, running>>

(* pueo_handle_init_filep, also of a NULL FILE.                            *)
InitFilep(h) ==
    /\ running /\ Unused(h)
    /\ \/ \E f \in Fds, close \in BOOLEAN :
            /\ NotGiven(f)
            /\ owner' = IF close THEN [owner EXCEPT ![f] = h] ELSE owner
            /\ Given(h, f, IF close THEN "file_close" ELSE "NULL")
            /\ Returns(h, "none", "r", "done")
       \/ Leaves(h, "none", "r", "refused") /\ UNCHANGED owner
    /\ UNCHANGED <<table, uriCut, running>>

(* Mutant: a descriptor is not closed with its handle.                     *)
InitFdKeeps(h) ==
    /\ running /\ Unused(h)
    /\ \/ \E f \in Fds :
            /\ NotGiven(f)
            /\ owner' = [owner EXCEPT ![f] = h]
            /\ Given(h, f, "NULL")
            /\ Returns(h, "none", "r", "done")
       \/ Leaves(h, "none", "r", "refused") /\ UNCHANGED owner
    /\ UNCHANGED <<table, uriCut, running>>

(* pueo_handle_init_fd and pueo_handle_init_fd_with_desc, also of a        *)
(* negative number: the handle closes the descriptor.                      *)
InitFd(h) ==
    /\ running /\ Unused(h)
    /\ \/ \E f \in Fds :
            /\ NotGiven(f)
            /\ owner' = [owner EXCEPT ![f] = h]
            /\ Given(h, f, "fd_close")
            /\ Returns(h, "none", "r", "done")
       \/ Leaves(h, "none", "r", "refused") /\ UNCHANGED owner
    /\ UNCHANGED <<table, uriCut, running>>

-----------------------------------------------------------------------------
(* pueo_handle_close, which the programs call on every handle they have    *)
(* called an initialisation on, whatever it returned, and may call twice.  *)

Closers == {"file_close", "gz_close", "fd_close", "socket_close"}

(* h->close(h): whatever has the number is closed; junk kills the process. *)
RunsClose(h) ==
    \/ /\ hs[h].close \in Closers /\ hs[h].aux \in Fds
       /\ Opens(hs[h].aux, "closed", "nobody")
       /\ UNCHANGED running
    \/ /\ hs[h].close = "NULL"
       /\ UNCHANGED <<table, owner, running>>
    \/ /\ hs[h].close = "junk"
       /\ running' = FALSE
       /\ UNCHANGED <<table, owner>>

(* Mutant: the handle keeps its fields.                                    *)
CloseKeeps(h) ==
    /\ running /\ call[h] # NoCall
    /\ RunsClose(h)
    /\ UNCHANGED <<hs, call, uriCut>>

Close(h) ==
    /\ running /\ call[h] # NoCall
    /\ RunsClose(h)
    /\ hs' = [hs EXCEPT ![h] = Zeroed]
    /\ UNCHANGED <<call, uriCut>>

LifeStep(H) ==
    \/ ProgramOpens
    \/ ProgramCloses
    \/ \E h \in H :
         \/ \E uri \in Uris, mode \in Modes : InitUri(h, uri, mode)
         \/ InitFilep(h)
         \/ InitFd(h)
         \/ Close(h)

LNext == LifeStep(Handles)

LSpec == LInit /\ [][LNext]_lifeVars

-----------------------------------------------------------------------------
(* Properties.                                                             *)

LTypeOK ==
    /\ hs \in [Handles -> Handle]
    /\ table \in [Fds -> {"closed", "file", "socket"}]
    /\ owner \in [Fds -> Handles \cup {"program", "nobody"}]
    /\ call \in [Handles -> [uri : Uris \cup {"none"},
                             mode : Modes \cup {"none"},
                             outcome : {"none", "done", "refused", "failed"}]]
    /\ uriCut \subseteq Uris
    /\ running \in BOOLEAN

(* What the close function of a handle will close is open and is the       *)
(* handle's to close: never a number another handle, or the program, has   *)
(* been given since, nor a FILE that was lent (hinit in                    *)
(* pueo_handle_close, the close flag of pueo_handle_init_filep).           *)
ClosesItsOwn ==
    \A h \in Handles : hs[h].close \in Closers =>
        /\ hs[h].aux \in Fds
        /\ owner[hs[h].aux] = h /\ table[hs[h].aux] # "closed"

(* A descriptor is closed only with the handle that has it, which is       *)
(* zeroed in the same step, or by the program that opened it: a second     *)
(* pueo_handle_close reaches nobody.                                       *)
OthersStayOpen ==
    [][\A f \in Fds : table[f] # "closed" /\ table'[f] = "closed" =>
         \/ owner[f] = "program"
         \/ owner[f] \in Handles /\ hs'[owner[f]] = Zeroed]_lifeVars

(* Whoever has to close an open descriptor still can: a handle that has    *)
(* one has the function and the number to close it with.  The one          *)
(* exception is the socket of a pueo_handle_init_udp that failed behind    *)
(* socket() (rawio.c:307, 321, 337).                                       *)
OnlySocketsOrphaned ==
    \A f \in Fds : table[f] # "closed" =>
        \/ owner[f] = "program"
        \/ owner[f] = "nobody" /\ table[f] = "socket"
        \/ owner[f] \in Handles /\ hs[owner[f]].aux = f
                                /\ hs[owner[f]].close \in Closers

(* Any initialisation may be followed by a close whatever it returned, and *)
(* leaves a handle that holds nothing when it returned -1, except that of  *)
(* a "udp:" uri that is refused, as one without "//" or ":".               *)
RefusedIsZeroed ==
    \A h \in Handles :
        call[h].outcome \in {"refused", "failed"} /\ hs[h] # Zeroed =>
            /\ UriOf[call[h].uri].prefix = "udp"
            /\ call[h].outcome = "refused"

(* What rawio.h says of pueo_handle_init: "udp:port//host" is a udp socket *)
(* (rawio.h:98), the handle "will be zeroed out!" (:100), the uri is const *)
(* (:105), and a file ".zst" is read with zstd (:108).  Looked at once     *)
(* every string has been given to some handle.                             *)
InitAsDocumented ==
    (\A uri \in Uris : \E h \in Handles : call[h].uri = uri) =>
        /\ \A h \in {g \in Handles : call[g].uri \in Uris} :
             LET u == UriOf[call[h].uri]
             IN  /\ u.prefix = "udp" /\ u.slashes /\ u.portFirst
                      /\ call[h].mode # "rw" => call[h].outcome # "refused"
                 /\ call[h].outcome # "done" => hs[h] # Junk
                 /\ u.suffix = ".zst" => hs[h].close # "gz_close"
        /\ uriCut = {}
=============================================================================
