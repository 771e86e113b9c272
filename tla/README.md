# A verification project for libpueorawdata

libpueorawdata defines the packets of the PUEO instrument, writes them to and
reads them from files, pipes and UDP sockets, and inserts housekeeping packets
into databases. This directory holds TLA+ modules that model the library's own
logic, TLC configurations that check them on small instances, and eight proof
modules checked by TLAPS. Paths are relative to the repository.

To repeat the checks, with `tlc` and `tlapm` on the path:

    tlc -config FileStream_clean.cfg MCStream.tla      # any run of PROJECT.json
    tlapm HandleRead_proofs.tla    # and PacketReading_, FileStream_, UdpStream_,
                                   # HandleLife_, PrioTest_, DbHandle_, OldData_proofs

`PROJECT.json` lists the runs, the mutant each property was seen to reject, the
lines every definition stands for, the hazards, the findings and the theorems.

## 1. Inventory

| Component | State it keeps | Operations | What is hard | What makes it correct |
|---|---|---|---|---|
| Packet format, codecs (`src/rawio_packets.c`, `rawio_versions.[ch]`, `inc/pueo/rawdata.h`) | none | `pueo_write_packet_X`, `pueo_read_packet_X`, `pueo_packet_header_for_X` for three families: simple (one struct, cut by version), variable (fixed part, then a counted array), waveform (prefix by version, then waveforms) | old versions, counts read from the data, memory used again, short reads between two regions | what was written comes back, and nothing of an earlier packet |
| Read side of a handle (`src/rawio.c:410-548`) | `last_read_header`, `required_read_size`, the flag ALREADY_READ_HEAD, `bytes_read`; the client's `pueo_packet_t` | `pueo_ll_read`, `pueo_ll_read_realloc`, `pueo_read_X`, `pueo_packet_as_X` | a call ends with -EMSGSIZE and the next one goes on; low-level and typed calls share the same fields; EOF, errors and short reads in the middle | header, size, type and buffer belong together; room for the payload; each packet once, in order |
| Write side (`src/rawio.c:380-392, 550-573`) | `packet_write_counter`, `bytes_written` | `pueo_ll_write`, `pueo_write_X` | short and failed writes between regions | counters agree with what went out |
| File, gz and fd backends (`rawio.c:70-86, 148-181`) | the descriptor; behind it stdio's buffer | `read_bytes`, `write_bytes`, `close` | a reader that follows a writer, crash and append, short reads and writes | whatever happens, a packet returned without a warning was written so |
| UDP backend (`rawio.c:46-53, 88-145`) | `udp_aux`: buf, nin, nout | `write_bytes`, `done_write_packet`, `read_bytes` | loss, duplication, reordering; a read of no bytes; packets larger than a datagram | one datagram is one packet |
| Handle initialisation, URIs (`rawio.c:56-375`) | the close function and the descriptor of each handle; descriptor numbers, which the system gives again | `pueo_handle_init*`, `pueo_handle_close` | refusals and failures half way, closing twice or after a failure, lent and given files | a handle closes what is its own, once, and nothing is left open |
| Database handle (`src/rawio_db.c:39-372, 700-731`) | `state`, the stream of the insert in progress, the connection | `pueo_db_handle_open_X`, `begin_sql_stream`, `commit_sql_stream`, `pueo_db_handle_close` | several processes; failures at any point; a lost connection; names of files taken from the clock | a handle stays usable; 0 means stored; files of others are left alone |
| Statements and tables (`src/rawio_db.c:376-697, 734-1146`) | none | `pueo_db_insert_X`, `init_db` | lists of tables, columns, kinds and quotes kept in several places | what is inserted has a table, parses, and is filed under its columns |
| Struct layouts of old versions (`src/rawio_versions.h`, `inc/pueo/rawdata.h`) | none | - | which old struct is a prefix of the new one, tail padding, bit-fields | the new struct holds the old members |
| Sensor tables (`src/sensor_ids.c`, `inc/pueo/sensor_ids*.h`) | constants | lookup by identifier and magic | two generations of identifiers | a reading is attributed to the sensor it was flown from |
| Dumping (`src/rawio_dump.c`) | none | `pueo_dump_X` | memory that was not read | only the packet just read is printed |
| Prioritizer loader (`src/prio_interface.c`, `test/test-prio.c`) | a table of function pointers; the batch of events | `pueo_prio_create`, the loop over files | a missing symbol, a short file | the table is whole when it is used, the batch is of one file |
| Checksum (`src/pueocrc.c`), other programs (`progs/`, `test/`) | none | - | - | - |

How they interact: a program calls the handle; the handle calls the codec of
the packet's type; the codec calls back `read_bytes` or `write_bytes` of the
backend, once per region, and the UDP backend in its turn sets a flag of the
handle. Two handles, in two processes, meet in a file, a pipe or the network.
A program that stores packets reads them through one handle and passes them to
`pueo_db_insert_packet`, which prints SQL into a stream that the backend turns
into a transaction, a series of them, or a file.

A process that holds several handles shares its descriptor numbers between them
and with files of its own.

## 2. Plan

The order of work was: the packet format and the read side, with proofs; the
two sides composed over files, pipes and UDP, with proofs; the databases, with
proofs; the data of old versions with the sensor tables; the life of handles
and descriptors with the loader of the prioritizer, with proofs; what the
streams promise when nothing goes wrong, with proofs; last, the layout of
structs and the proofs about old data that rest on it. All of it is done. What
could follow is the refinement `FIFO` for a pipe or for a reader that follows
the writer, under the condition that no read meets the end of the data within a
packet.

## 3. Modules

| Module | Models | State | Actions |
|---|---|---|---|
| `PacketFormat` | packets on the wire and in memory | none | - |
| `HandleRead` | the read side of a handle and its client | `h` the handle, `pkt` the client's packet, `call` the call in progress with its place (`pc`), `sent` the packets that entered the medium, `out` what was returned | the client's calls (`LLRead`, `LLReadRealloc`, `TypedRead`, `ClientAllocates`); one action per `read_bytes` with what follows it up to the next (`HeaderArrives` .. `WaveData`); the steps between (`TooSmall`, `Dispatch`, `SimpleBadVersion`, `Check`) |
| `HandleWrite` | the write side, as functions of a writer's record | - | `Begin`, `HeadWritten`, `RegionWritten`, `Done` |
| `FileStream` | a writer and a reader on a file or pipe; extends `HandleRead`, instantiates `HandleWrite` | `w`, `buf` (stdio's buffer), `stream`, `rpos`, `faults` | writes, short writes, `Flush` at any byte, `Crash`, `FileRead`, `PipeRead`, `PipeReadFails` |
| `UdpStream` | a writer and a reader on UDP | `w`, `wbuf`, `net`, `rbuf`, `nout` | `SocketWrite`, `SocketDone`, `Lose`, `Duplicate`, `ReadOn`, `ReadNext`, `ReadFails` |
| `PacketQueue` | what a stream promises: packets out once, in order | `queue`, `taken` | `Put`, `Take` |
| `DbSchema` | statements, kinds and tables of `rawio_db.c` | none | - |
| `DbHandle` | processes with a handle each on one database or directory | `hs[p]` the handle and its call, `attempts` what was begun and returned, `db` rows, `tables`, `files`, `lost` what stdio dropped, `faults` | `Open`, `Close`, `Dies`, `BeginStream`/`NoStream` inside `InitBegins` and `Insert`, `PrintStatement`, `PrintFails`, `FlushFile`, `FlushFails`, one commit per backend, `ExecStatement`, `ExecFindsNothing` |
| `AtomicStore` | rows of a packet enter together or not at all | `offered`, `missing`, `rows` | `Offer`, `Miss`, `Store` |
| `StructLayout` | the members of every version of the five packets that have several, where the compiler puts them, and what bits of one struct are in another | none | - |
| `SensorIds` | both generations of sensors and the lookup functions | none | - |
| `OldData` | `test/read-packets.c` on archives of packets of any version: read, dump, insert, write again | `file`, `copy`, `mem` the packet in memory, `printed`, `rows` | `Read`, `Dump`, `Insert`, `Write`, `EndOfFile`, `RunAgain` on the copy |
| `HandleLife` | handles and descriptors of one process | `hs[h]` the handle, `table` and `owner` of descriptor numbers, `call` the last initialisation, `uriCut` strings that were written to, `running` | `InitUri` (file, gz, UDP), `InitFilep`, `InitFd`, `Close`, and the program's own `ProgramOpens`, `ProgramCloses` |
| `PrioTest` | `pueo_prio_create` and `test/test-prio.c`; extends `HandleLife` | `impl` the table, `loaded`, `file`, `n`, `batch` | `Load`, `OpenFile`, `ReadEvent`, `Compute`, `CloseFile`; other handles of the process step in between |
| `HandleRead_proofs`, `FileStream_proofs`, `UdpStream_proofs`, `HandleLife_proofs`, `PrioTest_proofs`, `DbHandle_proofs`, `OldData_proofs` | theorems about the modules they are named after | | |
| `PacketReading_proofs` | where the cells of a packet lie, and the reader that is given exactly them; lemmas that `FileStream_proofs` and `UdpStream_proofs` rest on | | |
| `MCRead`, `MCStream`, `MCUdp`, `MCDb`, `MCOldData`, `MCLife`, `MCHandles` | the instances TLC checks | | |

A `scene` of `FileStream` and `UdpStream` is chosen at the start and never
changes: the medium, the calls the reading program makes and the number of
faults. One run then covers several media and clients.

### How bytes are abstracted

Bytes are grouped into cells, the smallest runs that the reader and the writer
tell apart: two for a header, one per version step of a prefix, one for the
fixed part of a group (which holds its element count), one per element. A cell
is named after the packet and the place it was written from, so that a reader
that has lost its place gets cells that do not belong where they are read.
What such a cell means as a header or as a count is a nondeterministic choice
within the bounds `Versions` and `Lengths` and the capacity of the array.

Idealisations, all of them in favour of the code:

* a checksum is the identity of the packet whose bytes it covers: no collisions,
  and two packets never have equal bytes;
* an element count read from misplaced bytes is within the array of a variable
  packet (a larger one is cut down for waveforms, as in the code, and for
  variable packets would read past the struct, which the model has no memory
  for); for the same reason the three readers whose memset starts at the number
  of bytes read are modelled inside the struct;
* cells carry no padding inside a struct; padding, and old structs that are not
  prefixes of new ones, are the subject of `StructLayout` and `OldData`;
* `assert(f1 == 0xf1)` is compiled out, as in the default Release build: with
  it, misplaced headers would abort the reader;
* gz streams are treated as files; the framing of zlib is not modelled;
* `pueo_read_X` reads into the payload of a packet with room for an X, as its
  type requires of its caller;
* packets of old versions stand for those written by an older library: the
  writer in the model may write any version.

### How members are abstracted

`OldData` looks at the same readers and writers one struct at a time. A value
is the set of what its bits came from: a pair of a packet and the name it was
flown under, zero, padding, or junk that memory held before. `StructLayout`
computes the places of all members from their sizes and alignments by the
x86-64 System V rules, bit-fields included, and the simple readers copy by
place, so that a bit-field that moved becomes a mixture of what was there.
Members that no version splits are one member (the 28 surfs, the run of
counters at the head of `slow`).

A packet is `long` when the length of one of its waveforms exceeds the 1024
samples there are. The reader cuts what it transfers and leaves the length
(`rawio_packets.c:81`), and `pueo_dump_waveform` goes on to the length
(`rawio_dump.c:51`): `Shown` adds to the samples what lies behind them
(`PastSamples`). The length itself is not changed by reading or writing, so a
packet stays `long` through conversions. The magic number of a sensor packet is
in its `head` and the id in its `items`, and the lookup is given what memory
has there (`MagicIn`, `SensorIn`), not what the archive had. An id that the
table does not have is looked up behind the array (`PastTable`): the assertion
on its range (`sensor_ids.c`) is not compiled into a release.

### How descriptors are abstracted

The lowest free number is given at every open, so that a number is soon another
handle's. `file_close`, `gz_close`, `fd_close` and `socket_close` close the
number under `aux`, whoever has it. A uri is a record of what the code looks at.
A handle on the stack is junk before its first initialisation, and calling its
close function ends the process. `pueo_handle_init` is only called on a handle
that holds nothing: it zeroes what it is given (`rawio.h:100`), so that an open
one would lose its descriptor.

### How the database is abstracted

A statement is a record of its table, of whether the backend takes it and of
whether its values are filed under their own columns. A table is `CREATE TABLE`
together with its index. The database executes what parses and
names a complete table. `PQexec` runs a string of statements as one implicit
transaction, `sqlite3_exec` as one per statement, stopping at the first error.

Statements reach the database or the file through stdio, and the code reads
neither what `fprintf` returns nor `ferror`. A print into a memory stream fails
when it cannot grow (`PrintFails`), and a flush of a .sql file when the disk is
full (`FlushFails`), in which case stdio drops what it had buffered; either may
happen at any statement, and the insert goes on. `lost` has what was dropped.
What is left of such a statement in the text may be nothing, something that does
not parse, or something the database takes (`Found`, `Executes`). `fclose`
reports its own write and not the earlier ones, so that all three backends may
return 0 for an insert of which statements are lost.

Column values and the TimescaleDB variant are left out, and
failures of `pueo_db_handle_open_X` (which change nothing) are too. Three
failures of `begin_sql_stream` (`NoStream`) end the process for most packets,
since `fprintf` is given a null stream.

## 4. Runs

Bounds are chosen so that each hazard fits: three packets are one before, one
in the middle and one behind a fault; two groups, two element counts and two
versions distinguish every branch of the codecs; one fault suffices for a torn
packet, two for a failure on either side of one. Two processes, three inserts
or initialisations and one failure make an insert between the steps of another,
and one after a failure (`MaxInits` is 1, so that two of the three are inserts).
The packets of `db_all` are a log message with a quote that ends its SQL string, a
type nobody inserts, two good readings, a NaN before a finite reading, and no
readings. Archives of two packets are enough for one to leave its traces in the memory of
the next, and two runs for a converted packet to be converted again; they hold
every version of every type, waveforms longer than their array, and ids within
and past the tables of both generations and of one that nobody knows. Three
descriptor numbers are one for each handle and one for the program. All sizes are in cells:
`InitCap = 2` is less than the variable and waveform packets of the instances,
so that -EMSGSIZE happens, and `UdpMax` is less than the largest packet where
truncation is asked about.

The scenes of `stream_faults` give the low-level reader two faults on a file and
on a pipe, the typed reader two on a pipe and none on a file, which keeps the
run within minutes; the proofs cover every combination.

| Run | Question | Checks |
|---|---|---|
| `ll_any_medium` | low-level reads from a medium that returns any cells in any order, or fails, and may set the flag | `TypeOK`, `HandleConsistent`, `RoomForPayload`, `HeaderIsThePayloads`, `LLInv`, `HeaderKept` |
| `file_clean` | an undamaged file, every shape of packet, clients with packets of several sizes, the read loop of `test/read-packets.c` | `FIFO` (refinement of `PacketQueue`), `NothingStale`, `BytesReadExact`, `BytesWrittenExact`, `Drained` (liveness) |
| `stream_faults` | a file read while it is written, with crash and append, or a pipe; short and failed reads and writes; low-level and typed readers | `FTypeOK`, `SilentInOrder`, `NothingStale` |
| `udp_all` | UDP with loss, duplication, failing sends and receives; low-level and typed readers; in two of three scenes also truncation at `UdpMax` | `UTypeOK`, `PacketPerDatagram`, `IntactAtMostAsOften`, `EIOOnlyAfterFailedRecv`, `CounterIsDatagrams`, `SilentAtMostAsOften`, `ReceivedIsReturned` (liveness) |
| `db_all` | two processes (symmetric) on one database or directory, each of the three backends, with initialisation, deaths, lost connections, a clock that may repeat itself, prints and flushes whose failure nobody reads | `DbTypeOK`, `UsableBetweenCalls`, `ZeroMeansStored`, `NoHoles`, `FilesAreFinal`, `Atomic` (refinement of `AtomicStore`, for pgsql) |
| `old_data` | archives of one and two packets of every version of every type, with the sensors around which the generations differ, ids past the tables and waveforms past their array, go through the program twice | `OldTypeOK`, `OldFieldsKept`, `NewFieldsZero`, `DumpHonest`, `SensorsAsFlown`, `ConversionSettles` |
| `lifecycle` | two handles, three descriptor numbers, files and udp uris in writable memory and in a literal, lent and given files; two files of a prioritizer test with a batch of two of three, and libraries that are whole, lack a function or cannot be opened | `PTypeOK`, `ClosesItsOwn`, `OthersStayOpen`, `OnlySocketsOrphaned`, `RefusedIsZeroed`, `UsedIsWhole`, `StaleOnlyWhenShort` |

The symmetry of the two processes of `db_all` is sound: all six are safety
properties, and no definition distinguishes the processes. The view leaves out
the value a handle's last call returned, which no guard and no property reads;
what an attempt returned is in `attempts`, and is part of the view.

Deadlock is not checked: writers stop at the bound on packets, readers at
end-of-file or in `recv` on a silent socket, and the database processes at the
bound on attempts. That a reader does not stop early is what `Drained` and
`ReceivedIsReturned` say.

What the passing runs show, in words: on an undamaged stream every packet is
returned once, in order, through every -EMSGSIZE and second try, whichever of
the two low-level calls is used and whatever room the client offers. On a
damaged one the library cannot find its place again (nothing in the format lets
it), and what it guarantees is weaker: a packet returned without a printed
warning was written so, whole, and such packets keep their order. The printed
warning is the only sign: the packet is returned all the same. With UDP a
low-level reader never splices two datagrams, in spite of the early `recv` of a
packet that ends with an empty array: whenever the program has the handle back
and no packet is pending (`required_read_size` is 0), the datagram in the buffer
is used up or untouched. Such a packet is held back until another
datagram arrives, and `ReceivedIsReturned` makes that exception. A packet larger
than `UDP_MAX` is sent cut off, and `SilentAtMostAsOften` says that it never comes
back without a warning. A failed `recv` leaves the handle returning -EIO for ever.

Two guarantees are weaker than a reader of the code may expect, and the
properties say by how much. That an insert returned 0 means that everything that
reached its stream is stored, and that what is missing is what stdio dropped
(`ZeroMeansStored`, `NoHoles`, `Atomic` leave out `lost` and nothing else). And a
dump shows nothing but the packet just read, except behind the samples of a
waveform whose length exceeds 1024 (`DumpHonest`). Of a sensor id past the table of
its generation `SensorsAsFlown` says nothing.

### Disagreements between the code and its documentation

Five runs are expected to find a violation, each of a statement quoted in
`PROJECT.json` under "findings":

| Run | Statement | What the code does |
|---|---|---|
| `mixed_required` | `rawio.h:72`: `required_read_size` is non-zero if the last read had not enough space; `rawio.h:150`: it is 0 after a successful one | a typed read after -EMSGSIZE leaves it set, and the next low-level read skips a header |
| `cast_exact` | `rawio.h:205`: `pueo_packet_as_X` returns NULL only for the wrong type | it also does for a packet of exactly the size of an X, which is what `pueo_ll_read_realloc` allocates |
| `db_documented` | `rawio.h:225`: initialise tables; `sensor_ids.h:54-62`: the kinds of sensors; `rawio_db.c:670`: a normal string for sqlite | two tables are not created and one lacks columns; sensors are entered with a kind, 'I', that has no table; the opening quote is not printed; values of `nav_att` and `nav_pos` are filed under other columns |
| `old_rows` | `rawio_packets.c:17-25`: old versions can be read, what they lack is zero or something sensible | version 0 of `slow` is not a prefix of version 1 and its L1 rates are stored as L2 rates; `prio` of version 1 of a single waveform, and the rms over samples it does not have, are what memory held |
| `uris` | `rawio.h:98-108`: `udp:port//host`, the handle is zeroed, the uri is const, `.zst` uses zstd | the form is refused and the handle left as it was; the one that works, `udp://host:port`, is cut at the colon; `.zst` is opened with zlib |

`Atomic` is claimed for pgsql only. With sqlite a telemetry packet with a NaN
in its second reading returns an error and leaves its first reading in the
database, since `sqlite3_exec` (`rawio_db.c:354`) is not given a BEGIN; what
holds there is `NoHoles`.

## 5. Fairness

`file_clean` assumes weak fairness of the writer's steps, of flushing (a file is
flushed at the latest when its handle is closed) and of the reading process as
a whole: its calls, steps and `fread`s, which never block on a file. (The
conjunct `SameScene` there only gives the actions a value for the variable that
no action changes.) `udp_all` assumes weak fairness of the reading process only, `recv` included: it returns
when there is a datagram. Nothing is assumed of the network or of the writer.

## 6. Proofs

`HandleRead_proofs` proves six theorems about `HandleRead!Spec`, for every
table of packet types, every shape and number of packets, every capacity a
client allocates, and a medium that returns anything:

* `TypeCorrect`: `TypeOK` is invariant. It is inductive once it says (`CallOK`)
  that a payload reader runs only for a type of its codec and at one of the
  type's groups.
* `LowLevelConsistent`: `LLInv` is invariant if the client makes no typed calls
  (`"typed" \notin Ops`; `mixed_required` shows why that is needed). It says at
  every point of a call what `HandleConsistent` says between calls: the flag,
  the header, the size asked for, the type being read and the packet belong
  together. `HandleConsistent`, `RoomForPayload` and `HeaderIsThePayloads` are
  not inductive: whether a payload fits depends on a comparison made
  steps before, against a size set in an earlier call.
* `HandleIsConsistent`, `AlwaysRoomForPayload`, `HeaderOfThePayload` follow
  from it, and `WaitingHeaderKept` is an action property proved from it:
  no step replaces a header while `required_read_size` is set.

They rest on the named assumptions of `PacketFormat` and `HandleRead`: the
tables are functions on `Types`, the number of groups fits the codec, and no
struct of a simple or waveform packet is empty (`PayloadAssumption`). TLC
evaluates these assumptions in every run. `FileStream` and `UdpStream` use the
same actions, with the medium's results in place of arbitrary ones.

Each proof has one step per action. What changes `h.hdr` and what sets
`required` are in different actions, so that each lemma is about few fields.

`PacketReading_proofs` holds the part of the next two modules that is about
packets and not about a medium. `HoldsWhole` says that a packet lies in a
sequence of cells from some place on, header first, every group where the sizes
of those before it put it (`Size`). `InPlace` says of memory that each group
read so far is the packet's own. The lemmas `Served` and `PayloadServed` say
that a reader whose medium returns the cells at its place, as many as it asked
for, moves from one such place to the next in every branch of the three codecs,
and reads the header of the packet it then returns.

`FileStream_proofs` proves six theorems about `FileStream!FSpec`: for files
and pipes, every packet table and client, and any number of crashes, short and
failed writes and failed reads. Besides the assumptions above they rest on
`StreamAssumption` (what a scene is) and `MemoryAssumption` (the payload of a
packet fits the memory of the model, and the prefix of an old version is no
longer than the current one).

* `SilentIsInOrder` and `NothingIsStale` follow from one inductive invariant,
  `SInv`. Neither is inductive: which cells are in memory when the checksum
  agrees depends on all the steps of the call. `TapeOK` looks at the stream and
  the buffer behind it as one tape: its cells are strictly ordered by packet,
  group and index, and each payload cell has its header before it. `WriterOK`
  says why writes keep it so: what is written next comes after all that is on
  the tape. A crash cuts off the end, a flush moves the border, and a short
  write leaves a gap, none of which disturbs an order. `ReaderOK` says that the
  packets returned so far have arrived whole, and that all that is still to be
  read is `Later`. `PlaceOK` says at every point of a call that a payload reader
  that has lost nothing has filled memory with cells of `News`, those that have
  arrived and are of no packet returned. So a packet returned without a warning
  is made of news only: it comes after every packet returned before.
* `StreamTypeCorrect` is `Shaped` and `WriterOK`.
* `BytesWrittenIsExact` needs `CountOK`: without faults the length of the tape
  is what the writer has counted, with the packet it is in.
* `BytesReadIsExact` and `FileIsAQueue` are about an undamaged file, as
  `file_clean` is. Their hypothesis `Clean` is on the constants: the reader runs
  when the writer is done (`~Live`), scenes are files without faults, and the
  client makes no typed calls. Each is needed. A reader that follows the writer
  may meet the end of the file within a packet, a fault may tear one, and a
  typed call after -EMSGSIZE skips a header (`mixed_required`). Neither property
  is inductive, and `SInv` does not help: that cells are in order does not say
  that none is missing. `CleanInv` adds `LLInv`, proved again for the actions of
  `FileStream`; `CleanTape`, that each packet lies whole at the place the sizes
  of those before it give (`Start`), the one being written up to its next
  region; and `CleanReader`, that the reader is at the start of the packet after
  the last one returned, or has its header (after -EMSGSIZE), or is as far into
  it as `bytes_read` says. That the file holds at least the rest of that packet
  then makes every `fread` return what was asked for, and the reader can meet
  the end of the file only at the start of a packet. The refinement maps the
  queue to the packets after the last one returned: entering `sent` is `Put`,
  returning is `Take`, and every other step stutters.

`UdpStream_proofs` proves six theorems about `UdpStream!USpec`, for every
packet table, client, `UDP_MAX` and number of packets lost, duplicated, refused
or failed to be received. They rest on the assumptions above.

* `SilentTakesADatagram` says two things of a packet that is returned without a
  warning: it fits a datagram, and it came at most as often as the network had a
  copy of it. The first follows from `RoomOK`, which adds to `UInv`'s cells
  where they may be: the last cell of a packet is on the network, in a buffer or
  in memory only if the packet fits a datagram. For the writer's buffer has all
  of its packet so far, or is full (`WriterRoom`); a region that is cut loses
  its end, and once a buffer is full nothing more gets in (`RegionLanded`); and
  a reader only moves cells (`MemFrom`). A packet that is returned without a
  warning has its last cell in memory.
  The second follows from the inductive invariant `UInv`. Between a
  datagram on the network and a packet that is returned lie the reader's buffer
  and its memory, and a count of returned packets alone says nothing of what is
  in them. `AccountOK` counts all four: the copies of a packet that are under
  way, in the buffer not yet read beyond the header, in memory, and returned
  are together no more than there ever were. What is counted in the last three
  is one cell, the first of the payload: a datagram has it once, at one place
  (`DatagramOf`), a call that reads across two datagrams, a cut one or past a
  failed `recv` may miss it, but nothing returns without it, and a call that has
  copied it has moved the reader past it. Every step of the reader so moves a
  copy from one place of the account to the next, or loses it (`Balance`).
* `UdpTypeCorrect` is `SceneOK`, `NetOK` and `WriterOK`.
* `CounterCountsDatagrams` is `CountOK`: the packet in progress has not been
  sent, and only one that has been can be duplicated.
* `DatagramIsAPacket`, `ReaderGetsWhatWasSent` and `EIOTakesAFailedRecv` are
  about a reader that only uses `pueo_ll_read` and packets that fit a datagram
  (`Proper`), with any loss, duplication and reordering. They follow from
  `CleanOK`: every datagram, on the network or in the reader's buffer, is one
  whole packet (`WholeNet`), what the writer has collected is its packet up to
  the next region (`WriterClean`), and as long as no `recv` has failed
  `ReaderClean` holds. It says that a packet is begun only when the datagram in
  the buffer is used up or untouched, that within one the buffer is the datagram
  of the packet whose header the handle has, and that `nout` is where the reader
  is in it; at the check of the checksum it may also be 0, when the read of no bytes that
  ends a packet with an empty array has fetched the next datagram early. A
  reader in its place is never short of cells within a datagram, so that it
  returns no packet with a warning and never -EIO. Nothing of this survives a
  failed `recv`, after which `nin` is -1, and all three properties exclude it in
  their premise or name it in their conclusion.

`PacketPerDatagram` says "with `required_read_size` 0" because of this proof. A
client of plain `pueo_ll_read` whose packet is too small is left, after
-EMSGSIZE, with the header read and the payload not: between two calls, in the
middle of a datagram. The clients of `udp_all` allocate in the same call and
never show it.

`HandleLife_proofs` proves four theorems about `HandleLife!LSpec`, for every set
of handles, descriptor numbers and uris (`LifeAssumption`: handles are none of
the two names that stand for other owners, numbers are natural, so that -1 is
none of them). The inductive invariant is `LInv`: `LTypeOK`, `ClosesItsOwn`,
`OnlySocketsOrphaned` and `OwnedIsOpen`. Neither of the middle two is inductive
alone: that a number just opened is not under another handle needs that what
handles have is open (`ClosesItsOwn`), that a file given to a handle is open
needs `OwnedIsOpen`, and that an unused handle owns nothing, so that its
initialisation orphans nothing, needs `OnlySocketsOrphaned`
(`UnusedOwnsNothing`). The actions are sorted into four kinds of steps on the
descriptors (a number acquired, received, abandoned, closed), with one lemma
for each. `LClosesItsOwn` and `LOnlySocketsOrphaned` follow from `LInv`,
`LOthersStayOpen` is an action property proved from it, and `LRefusedIsZeroed`
is an invariant about the history kept in `call`.

`PrioTest_proofs` proves four theorems for every library table, batch size and
number of files (`PrioAssumption`). `PStaleOnlyWhenShort` needs `FreshInFront`:
the first `n` entries of the batch are of the open file. `PClosesItsOwn` carries
`LInv` over to the program with its prioritizer: each of its steps is one of
`HandleLife` or ends the process.

`DbHandle_proofs` proves all that `db_all` checks, for every set
of processes, packets and file names and any number of attempts and faults.
`DbAssumption` says that 0, which stands for no file, is no name, and that the
readings of a packet are a sequence of kinds and values. The inductive invariant
is `DInv`. `NoHoles` and `ZeroMeansStored` are not inductive: an attempt may
return 0 only if its rows are stored by then, which for sqlite is the work of
many steps. Both are about what is not `lost`, and statements go missing while the
attempt that prints them is at work, before any of its rows is stored.
`RowsSoFar` says how far `sqlite3_exec` has come, `Occupied` that a
handle at work has an attempt that has not returned and, for sqldir, that
attempt's file, and `OwnAttempt` that no two handles work on one attempt. Each
action is one of four kinds of steps (`Rests`, `Begins`, `Works`, `Ends`), and
the invariant is proved once for each kind. `DUsableBetweenCalls`, `DNoHoles`
and `DZeroMeansStored` follow; `DFilesAreFinal` is an action property, since an
attempt that has returned belongs to no handle at work. `DAtomic` is the
refinement of `AtomicStore`: to begin is `Offer`, a print that fails is
`Miss`, to end is `Store` or a stutter, and anything else is a stutter.
`DbTypeCorrect` is `DInv` with what rows, tables and files are made of.

`OldData_proofs` proves all that `old_data` checks, for every set of archives of
any length and any number of runs. `ArchiveAssumption` says what an archive is:
a sequence of packets as they were flown, of types and versions the library
knows, with numbers that are not 0 (0 stands for what comes from no packet).
The ids of sensors and the magic numbers are arbitrary. TLC evaluates the
assumption for the archives of `old_data`.

* The places of members come from `Ends`, a recursive function that adds up the
  members of a struct. What it computes for every struct needs an induction. It
  is done over a set of numbers (`NatSetInduction`, from the library's theorem
  that `<` is well-founded on `Nat`): `EndsEquation` proves that `Ends` satisfies
  its equation, `EndsGrow` that members lie in the order of their declaration,
  and `EndsJoined` that members appended later leave the ends of the others as
  they were. `LayoutJoined` is the result, a theorem about any two structs of
  blocks and bit-fields whose members have names of their own (`Sound`): in the
  struct made of both, the members of the first are where they were, and the
  others lie behind them.
* Every version of the five structs is put together from blocks that versions
  share, and `Keeps(c, a)` says that struct `c` begins as `a` does.
  `HskKeeps` is this for all versions of the two housekeeping packets: they are
  what `rawio_packets.c:18` calls simple. `WaveStructs` is it for the members
  before the waveforms. Only `slow` needs numbers. A byte of bit-fields was
  completed in its head, so that version 0 ends at bit 123 and version 1 at 128,
  and `RunPlaced` shows that the run behind both begins at 128.
* `SameIsRead` says that a member with the same place in the old and the new
  struct (`Same`) is read as it was written, with no bit of another, of padding
  or of the memset. `AppendedIsClear` says that one appended since has no bit of
  an old member, so that it is zero but for tail padding.
* The inductive invariant is `OInv`. The six properties are about the packet in
  memory, the last dump, the rows and the copy, and none of those about members
  is inductive: what is read in a later run depends on what the run before
  wrote. `OInv` says
  of every packet in the archive and in the copy that it is as it was flown
  (`IsFlown`) or as a conversion leaves it (`IsConverted`): of the current
  version, with what `Carried` demands of its members. `Carried` is what memory
  and the wire have in common, the conjunction of three of the properties for a
  given packet. `ReadWell` shows that every reader establishes it from either
  kind of packet, whatever memory held, and `WrittenConverted` that writing
  keeps it, since what is kept, and what a dump prints, is on the wire of the
  current version (`KeptOnWire`, `DumpedOnWire`). TLC found `OInv` invariant on
  the archives of `old_data` before it was proved.
* `SensorsAreAsFlown` holds since the head and the items of a sensor packet are
  in memory as they were flown, whatever its version and however often it was
  converted, so that the magic number and the id that the lookup is given are
  the packet's own; since a row keeps the place of its packet in the archive; and
  since the lookup finds a table for the two magic numbers and for no other. An
  id past the table is excluded by the property, not by the archives.
* `DumpIsHonest` excludes the samples of `long` waveforms, behind which `Shown`
  has junk and, for one channel of many, the next waveforms.

What `NewFieldsZero` leaves open is so in the code, and no proof removes it: a
member that begins in the tail padding of the old struct gets padding, and `prio`
of a version 1 waveform what memory held (`old_rows`).

Only model-checked are the two liveness properties, `Drained` and
`ReceivedIsReturned`: liveness under fairness is outside the reach of the prover.
Every safety invariant, action property and refinement that a passing run checks
is stated by a theorem.

## 7. Not modelled

* `pueocrc.c`: bit arithmetic over long strings; taken as collision free.
* `rawio_dump.c`: which members it prints is modelled (`Dumped`), and how far it
  goes in a waveform (`Shown`); the layout of the text and the formats of numbers
  are not.
* `rawio_db.c`: the formats of numbers and the TimescaleDB variant of the
  tables.
* What a prioritizer computes: it is another library. `test/fakeprio.c` is not
  one, its functions do not match the header.
* The other programs in `progs/` and `test/` are clients of the handle, whose
  read loops are among those of `FileStream` and `UdpStream`; what else they do
  (options, counting, comparing) is left out.
* `libpq`, sqlite, stdio, zlib, the network: external, modelled by what the
  library relies on.
* Threads: the library has none and no locks; a handle belongs to one thread,
  so that the processes of the models share media and databases, never handles.
