# Verification of the Hack-a-Sat 4 finals software

TLA+ models, TLC runs and TLAPS proofs for the flight and ground software in
this repository. Paths below are relative to `src/challenges/`; `SC` is
`satellite_chals`, `GC` is `ground_chals`. `PROJECT.json` lists the runs, the
lines each definition stands for, the mutants that show each property can fail,
the hazards and the theorems.

1. [The system](#1-the-system)
2. [What makes each part correct](#2-what-makes-each-part-correct)
3. [Modules](#3-modules)
4. [Runs](#4-runs): bounds, fairness, what they show
5. [Proofs](#5-proofs)
6. [Disagreements and observations](#6-disagreements-and-observations)
7. [What is not modelled](#7-what-is-not-modelled)
8. [Plan](#8-plan)

## 1. The system

The satellite runs one cFE application per concern. An application is an object
of `ASyncApp` with one software-bus pipe: it sleeps in `CFE_SB_RcvMsg` until a
message or a timeout arrives and runs one handler to completion. Applications
share no memory. They meet on the software bus (publish and subscribe, bounded
pipes, a message dropped when a pipe is full), on UDP sockets and in files. The
ground side is two stand-alone programs: a menu-driven manager with a second
thread, and an HTTP server that forks for every connection.

    ground contact --bytes--> Packetizer (over circular<>) --packets--> bus
    team script --2 datagrams--> ScriptUdpApp --requests--> bus
    bus --> GeofenceApp --ImageSnap, ImageGet--> IO application (camera)
    bus --> GpsApp --position--> GeofenceApp
    bus --> AttitudeApp --pointing--> IO application (control board)
    ground clients --datagrams--> ironbank Vault --files--> run, download areas

| Part | Where | State | Operations | Hard because |
|---|---|---|---|---|
| Ring buffer | `SC/containers/h/circular.hpp` | slots, two cursors, two counters | push, pop, remove, clear, search | copies in two pieces, three copies of one fact, the last alignment of a search |
| Packetizer | `SC/cpp_base/h/Packetizer.hpp` | byte store, partial packet, three flags | push bytes, get packet, pop packet, clear | finding the way back in a damaged stream, cut anywhere |
| Application base | `SC/cpp_base/{h,src}/ASyncApp.*`, `Handlers.hpp` | pipe, subscriptions, handler tables, run status | register, initialize, dispatch, time out, shut down | exceptions anywhere, bounded pipe, other tasks post meanwhile |
| Geofence | `SC/geofence` | zones, two measurements with their times, spam mark, block, team | snap, download, polling, team, load, reset | three inputs on their own schedules, one shared mark |
| Script bridge | `SC/script_udp`, `SC/network/src/UdpServer.cpp` | socket, port, team, counters | process message, process timeout, read opcode and argument | two datagrams per command, either lost or late; served only in silence |
| Ironbank vault | `SC/ironbank` | user, challenge, debug flag, three folders | list, auth, load, download, flag, debug | one conversation state for all clients, calls that throw half way |
| FinalPass manager | `GC/finalpass` | users' databases, current user and name, lock | login, logout, delete, load database | two threads, most of the shared state outside the lock |
| Web listener | `GC/has4-web/challenge/src/main.c` | sockets, processes, time of the last request | accept, fork, limit, sleep | descriptors shared by fork, clients that never end |
| Web request | `GC/has4-web/challenge/src/{http,http_*,admin_pages,socket_io,read_body}.c` | one request, one body | parse, serve, refuse, read a body, drain | partial reads, failing calls, who answers |
| GPS | `SC/gps` | polling flags, frame and request counters | config, reset, pulse, raw position | divider of zero, a handler that is never registered |
| Attitude | `SC/attitude` | enable and block flags, frame counter | config, request, pulse, polling | divider of zero, command sent twice |
| Packet filter | `SC/cpp_base/{h,src}/PacketFilter.*` | filter, ack, decimation, route and depth tables | load, modify, decimate | a load that stops half way, wrapping counters |
| Child processes | `SC/cpp_base/src/subprocess.cpp` | pipe handle, open flag, last status | run, stop, alive, wait | the child exits between any two calls |
| Keyed queue, file store, persistent FIFO | `SC/containers/h/*.hpp` | list and map; file; OS FIFO | push, pop, get, save, restore | two views of one collection; a crash inside save |
| State machine; timer, rate and clock-frame applications | `SC/cpp_base` | current and next state; timer and callback registration | update; wake up | an entry that throws; callbacks that outlive their owner |

## 2. What makes each part correct

- **Ring buffer**: it is a bounded FIFO. Pushes are whole or nothing, elements
  come out once and in order, and what a search allows to be discarded never
  holds the pattern.
- **Packetizer**: however a contact is cut into chunks, every frame that was
  sent whole is handed out once and in order and nothing else is; damage stays
  next to its cause; a call returns; only a header that announces too much fills
  the store for ever or overruns the packet buffer.
- **Application base**: what the pipe accepted is executed, in order, once, by
  the first handler registered for it, whatever handlers throw.
- **Geofence**: no use of the camera or the archive closer than the anti-spam
  interval; no picture of a zone that was ever loaded; every decision rests on
  two measurements received within the timeout; a block holds.
- **Script bridge**: a script's commands are served in their order, each at most
  once, with the numbers the script wrote; a lost datagram never makes up a
  request; a socket is not leaked by reconnecting; what was sent is read once the
  bus falls silent. That "off" switches the camera off does not hold (section 6).
- **Vault**: a challenge is spent once; files move only for the user the
  challenge was issued for; the run area holds the script that was loaded; to its
  users the one conversation of the vault looks like separate tickets.
- **GPS, attitude**: while polling is on a request goes out every so many
  heartbeats; together with the geofence: whoever polls fast enough never has a
  request refused for old measurements.
- **Child processes**: one copy at a time, unless the older one was told to end;
  every descriptor has an owner; a child has the real user and group of the process
  that started it and no way back to others; a wait returns.
- **Packet filter**: what passes is what the last file and the commands since
  said, wherever a load stopped; no rate holds back more than it says.
- **Containers**: items come out once and in order; a map never leads to an
  entry that has left the list; an item of a pipe is lost only from the hands of a
  `save()`; what a disk cut short costs no earlier item.
- **State machine**: a state runs only after it was entered, unless it has one of
  the two names that `update()` itself writes.
- **FinalPass**: nobody is logged in from a database that is half written, an
  existing database is not overwritten, the manager does not wait for itself.
- **Web server**: one answer to a request that was understood; a body in the
  memory that was allocated as long as its chunks come to less than the largest
  int, within the limit, accepted only with all that was announced; a
  server that listens serves what its files say; a page of statistics is the
  table; every process ends after its client; nobody stalls the listener; no descriptor is
  forgotten; the rate limit holds over windows.

## 3. Modules

Names of variables and actions are those of the code where TLA+ allows it.

| Module | Models | State and actions in the code |
|---|---|---|
| `BoundedFifo` | the abstract queue that `circular<>` promises | no code: a sequence, whole-or-nothing `Push`, `Pop`, `Discard`, `Clear`, `Find` |
| `Circular` | `circular.hpp` | `buffer_`, `front_`, `back_`, `available_`, `fullness_` as in the class; one action per method with both pieces of a copy; `Content` is the refinement mapping |
| `Packetizer` | `Packetizer.hpp` | the byte store is the sequence of `BoundedFifo`; `syncFound`, `headerRdy`, `packetRdy`, `packet` as in the class. `get_packet` is `GetPacket` followed by `Packetize` steps, one per turn of its retry loop. A contact is a record: its bytes, and where in them frames are that were sent whole; `Honest` says what senders keep to; `refused` remembers a chunk that did not fit; `"overrun"` is where `packet_` was written over its end, after which nothing is known |
| `KeyQueue` | `key_queue.hpp` | `list_` and `map_`; an entry is the number of the push that made it |
| `PersistentFifo` | `persistent.hpp` | the pipe, the file and who has the pipe open; `save()` and `restore()` step by step, so that the owner can end and a peer can act between any two; `gone`, `disturbed` and `overtaken` remember what happened to a `save()` |
| `FileStore` | `filestore.hpp` | the bytes of the file as halves of items, since the disk may take a part of a write; `sound` counts the items before the first write it cut short |
| `ASyncApp` | `ASyncApp.cpp`, `ASyncApp.hpp`, `Handlers.hpp` | `execute()` as phases; `AddHandler` one registration; `Receive`, `Timeout` one turn of the loop, the handler included; `Post` and `AskStop` are the rest of the system |
| `GeofenceApp` | `GeofenceApp.cpp`, `Geofence.cpp` | one action per handler, `ReadFence` is `Geofence::from_json` with the zones it added before a bad one. `heard` is when the two measurements came, whatever time the code noted. `Inside` stands for the geometry |
| `GpsApp`, `AttitudeApp` | `Gps.cpp`, `NovatelSerializer.cpp`, `BestPos.hpp`; `Attitude.cpp` | one action per registered handler; what a handler publishes is an operator next to its action (`OnPpsSends`, `RawGpsSends`), so that the composition can deliver it |
| `Imaging` | the three applications on one bus | extends `GeofenceApp`, INSTANCEs the other two; one pipe per application, receiver and control board answer when they like within `ANSWER_WITHIN` seconds, and operators ask for pictures, downloads, files and resets (`Request`) |
| `SubProcess` | `subprocess.cpp` | `open_`, `pipe_`, `lastStatus_` as in the class; children as the kernel sees them, with their user and group ids; `StopKill`/`StopReap` and `WaitStart`/`WaitTurn` leave room for a child to end in between |
| `PacketFilter` | `PacketFilter.cpp` | the six tables; a file stops at any of the five assignments of any item |
| `StateMachine` | `StateMachine.h` | `current_`, `next_`, `lastId_`; `UpdateRuns` and `UpdateFails` are the ways through `update()` |
| `FrameApp` | `TimerApp`, `RateApp`, `ClockFrameApp` | `execute()` of the three, and the callback they leave with cFE |
| `CommandService` | what the script bridge promises a script | no code: `Submit`, `Serve` the oldest command with or without a request, `Reset`, `Rest` |
| `ScriptUdp` | `ScriptUdp.cpp`, `UdpServer.cpp` | `ProcessMessage` and `ProcessTimeout` as in the class, `ReadOpcode` and `ReadArgument` the two reads, between which the script can act; `Reconnect` is `disconnect`, `open`, `bind` with its exception; `Unserved` is the refinement mapping |
| `ScriptBank` | what the vault promises the owners of scripts | no code: `Issue` a ticket for a name, `Use` it once, `FailToLoad` |
| `Vault` | `IronBank.cpp` | one datagram is one `HandleCommands`: challenge check, command, spending, answer. `Throws` is where `std::filesystem` throws; `TicketState` is the refinement mapping |
| `FinalPass` | `manager.cpp` | `pc` and `dpc` are the two threads; an action holds at most one access to shared state or one critical section |
| `ReadBody` | `read_body.c`, the size line of `socket_io.c`, `chunkHexToInt` | the locals of `read_body()` as counters; one action per `read()`. Clients announce any number; `Atoi` and `Int32` are what the code has of it, and its sums wrap like an int's. `"overrun"` is a read that got more than there is memory |
| `HttpRequest` | `http.c`, `http_get.c`, `http_head.c`, `http_post.c`, `admin_pages.c`, `http_errors.c`, the end of `handle_client` | extends `ReadBody`: `phase` is how far the process is, handlers are lists of checks of which the first that does not pass decides, as their early returns do |
| `WebConfig` | `config.c`, `dictionary.c`, the beginning of `start_server` | the files line by line into the two dictionaries, a line of MIME types word by word, `loadConfig()` in one step, `bind`; memory can run out at any entry |
| `HostStats` | `bst.c`, `stats.c`, `toHex` | the tree by the keys of its nodes; a page is a list of lines, a line a chunk whose bytes go out in any pieces |
| `WebListener` | `start_server`, `handle_client` in `main.c` | `owners` and `ears` are the descriptors each process has; ticks stand for `CLOCK_MONOTONIC` |

How they compose: `Imaging` is `GeofenceApp` together with its two sources;
`Circular` implements `BoundedFifo`, whose sequence is the
store of `Packetizer`; `Vault` implements `ScriptBank` and `ScriptUdp`
`CommandService`; `HttpRequest` contains `ReadBody` and is proved to
implement it; `WebListener` sees of `HttpRequest` only that a process ends after
its client does, which is `HttpRequest`'s property `ClosedEnds`.

`MC_*` modules give constants values; `*Proofs` modules hold theorems.
`CppBase`, `Containers` and `MC_Web` put classes side by side that share
nothing: their variable `subject`, chosen by the initial state, says which one
moves while the others stay as they were made, so that the states of the parts
add up and do not multiply. What they promise together is named there
(`ItemsKept`, `ChildrenAccounted`, ...), with the properties of the parts as
conjuncts. `CppBase` and `Containers` are modules of their own, apart from their
`MC_` modules, because theorems are proved of them. `MC_Web` extends
`WebListener`, `WebConfig` and `HostStats`, whose names do not clash; the proofs of
`Packetizer` are in `CppBaseProofs`, which extends both specifications.

## 4. Runs

The type invariant of every module is a conjunct of a property of a run, except
that of `Vault`, which is proved (`HttpTypeOK` contains that of `ReadBody`). A
*violation* run must find a counterexample (section 6).

| Run | What it shows | Bounds, and why they are enough |
|---|---|---|
| `containers` | the ring buffer implements `BoundedFifo` and its three copies of the occupancy agree; `IndexesAgree`; `ItemsKept` (persistent FIFO); `ItemsSurvive` (file store) | ring buffer: 4 slots, arrays up to 3, two values: every straddle, every alignment of a 2-element pattern, full and empty at every cursor. Queue: two keys, five pushes. Pipe: 2 items of 3, two ends of the owner, one restore: an end in every step of a save. File: 4 items, cut at every half |
| `packetizer_contacts` | `StreamRecovered`, `LossIsLocal`, `OnlyOversizeWedges`, `GetPacketReturns` | three frames, each whole or cut off anywhere after its sync word, noise in front, chunks of 1 to 3, one `clear()`. Packets have 3 bytes: header and payload still split in every way. A store of 8 is smaller than the contact, so that chunks are refused as well, and noise alone fills it. A packet buffer of 5, and headers that announce 1, 6 and 30 bytes: less than a header, more than the buffer, more than the store; and honest frames of 6 |
| `packetizer_cutoff` | *violation* of `CutOffIsDropped` | two frames |
| `imaging` | the geofence alone and in the chain: `CameraOpsSpaced`, `NoPictureOverZone`, `DecidedOnMeasurements`; the chain: `RequestsKeepComing`, `FreshWhilePolled` | two positions, two time scales, four geofence files (good, more, broken behind a zone, not parsed), intervals of 2 s over 4 s, two loads: all comparisons of times occur below, at and above the limit. Chain: three heartbeats, three commands or requests to the geofence, rates 1 and 2 (GPS), 0 and 1 (attitude) |
| `vault_clients` | `ChallengeSpentOnce`, `MovedForItsUser`; `ImplementsBank`: the vault implements `ScriptBank` | two clients (symmetric), two users, two challenges, one datagram waiting: every interleaving of two conversations; a key is good, old, or unknown |
| `script` | `AsksAsTold`: the bridge implements `CommandService`, and `PairedUnlessLost`; `DescriptorsAccounted`, `ServedWhenQuiet` | three commands of two kinds, two lost datagrams, one reconfiguration, two commands to a wake instead of six |
| `script_power` | *violation* of `CameraPowerAsTold` | one command of two kinds, nothing lost |
| `cpp_base` | `ExecutedAsRegistered`, `AcceptedIsExecuted` (applications); `ChildrenAccounted`, `StopIsSafe` (child processes); `FilterAsTold`; `EnteredFirst`; `LoopsEnd` | three posts to a pipe of two, five registrations with a duplicate; two children, five identities of the process, a wait of two turns; two ids that share an entry, a third that only files name, five files, a counter of 3 bits that wraps; four states, two of one name |
| `finalpass` | `NeverOverwritten`, `SessionsAreWhole`, `LoadDBReturns` | three users, two identities of threads, which come back |
| `finalpass_admin` | *violation* of `AdminKept` | as above |
| `http_request` | `BodyFits`, `BodyIsWhole`, `AnsweredOnce`, `AcceptedIsWhole`, `ClosedEnds` | lengths 0, 1, 2, 4, 10, 11 around a start of 4 and a limit of 10; an int of 5 bits, and -2, -1, 15, 16, 31, 37 and 600: negative, the largest int, one more, what wraps to -1 and to a small number, more than a long; limits of 10, 0, -1 and the largest int; all outcomes of the handlers |
| `web` | `RateLimited`, `SocketsAccounted`, `NobodyIsLeftWaiting` (listener); `ServesAsConfigured`; `ReportIsTheTable` | two connections whose identities come back, an interval of 2 ticks, windows of 2 intervals; server files with a double key, a comment, a line without colon, a long line whose rest looks like an entry, a port above the width of a port; memory fails once; four keys, one without data, visited four times, with lines below, at and above the width of a size |

Constants that only bound a run and not the code: `MaxClears`, `MaxTime`,
`MaxLoads`, `MaxBeats`, `MaxCommands`, `MaxChallenges`, `MaxInbox`, `MaxSent`,
`MaxLost`, `MaxConfigures`, `MaxPosts`, `MaxPush`, `MaxItems`,
`MaxEnds`, `MaxRestores`, `MaxStored`, `MaxStarved`, `MaxVisits`. Widths are
scaled: `CounterSize` 8 for 2^16, `PortMod` 8 for 2^16, `SizeMod` 16, `IntMax` 15 for
2^31 - 1, `ByteMod` 8 for 256, `LineMax` 10 for 1024; every value just below and at each of them
occurs. `CHECK_DEADLOCK FALSE` is said where the system may stop: a contact or a
clock ends, a process exits, or a bound is reached.

### Fairness

- `Packetizer`: a step of the retry loop that is enabled is taken. It is a loop
  in one thread.
- `ScriptUdp`: the application's task runs. `ServedWhenQuiet` has the silence of
  the bus as its premise, since scripts are served from the timeout only.
- `ASyncApp`, `FrameApp`: `Execute`, the application's own task. Nobody has to
  post or to ask it to stop.
- `SubProcess`: the caller goes on with the call it is in (`InsideCall`); no
  child has to end.
- `FinalPass`: both threads are scheduled, but nobody has to choose an entry of
  the menu, and `Receive` is not fair: a peer may never connect.
- `HttpRequest`: the process is scheduled once its client has closed, and the
  wait at the end, which has a limit of 250 ms, ends. A client that neither
  sends nor closes may keep its process for ever; the code sets no timeout.
- `WebListener`: the listener's own steps, time, and what a process does before
  and after its request. That a request ends is assumed only after its client
  has closed.

## 5. Proofs

TLAPS checks the theorems below for all values of the constants that satisfy the
named assumptions of the modules. Each safety proof is an inductive invariant
with one step per action; most of the properties are far from inductive, and what
had to be added says why the code is right.

### Containers (`ContainersProofs`)

A step of the composition is a step of one class and a stutter of the others, so
each class has its own invariant and `AllInductive` joins the four.

- Ring buffer. `CursorsConsistent`: `TypeOK` and `OccupancyAgrees` are inductive
  together. `RingImplementsFifo`: `Spec => Fifo!Spec`; the lemmas say what a push
  appends, what a pop returns and what a drop leaves of `Content`, element by
  element and modulo `N`, and `FindRefines` needs that a least match exists.
  `RingAmongOthers` carries both into the composition.
- Keyed queue. `IndexesAlwaysAgree`, `QueueFindsWhatItHolds`: `pop()` may forget
  the key of an entry that stays, so `IndexesAgree` alone is not inductive;
  `QueueOrdered` adds that entries are listed once, in the order of their pushes.
- Persistent FIFO. `ItemsAreKept`: between its reads and its last write `save()`
  has the items in its own memory only. `PipeAll` says where every item is, those
  of a `save()` that ended or was disturbed included; `PipeCalm`, that an
  undisturbed one finds the pipe as it counted it and puts everything back;
  `PipeOnce`, that no item is in two places, and `PipeOrder`, that what was taken
  came before what is still there unless the peer pushed in between.
- File store. `ItemsAlwaysSurvive`: the disk begins with the halves of the items
  before the first short write, whatever is written behind them, and a copy of it
  is as good as the disk was. `ItemsOfHalves` and `WrittenIs` are the arithmetic
  of writing and reading halves.

### Classes of `cpp_base` (`CppBaseProofs`)

- `StatesEnteredFirst`: `lastId_` names a state only as long as that state is the
  one entered last, is "ERROR" after an exception, and empty before anything was
  entered; a state may have either name.
- `ProcessStopIsSafe`, `ChildrenAlwaysAccounted` share one invariant: an untold
  live child is the one behind `open_` (`UntoldIsOpen`), `pipe_` names a child that
  was started, nothing of a freed pipe is held, and a `stop()` in progress has told
  its child unless that was collected before.
- `MessagesExecutedAsRegistered`: positions in the pipe increase (`PipeInOrder`),
  the tables are what the registrations made so far leave (`TablesMade`; that a
  first registration exists is a least-element argument), and the loop only runs
  with all of them made.
- `OnlyOversizeWedgesIt` (packetizer): the flags and the packet agree
  (`PacketizerTypes`), and a search that finds nothing leaves one byte more than a
  sync word has, which is less than the store. What a packet buffer is written
  with is a header and the payload it announces.
- `StreamComesBack` (packetizer): the store is a piece of the contact (`View`),
  between the bytes read and the bytes pushed, as long as no chunk was refused.
  `Recovering` says for each state of the flags where in the contact the
  packetizer is: the frames delivered begin before that place and the others
  behind it (`Passed`), a sync word found is a sync word of the contact
  (`BehindSync`), a header taken is the one behind it (`BehindHeader`), and when a
  call returned nothing no further frame is complete (`Unfinished`). That a sync
  word in a store which does not end in one is always seen is `SyncIsInside`; a
  cut-off frame is passed by `PassCutFrame`, noise by `PassNoise`.
- `LossStaysLocal` (packetizer): here sync words may be missed, and a header can
  be misread and skip several frames, so the invariant does not count them.
  `Settling` says of every frame that is first or behind a whole frame and begins
  before the place reached: it is delivered, or a delivered packet holds the frame
  before it (`Settled`). `BeforeFrame`: a sync word in front of such a frame and
  behind the beginning of the frame before it does not exist, because that frame
  ends where this one begins. `UnseenIsLast`: a sync word is missed only at the end
  of a store, where its frame is not complete. `WholeMessageSettles`: a packet that
  runs past the beginning of such a frame is that frame or holds the one before it.
- `FilterDoesAsTold`: `AllowedAsTold` with `HeldBack`, which ties the number of
  packets held back in a row to the counter modulo the rate, so that neither a
  wrap nor a new rate can stretch it.

### Geofence and the chain (`ImagingProofs`)

- Alone (`Geofence...`): to `TypeOK` the invariant adds that the last use of the
  camera is not younger than the mark, that every known zone is in `restricted_`,
  that the time noted of a measurement is the time it was heard (`heard`) and a
  measurement is set when its time is, and that a block reported is a block
  kept. `WhoPublishes` says which guards the only actions that publish have passed;
  each action property follows from it.
- `ChainImplementsGeofence`: `ImagingSpec => Spec`. Whatever the two sources and the operators
  send is a message `GeofenceApp` was specified for, so `ChainSpaced`, `ChainZones`,
  `ChainMeasured` and `ChainBlock` follow without another invariant.
- `ChainAsks`, `ChainStaysFresh`: how old a measurement can be depends on where
  its successor is. `PositionLate` and `AttitudeLate` bound it: the heartbeats since
  the last request while nothing is owed; the rate and the time since it was asked
  for while an answer is owed; the rate and `ANSWER_WITHIN` while it is in the
  pipes. The frame counters are tied to the heartbeats by `Counted`, and no
  application has a heartbeat behind another message (`PpsFirst`).

### The other programs

- `ScriptUdpProofs`: `HalvesMeetOnlyByLoss` numbers the datagrams in the order of
  sending. `StreamInv`: the socket is sorted, everything in it is later than the
  opcode just read, and between the first of them and the last one sent nothing is
  missing that was not lost. `RequestsAreTheScripts` adds `Spec => Service!Spec`:
  the commands whose opcode waits or has just been read are what may still be
  served; the places of datagrams show that the one in hand is the oldest
  (`ArgumentServes`), and that taking an opcode for an argument loses the command
  right behind it and no other. `DescriptorsAreAccounted`: an open socket is one
  descriptor, and every throw left one behind.
- `VaultProofs`: that a key is used twice or by somebody who was not given it needs
  the history of the queue. The invariant says that every key in a queued command
  was heard by its sender, that what was heard was issued, that the current
  challenge names `user_`, that an open challenge is not spent, and that the run
  area holds at most what was loaded. `VaultImplementsBank: Spec => Bank!Spec`: the
  open challenge is the one open ticket (`OpenTicket`); an AUTH opens the next and
  overtakes the one before it (`IssueIsIssue`), a protected command uses the ticket
  its sender holds, or throws and leaves it good (`ProtectedIsUse`). That a command
  may wait while the challenge changes is why the key, and not the conversation,
  has to name the ticket.
- `FinalPassProofs`: `DatabasesAreKept`, `SessionsComeFromWholeFiles`. There is
  at most one database thread and `thread_active` speaks for it (`OneThread`), so
  what it found out about the directory still holds when it opens the file
  (`StillFree`); the main thread only removes.
- `WebProofs`: `EverySocketIsAccounted` needs that a waiting connection
  has no process and no owner (`Known`). `AcceptsAreLimited`: the accepts of a
  window are at least an interval apart but for one (`Spaced`), counted from the
  last wait. `ServerIsAsWritten`: while no entry was lost and no rest of a long
  line taken for one, a dictionary holds the entries of the lines read so far, in
  their order (`KnowsKeys`, `KnowsTypes`), so that what `findDict()` finds first
  (`FirstIsFound`) is what the file says first; the settings are made of that.
- `StatisticsAreTheTable` (`WebProofs`): what a search or a walk of the tree
  computes is a recursion, so `TreeInv` gives every node its span, the keys whose
  search comes by it. A child's span is one side of its parent's without the
  parent (`Placed`); no counted key lies on a side without a child (`Filed`); two
  spans are disjoint or one is inside a side of the other (`Apart`). Spans shrink
  downwards, so both recursions have a solution (`WalkIsDefined`,
  `ListIsDefined`: least counterexamples on the size of the span), a search ends
  at its key or where the key belongs (`SearchEnds`), a new leaf takes over one
  side of its parent (`NewLeaf`), and the walk lists the counted keys of a span in
  ascending order (`SubtreeInOrder`). `PageInv`: what went out and what is still
  to go are together one full page, and of every line what went out and what is in
  hand are all of it.
- `HttpRequestProofs`: `BodyFits` is not inductive alone: `Counted` relates the
  bytes read and announced, `BodyBounded` (which no run repeats) the memory. The
  sums are those of an int: `RoomIsMade` says that a chunk which leaves the sum
  below the largest int is given its room, `NegativeNeedsNoRoom` that a negative
  size makes nothing grow, and a length that `atoi()` made of a longer number is as
  good as any other. `ServerReadsBodies`: every step of a connection's process is a
  step of `ReadBody` or leaves it alone, so the theorems of `ReadBody` hold in the
  server. `PagesNeedWholeBodies` follows with an invariant on the last answer, and
  `RequestsAnsweredOnce` from the handlers being lists of checks: the first that
  does not pass decides, so exactly one of them answers (`OnceInv`).

### Assumptions on constants

They are named in the modules and TLC evaluates them on every run. Beyond types
(lengths, bounds, rates and times are natural numbers; files and messages have
their fields): the ring buffer has a slot and the pipe of an application a place
(`CapacityAssumption`, `ASyncAppAssumption`); the command id is the id of no
telemetry message, and every command handler has it; the clock starts later than
the measurement timeout (`ClockAssumption`); some geofence file is good, which
`initialize()` needs (`ImagingAssumption`); the server's port is not one that
other programs have taken (`ScriptAssumption`); a packetizer's store is larger
than a header and by two bytes larger than a sync word, its packet buffer holds a
header, and no header announces a length at the end of `size_t`
(`PacketizerAssumption`); limits and lengths are ints and integers, of any sign
(`ReadBodyAssumption`); words in a table of MIME
types are not empty and ports are numbers (`WebConfigAssumption`); the keys of the
statistics are finitely many numbers, their lines have at least their two bytes of
end, and the header and the footer of a page fit into the buffer
(`StatsAssumption`). Values that stand for "nothing"
are none of the values they are not: `Unset`, `NoEntry`, `Null`, `Nobody`,
`"none"` as an id, `"listener"` as a connection.

### Only model-checked

- Liveness (`GetPacketReturns`, `ServedWhenQuiet`, `AcceptedIsExecuted`, `LoopsEnd`,
  `LoadDBReturns`, `ClosedEnds`, `NobodyIsLeftWaiting`): fairness is out of the
  prover's reach.

Proved and not repeated by a run: `BlockHolds` (a report that forbids polling
holds until another one or a reset), `BodyBounded`, `RunAreaHoldsLoaded` (which
the run of the vault shows as part of `ImplementsBank`), and the types of `Vault`.

## 6. Disagreements and observations

Runs that find a counterexample:

- `packetizer_cutoff`: the test says that a packet cut off by the next sync word
  "should be detected as a double sync and be dropped"
  (`SC/cpp_base/ut/TestPacketizer.hpp:222`). `unpackMessage` looks for the
  second sync word with `find_pattern`, which does not look at the last
  alignment, and cannot see a sync word of which only a part has arrived: a call
  made at that moment hands the damaged packet out. `StreamRecovered` is stated
  for contacts without such a call (`edge`) and without a refused chunk
  (`refused`), `LossIsLocal` for all without a refused chunk.
- `finalpass_admin`: `DeleteDB()` says "Can't delete the admin DB!"
  (`GC/finalpass/static/manager/manager.cpp:651`) on the strength of
  `current_username`, which the database thread sets, and removes the database
  of `current_user`.

- `script_power`: `camera_power()` answers "off" with power 1, as it answers "on"
  (`SC/script_udp/src/ScriptUdp.cpp:162`, `:169`). `io_cmd.txt:29` in
  `SC/messages/cosmos/targets/IO/cmd_tlm` documents the field as "1=on, 0=off".
  `CommandService` promises what the code does, so `AsksAsTold` holds and says
  nothing of "off".

Observations without a run:

- `circular.hpp:127-128` misses a pattern that ends at the last byte.
  `BoundedFifo!Find` states what callers may still rely on.
- `Packetizer.hpp:177` takes a payload into `packet_` that only has to fit the byte
  store. With a store of 10000 and a packet of 1024 bytes, a header that announces
  a length in between writes behind `packet_`: `OnlyOversizeWedges` says that
  nothing else does.
- `StateMachine.h:75` writes "ERROR" into `lastId_` after an exception: a state of
  that name, if one is next, runs on without `enter()`. A state named "" runs
  without it at the start.
- `GeofenceApp.cpp:55` announces "reset: loading default geofence", but
  `Geofence.cpp:61` appends: the zones of earlier files stay, which
  `NoPictureOverZone` makes use of, and every reset makes the list longer.
- `manager.cpp:330` returns from `LoadDB()` with the lock when
  `pthread_create()` fails; `LoadDBReturns` excludes what follows. `Login()` is
  outside the lock. The database thread ends the whole program when a database
  cannot be opened or written (`:277-282`).
- `read_body.c:176-188`: a client that closes between two chunks ends its body
  with success, since no line reads as a size of 0; in a chunk it is refused
  (`:160`).
- `read_body.c:121` and `:123` add ints: a chunk whose size and what was read before
  come to 2^31 - 1 or more wraps the sum, nothing grows, and `read()` is asked for
  all of it. `BodyFits` holds below that, and `Overrun` is what follows. A chunk
  size is an int as well, so eight digits can make it negative, which `read()`
  refuses.
- `Content-Length` goes through `atoi()` (`read_body.c:32`, `http_post.c:87`): of
  4294967301 five bytes are read and accepted. `maxEntitySize` is compared as an
  unsigned long in `handlePost()` and as an int in `read_body()`: above 2^31 - 1 it
  is negative there, and the refusal in `read_body.c:34-38` can be reached.
- `http.c:345` copies `Host` into 254 bytes with the length of what it copies; lines
  have up to 4095. In the model the process may die there.
- `http_get.c:215-221` and `:288` use what `decode_base64()` and `crypt()` return
  without asking whether it is null: such a process ends (`AuthChecks`).
- `http_post.c:59-60` sends `100 Continue` before `Content-Length` is looked at,
  so 413 can follow. The check in lines 107-108 cannot be reached.
- `maxRequestsPerSec = N` lets N + 1 connections into a second (`RateLimited`
  has the exact bound): the interval is measured from the end of the last wait.
- A `cmd` that is no string ends the process of its connection
  (`admin_pages.c:358`).
- GPS: `polling_cfg()` is registered nowhere, so a report that forbids polling
  stops the attitude application and the geofence and not the GPS application
  (`Gps.cpp:20-35`). A rate of 0 divides by zero, in `AttitudeApp` even while
  polling is off. Two tests describe other behaviour: `gps_ut.hpp` (`BadSoln`)
  expects that a position without a solution is not published, which
  `BestPos.hpp:69-71` does; `attitude_ut.hpp` (`Blinded`) expects an answer to a
  report whose handler is commented out (`Attitude.cpp:35`).
- `subprocess.cpp`: `stop()` after a `run()` that failed reads through a null
  `pipe_`, since `open_` stays true (`StopIsSafe` excludes just that); it asks
  for the exit code once and at once, so that a child that is still ending is
  left for the next `alive()`, and sends its signal to a process that may have
  been collected. A `run()` after the child ended by itself forgets its two
  descriptors. The child closes every descriptor above 2 before it duplicates
  the pipe ends (lines 109-125, 309). `wait_for_end()` divides by its step.
- `PacketFilter.cpp`: `from_json()` resets five tables of six: an
  acknowledgement allowed by an earlier file stays. The constructor leaves the
  counters and depths as the memory was. A rate of 0 divides by zero.
- `persistent.hpp`: an owner that ends inside `save()` loses what it had taken
  out, a `save()` of an object opened read-only leaves the items in the file
  alone, and a peer that pushes during one has its items in front of older ones.
  `ItemsKept` says that these are the only ways to lose an item or its place.
  `filestore.hpp:94` compares what was written and does nothing: `ItemsSurvive`
  has the items before the first short write, and no more.
- `key_queue.hpp:75`: `get()` of a key that is not there puts an empty pointer
  into the map and reads through it.
- `TimerApp.cpp` hands cFE the address of a lambda object as a function, and
  `ClockFrameApp.hpp` takes its callback back under another address than it gave.
- `config.c`: `port` has 16 bits, so the test against 65535 never fails, and
  `maxEntitySize` is unsigned, so a negative one is large: `ServesAsConfigured` has the configured
  numbers only if the members hold them. `fgets()` reads a long
  line in pieces that count as lines. Nobody looks at what `addDictEntry()`
  returns. `stats.c` cuts the size of a line above 255 to a byte; no caller in the
  server reaches its pages, so `ReportIsTheTable` is about code that is ready and
  not in use.
- `IronBank.cpp:280-312` answers `download_flag` with success also when the flag
  could not be written, and the challenge is spent (`DownloadFlag`).

## 7. What is not modelled

Reasons are in `PROJECT.json`, component by component. In short: floating-point
geometry and orbits (`SC/spacemath`, `Geofence::calcRestricted`,
`Zone::isInside`) is the constant predicate `Inside`; generated message layouts,
text formatting and dates are left out; cryptography, password
checks and JSON parsing are choices; vendored code (cJSON, the Lua sandbox) and
the applications that are not in the repository (IO, Script, Staging, Tlm, Tva,
Filez, Ping, heartbeat, cFE itself) are external: their messages come at any
time. Of the modelled classes, what is left out is named in their components:
queries that change nothing, and `SubProcess`'s helpers that look for processes
by name. `UdpClient`, encoded forms,
base64, md5 and crc are reached by nothing that is modelled.

## 8. Plan

Done: the core (ring buffer, packetizer, applications, geofence, script bridge,
vault, manager, web server); the classes of `cpp_base` and `containers`; GPS,
attitude and the chain they form with the geofence; the start of the web server
and its statistics.

Proved: every safety property of the runs (section 5).

Next, in order:

1. Abstract specifications: at-most-once execution for `ASyncApp`; a session
   manager for `FinalPass`.
2. `Imaging` with pipes that overflow, as `ASyncApp` models them one at a time:
   how old a measurement may get when heartbeats are lost.
3. Encoded forms and the escapes of URLs, as conversions that must not lengthen
   what they convert; the UDP client.

There are twelve runs. Nine must pass and check forty properties; three find the
counterexamples to `CutOffIsDropped`, `AdminKept` and `CameraPowerAsTold`. Both
numbers are kept, so a new
question replaces a weaker one or becomes a conjunct of a property about the same
class. A composition replaces the run of its part when it asks the same questions
of more of the system.
