# Verification of virtual-board-vhdl

This directory holds TLA+ models of the virtual board, TLC configurations that
check them on small instances, and TLAPS proofs of their main properties for
instances of any size. Paths below are relative to the repository (`src/`).

## The system

A VHDL design runs in the GHDL simulator. A VPI plug-in (`vhdl_vpi/`) is loaded
into the simulator's process and connects the signals of the design's top entity
to the pins of a board:

| part | state | operations | properties that make it correct |
|---|---|---|---|
| start-up (`vpi.cpp` 13-122, `board_config.cpp`, `assignments_cfg/`, `pin_set.cpp`) | board pins, assignments, pin set | read `board.json`, lex and parse `assignments.cfg`, check the assignments, link them to nets, start the servers, register callbacks | a board that runs has a well-formed pin set: one signal for a pin, indices inside their net, no pin on the UsbPort signals; a lookup by id finds the pin that is meant |
| simulation callbacks (`vpi.cpp` 124-200, `pin.cpp`) | nets, callbacks, the level of the clock | `main_callback`, `on_pins_value_change`, reading and putting nets | every change reaches the viewers |
| web socket handler (`websocket_handler.cpp`) | the set of connections | `send_all`, `onConnect`, `onDisconnect`, `onData` (CHANGE) | the set never holds a freed connection; CHANGE acts on one pin |
| web socket server (vendored `external/seasocks/`, `Server.cpp`, `Connection.cpp`) | job queue, event descriptor, connections, epoll events | `execute`, `terminate`, the loop of `serve`, accept, read, flush, close, delete | no lost wake-up; jobs in order; no use of a freed connection |
| UsbPort over HTTP (`virtual_board.cpp` 17-56, `UsbPort/library`) | the nets `inputport_sw`, `outputport_sw` | GET, PUT, `UsbPort.read`, `UsbPort.write` | a number read is one the port had; a number written stays |
| UsbPort converter (`UsbPort/script/usb_port_vpi_ghdl.py`) | files | rewrite, write, move | the sources are never lost |
| run script (`run_script/virtual_board.py`) | GHDL's library | analyse, elaborate, run | every source is analysed; the top entity that is simulated is the project's own |
| static UI (`fpga_static_ui_example/`) | leds and switches shown | click, message | what is shown comes to be what the board has |
| parser prototype (`vhdl_vpi/qsf_parser/`) | tokens, assignments | lex and parse a settings file | it reads what is written, or ends with an error |

The threads of the process are the simulator's (it runs the design and the VPI
callbacks), the web socket server's (`Server::serve`) and those of the HTTP
server. They share the server's job queue (under a mutex), its event descriptor,
the size of the handler's set of connections (read without a lock), and the nets
of the simulator (through VPI, without a lock of the board's own). The converter
and the run script are separate programs, the UI and the UsbPort library are
clients.

What is hard in this code: work handed from the simulation thread to the server
thread as jobs that read their data late; a wake-up sent after the mutex is
released; connections deleted while jobs and events of the same round use them;
peers that come and go between a look at the set of connections and the job that
was posted because of it; reads and writes of whole nets for single bits; checks
at start-up that use different keys for the same pin; numbers that requests put
and take bit by bit beside a running simulation; messages that cross on their way
between the board and its pages; a converter that replaces sources in several
steps, beside a script that simulates what it finds. `PROJECT.json` lists each of these at its line, with
the properties that answer it.

## Modules

| module | models | state and actions |
|---|---|---|
| `JobQueue` | the promise of `Server::execute` | a queue and the running job: `Post`, `Start`, `Finish` |
| `SeasocksServer` | the server thread, its callers and its connections | `pending`, `batch`, `job` are the two queues and the running lambda; `wake` is `_eventFd`; `calling` is a caller between its update and its write to `_eventFd`; `loop`, `events`, `doomed` are the place in `serve`, the sources `epoll_wait` returned and `toBeDeleted`; `conn` is the life of each `Connection` |
| `VirtualBoard` | the simulation thread and the handler, on top of `SeasocksServer` (INSTANCE, with one caller and jobs named by pins) | `nets`, `put`, `firing` are the simulator; `sim`, `cbPin` the place in a callback; `connections` the handler's set; `text` the message being sent; `seen` a history of what each viewer was told |
| `PinFeed` | what the plug-in promises to those who watch: no threads, no queue | `value`, `watched`, `viewers`; `due` pins are read one by one (`Read`), and what was read is told (`Tell`); `knows` is what each viewer can know |
| `PinReading` | one `pin::get_value()` of the server thread, beside the readings of the simulation and of a GET | `nets`, one for each thread that reads; `text` and `len` are GHDL's one buffer, `at` and `n` the place of each thread; `got` what is returned |
| `PinSetup` | `cb_simulation_start` up to the running board, every `exit` included; `get_pin()` | the inputs, the loop counters `section`, `asg`, `net`, and `boardPins`, `pins`, `found`, `total`; `GetPin` gives a position in `pins` |
| `AssignmentsCfg` | lexer and parser of `assignments.cfg` | `next`, `curr`, `tokens` are the loop of `get_tokens()`, one step for a character (`ReadChar`) and one for its end (`LexEnd`); `line`, `assignments` the loop of `parse()`, one action per kind of line |
| `QsfParser` | the parser prototype, beside `AssignmentsCfg` (EXTENDS), whose lexer is the same code | `program` says who reads the file; one action per kind of line |
| `UsbPortHttp` | the GET and PUT handlers in threads of their own, `UsbPort.read` and `write`, beside the simulation and the board's readings | `at`, `n`, `val` are the place, the bit and the number of each request; `put` waits for a cycle; `text` is GHDL's one buffer |
| `UsbPortScript` | the converter, its crashes, and its user, who edits at any time | the places of the files, by the origin of their text; `edited` is a history of the user's changes since the script read the source |
| `RunScript` | `virtual_board.py`, beside the converter and the user (EXTENDS) | `library` holds, for each entity, the text it was last analysed from; `todo` are the files the loop has not come to; `skipped` and `steady` are histories |
| `StaticUi` | the pages of the UI, on `PinFeed` (EXTENDS) | `led`, `shown` are the page's classes; `inbox`, `outbox` the messages under way |

How they compose: `VirtualBoard` instantiates `SeasocksServer`, which implements
`JobQueue`; `VirtualBoard` implements `PinFeed`, on which `StaticUi` stands, so the
page is checked against the promise and not against two threads. `PinSetIsSound`
of `PinSetup` is what `PinAssumption` of `VirtualBoard` asks. `RunScript` and
`QsfParser` extend the modules whose state they share.

`MC...` modules hold instances for TLC, `...Proofs` modules the theorems. An
operator whose comment begins with "Mutant" is a faulty variant of the definition
after it; no specification uses it. It shows that a property notices such a fault.

Choices that a reader of `VirtualBoard` should know. A call of the simulator
(`vpi_get_value` with the reading of its string, `vpi_put_value`) is one step:
`UsbPortHttp` takes those of the HTTP server apart, `PinReading` those of
`pin::get_value()`, which other threads may disturb. The properties of `VirtualBoard`
hold as far as a reading is not disturbed. Two readings, of `up_counter.cout` in
`main_callback` and of the net in `onData`, are left out because what they return
is only printed; that they disturb the others is what `PinReading` shows of the first.
The look at the connections and the post are two. The design is arbitrary: in a
cycle it may change any output, and a net may have an event that leaves its bits
as they were (`std_logic` has nine values; a bit is 1 or not). A viewer is taken
to know the pins when it connects: the code sends no snapshot, so the properties
speak of the changes after that; that a page starts out ignorant is listed as a
hazard. `test`, the level `main_callback` drives, is a bit.

`AssignmentsCfg` knows a character by its class: one of each kind that the lexer,
`to_lower()` or `std::stoi()` tells apart. What a file means is said apart from the
automaton, by places in the file: where lines start (`LineStarts`), where words start
in a line (`WordStarts`), and what stands there (`Word`, and `Part` of it up to a
comment or a string). What a target means is said in the same way: `IsSignal` and
`Denotes` speak of places in its text, and use nothing of `NetName`, `Num`, `Digits`
and `Index`, which model the code's conversion. A number is its count of digits, with
its sign; a number of more than `MaxDigits` digits is one that does not fit an `int`,
for which `std::stoi()` throws. `InOrder` says that a list follows the order of those places.

In `SeasocksServer` the bytes of requests are not modelled: a readable connection
may be upgraded, be read further, deliver a message or end. A write may fail in
any step that writes. `doomed` connections are deleted after the round. A connection
of which nothing was read is silent, or `unheard` when it was shut before, and either
may be reaped as lame. `wakeable` says whether the constructor could add `_eventFd` to
the epoll set; when it could not, the server runs and nothing wakes it.

In `UsbPortHttp` nothing is atomic but a bit: a cycle of the simulation may come
between two bits of a PUT, and a reading of any thread between two bits of a GET
resets the buffer. The histories `alone`, `had` and `returned` only serve the
properties. A number is any integer; its bits are those of two's complement, as
`vpi_put_value` cuts an `int` to the net. What stands in the buffer behind its end
is either bit. In `StaticUi` switches are linked to nets of their own, since
CHANGE also puts the other bits of a net (`board_change`); a click on a switch that
is not on the board is answered with an error and not toggled back. In `RunScript`
a text is an origin, and a file that was opened and not yet written has no entity,
which leaves GHDL's library as it was. A source and the file made of it hold the same
entity. The library starts out empty, or filled by hand from the files of the project.

In `PinReading` GHDL empties the buffer at the start of `vpi_get_value`, adds the bits
from the highest down and an end mark; emptying keeps the
characters, which are written over one by one. Each of the three threads reads a net
of its own.

## Runs

| run | instance | shows |
|---|---|---|
| `server_safety` | 2 callers, 2 connections, 2 jobs, 2 may wait | the queue keeps its promise (`JobsRunInOrder`, a refinement of `JobQueue`), `NoLostWakeup`, `NoStaleConnection` |
| `board_led` | 2 viewers, 1 pin on an output, the whole server with its event descriptor in the epoll set, fair | `StaleIsAnnounced`, `HandlerTracksConnections`; the feed is implemented (`ImplementsFeed`, a refinement of `PinFeed`); of a server that can be woken, without time-outs a viewer with an old value catches up or leaves, pins that are due are read, posted jobs are taken up, shut connections are freed |
| `board_counter` | 1 viewer, the clock and one bit of a 2-bit output | `StaleIsAnnounced` with two nets, CHANGE and `main_callback`; each announcement carries its own bit; `HandlerTracksConnections`, also when the server cannot be woken |
| `setup_all` | 5 boards, all files of up to 2 lines, 3 top entities | the pin set is what the file asks for and is well-formed |
| `cfg_all` | every text of 3 characters in the contexts of `MCQsfParser`, for both programs; numbers of up to 2 digits fit | the automaton and the two parsers agree with a reading by lines and words |
| `project` | 3 versions of a source named with `.vhdl`, one without the UsbPort | no source is lost, a conversion that ends well is whole, and the top entity that is simulated is a text the project has (`SimulatedIsOfTheProject`) |
| `usbport_http` | 2 requests at a time, ports of 2 bits, numbers on both sides of the limit | an undisturbed `read` returns bits the port had; the last undisturbed `write` is what the port has or takes next |
| `ui` | a page loaded again and again, 1 led, 2 switches of which one is on the board, 2 messages each way, fair | a led comes to show its pin (`LedIsAnnounced`, `LedsCatchUp`); a switch shows what its page was the last to set |

Why the bounds are enough. Two callers, two connections and two jobs are what the
races are between: two threads inside `execute` at once, an event for one
connection while the other is deleted, a job overtaken by another. A batch and a
queue of two already hold every pair of orders. The queue has no bound in the code
and none in `SeasocksServer`; `BoundedSpec` of `MCSeasocksServer` lets callers post
while fewer than `MaxPending` jobs wait. In `VirtualBoard` a bound of that name holds
back the design only, so the queue still grows by the pins that fire in one cycle. Two nets, two pins and
two bits separate the pin's bit from its net and from the other pin. In
`PinSetup` two lines make every pair of checks meet (same pin, same signal, wrong
index, a port of UsbPort, two lines for a net). In `AssignmentsCfg` and `QsfParser`
every pair of token types meets in three characters, in front of, inside and after
an assignment; three digits are a number that does not fit, one and two are numbers
that do. In `project` three versions let a conversion, an edit and a second
conversion follow one another. In `usbport_http` two requests are a GET that a GET
disturbs, a PUT between a GET's bits, or two PUTs in turns; two bits give a high
and a low one, and the limit of the code, all bits but the highest, is then 1. In
`ui` two messages are an old value followed by a new one, and two clicks on their
way; the switch of another page would be a change of the pin like any other, and
the safety properties also hold of two pages with one switch and one message each
way, which takes no run of its own. The theorems below hold for all sizes.

Deadlock is not checked in `server_safety`, since the server ends there when
`terminate()` was called or listening failed. It is checked everywhere else, where
the simulation, the requests, the page and the user go on; `Stopped` marks where
start-up and the parsers are over.

### Where the code does otherwise

Four runs exhibit a behaviour that a comment, a message or a readme denies
(`PROJECT.json`, `findings`, quotes each):

- `board_change`: CHANGE of one pin puts a word that owes nothing to its net: all
  bits 0 for a 0, and for a 1 bit 0 and the pin's own bit 1 and the others 0
  (`websocket_handler.cpp` 52-58; `net_val`, read at line 39, is not used);
- `setup_lookup`: `get_pin()` takes the first pin whose id or net has the name it is
  given, so a CHANGE by the id of a pin may reach another one (`pin_set.cpp` 32);
- `project_vhd`: `virtual_board.py` passes over every file named with `.vhd`, the
  UsbPort that the converter makes included;
- `pin_reading`: a reading by another thread empties the buffer while `get_value()`
  fills it, the end mark comes to stand at its front, and a pin that is 1 all the time
  is announced as 0.

More was seen in the models and has no run of its own:

- a pin that goes to 1 and back before the server thread runs is never shown at 1
  (`vpi.cpp` 195 reads it when the job runs), though the readme says that every
  change is sent;
- a pin of the board that is named once by its id and once by its name is linked
  twice, since `pin_exists()` compares the labels of the file (`vpi.cpp` 294);
- `//` starts no comment in `assignments.cfg`, as in the readme's example: such a line
  ends the simulation (`ReadChar`, `ParseLine`);
- a top entity file without `.vhd` in its name (`counter.VHD`) is overwritten in place
  by the converter: `SourcesAreKept` does not hold with `VhdName = FALSE`;
- the comment at `vpi.cpp` 187 expects a lookup by net to find the pin of index 0; it
  would find the first that was linked to the net, and nothing calls it;
- the warning about signals without a pin compares a count of pins with a count of
  signals (`vpi.cpp` 306): a net with two pins and one without any go unnoticed;
- a `board.json` without `buttons` and `otherPins`, such as the bundled
  `vhdl_vpi/assets/board.json`, ends the simulation (`ReadSection`);
- a GET that another reading disturbs may return any number;
- a PUT of a negative number is not refused, and is put as its lower bits;
- a page that is loaded shows every led dark until its pin changes.

## Fairness

`FairSpec` states weak fairness of what each of the two threads does by itself
(`SimProgress`, `WsProgress`). The operating system schedules every thread, and no
step of them waits for another one except `epoll_wait`, which returns when a
source is ready (`Ready # {}`). A server that could not add its event descriptor to
the epoll set is never woken: `PostedJobsAreTaken`, `ViewersCatchUp` and
`DuePinsAreRead` speak of servers that could (`wakeable`, which never changes), and
`board_led` checks those (`WakeableSpec` of `MCVirtualBoard`). Nothing is assumed of the outside: a peer need not send or hang
up, `epoll_wait` need not time out, the design need not change a net, and nobody
need call `terminate`. A caller that has updated the queue does reach its write
to the descriptor, since no step of it blocks. `PeerLeaves` is in
the fair part because a socket that is reported readable is read; it happens
only in the dispatch of an event.

`FairUiSpec` assumes that the board sends what it has read and announces a pin that
is due again and again, unless the feed has no viewer again and again; that is
`DuePinsAreRead`, which `board_led` checks of the two threads. It further assumes
that messages under way arrive. It assumes nothing of clicks and of the design.

## Proofs

`tlapm` proves, for all values of the constants:

- `SeasocksServerProofs` (from `JobAssumption` and `SourceAssumption`: distinct
  names), for a queue without a bound: type correctness, `NoLostWakeup`, `NoStaleConnection`, and
  `JobsRunInOrder`, the refinement of `JobQueue`. The invariant is
  `ServerInv`: beside the types it says which parts of the loop can have events,
  deletions and a batch, and that a wake-up is on its way from the moment the queue
  was swapped (`RoundInv`), and that events and deletions name existing
  connections (`SlotInv`). Without the first part a batch could still be full
  when the next one is swapped in, and the refinement would reorder jobs.
- `VirtualBoardProofs` (from `PinAssumption`, which `SetupMakesABoard` below shows of
  the pins that start-up has made, and `ConnAssumption`): `TypeOK`, `StaleIsAnnounced`,
  `HandlerTracksConnections`. The inductive `BoardInv` is these three with
  `RoundInv` (a batch exists only while jobs are run), `RegisteredInv` (only
  registered pins are announced), `SimInv` (callbacks are due only while the
  simulation thread works them off, and nobody is behind before they are
  registered) and `TextInv` (a message that went stale between the read and the
  send is followed by another one). `StaleIsAnnounced` alone is not inductive: the
  send of a message that went stale keeps it only because of `TextInv`.
  From the same invariant `BoardRunsServer`: every step of the board is a step of the
  server or leaves it alone. So what is proved of the server, with one caller and jobs
  named by pins, holds inside the board: `NoLostWakeup`, `NoStaleConnection` and
  `JobsRunInOrder` are theorems of `Spec` too (`ConnAssumption`, the names of the
  server's own sources, is what the instance needs).
- `VirtualBoardFeedProofs`: `ImplementsFeed`, the refinement of `PinFeed`. Each
  action is shown to be a step of the feed or to leave its variables alone:
  `RegisterPins` is `Watch`, `Cycle` is `Change`, `CheckPeers` is `Drop` when nobody
  is connected (by `HandlerTracksConnections`, for then nobody is open), `ReadPin`
  is `Read`, `SendAll` is `Tell`, `OnConnect` is `Join`, or `Leave` when the
  handshake failed. The rest, from the callback to the queue to the batch, keeps the
  set of pins that are due. Beside `BoardInv` it takes `ForgottenInv`: nothing is
  remembered of connections that are not open.
- `PinSetupProofs` (from `InputAssumption`): `SetupTypeOK`, `PinSetIsSound`,
  `PinSetIsComplete`. The inductive `SetupInv` adds what the first loop has checked so
  far (`CheckInv`) and which assignments to which nets the second one has linked
  (`LinkInv`).
  `SetupMakesABoard` says in the terms of `VirtualBoard` what start-up makes: the
  widths, nets and indices of `PinAssumption`.
- `UsbPortHttpProofs` (from `UsbPortAssumption`; that `2 ^ 0` is 1 and the next power
  twice the one before is part of it, because the prover knows no powers):
  `HttpTypeOK`, `WriteIsKept`, `ReadIsOfThePort`, and `TextIsOfThePort`, by which the
  text an undisturbed GET goes through holds bits the port had. The invariant says
  how far each request has come, that the bits an undisturbed PUT has put are its
  number's, whatever cycles took over, and that the bits of the number a GET has
  made so far are those of the text from the left (`NumberInv`): shifting a number
  left moves its bits up by one, and adding a bit touches only the lowest.
- `RunScriptProofs`, of the converter (from `ScriptAssumption` and `VhdName`:
  the top entity's file name contains `.vhd`): `ScriptTypeOK`, `SourcesAreKept`,
  `ConvertedIsWhole`. The inductive `ScriptInv` adds what each place of the script
  knows (`RunInv`) and that every user text in a file is one the user kept
  (`KeptInv`). Without `VhdName` the theorem is false, as said above.
  Of both scripts (from `RunScriptAssumption` too): `RunSpec` implies
  `ScriptSpec`, so what is proved of the converter holds beside the run script;
  `RunTypeOK` and `SimulatedIsOfTheProject`. Beside the converter's invariant it takes
  `MadeInv` (once the top entity file is gone from the project, the made file is a
  conversion of a version of it) and `LoopInv` (while no top entity file changes, the
  loop has yet to come to one that has an entity, or the top entity in the library is
  a text of the project). The property needs `TopVhdl`: for names with `.vhd` the loop
  passes over all of them (`project_vhd`).
- `StaticUiProofs` (from `UiAssumption`): `UiTypeOK`, `LedIsAnnounced`,
  `SwitchOfLastIsRight`. The inductive `UiInv` adds that what went stale between the
  reading and the sending is read again, unless every page was opened since
  (`TellInv`), that nothing changes before it is settled which pins are watched
  (`FreshInv`), and that the last click on a switch that is under way sends what the
  switch shows (`SentInv`). The lemmas on queues say what the last message on a pin
  is after another is added, and after the first has arrived.
  `PagesUseTheFeed`: `UiSpec` implies `FeedSpec`, so the pages ask nothing of the feed
  that the board does not give.
- `QsfParserProofs` (from `InputsAssumption`: files are sequences of characters; and
  `DigitsAssumption`: a number of one digit fits):
  `CfgTypeOK`, `BoardReadsAsWritten`, `QsfReadsAsWritten`, for files of any length.
  That the automaton agrees with a reading by words would be an induction over the
  text; the lexer takes a step for each character, so it is an invariant instead,
  and no induction over data is needed. `LexInv` says of every moment of the loop
  that the lines of `tokens` are numbered by the lines of the file that were begun,
  in their order, that each line that is over is lexed as it is written
  (`LineLexed`), and that the last one is lexed as far as it was read (`LineRead`).
  Of a line these say, for its first four words, that the word starts a token as
  long as every word before it is one plain token, what the type and the text of
  that token are, and whether the word ends with it. Of what follows a
  word that is no name or option, or that a comment or a string cuts, they say next
  to nothing, and the parsers do not look there. `WordGoesOn`, `WordBegins` and `WordEnds` are what a
  character may do to that, `LineEndInFile` what a line end does. `ParseInv` says
  that the lists of the parsers follow the lines passed so far, in order. From both,
  `GoodIsAssignment`, `TakenIsLocation` and `SkippedIsIgnored` carry each line over
  to its words, and `OrderOfLines` the lists. That the code's conversion of a
  target gives the signal and the number the text denotes, and throws when it denotes
  none, are `NameReads` and `StoiReads`.

Every invariant and every refinement that a passing run checks is a theorem. Only
model-checked are the liveness properties (`PostedJobsAreTaken`, `ShutIsDeleted`,
`ViewersCatchUp`, `DuePinsAreRead`, `LedsCatchUp`): they need fairness and ENABLED,
for which the prover has no rule. What the four
other runs violate is false, and no theorem states it.

## Plan

1. `NetBits`: the mask of `onData` with the width of `int`, against a reading of
   nets as numbers.
2. `ConnectionOutput`: the output buffer of a seasocks connection, `flush`,
   `closeWhenEmpty` and the shut-down half way through a write.
3. Proofs of both: what the mask of `onData` is, for nets of any width,
   and that a connection is freed only when its buffer is sent or given up.

## Not modelled

Vendored libraries other than the event loop and the connections of seasocks
(JSON, cpp-httplib, hashes, zlib), whose behaviour appears where the board calls
them; the encoding of web socket frames and HTTP responses; seasocks' pages and
statistics, which the board does not use; the declarations of `vpi_user.h`, the
interface of the simulator; functions that nothing calls (`get_bit_net`,
`register_cb_at_last_known_delta`, the debug prints); HTTP requests that fail on
their way; the UI's buttons, whose clicks nothing reads; VHDL samples and build
files, which have no behaviour of the board's own; and the wording of messages,
except where a run says that a message is wrong.
