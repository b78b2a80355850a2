---------------------------- MODULE VirtualBoard ----------------------------
(***************************************************************************)
(* The VPI plug-in at run time.  The simulation thread executes the design *)
(* and calls back when a net with linked pins changes; the web socket      *)
(* thread (SeasocksServer) announces pins to the viewers and carries out   *)
(* their CHANGE commands.  The two share the job queue of the server, the  *)
(* nets of the simulator and the size of the handler's set of connections. *)
(*                                                                         *)
(* An announcement is a job named by its pin: the lambda that              *)
(* on_pins_value_change() posts captures the pin, and reads the pin's      *)
(* value when it runs.  A call of the simulator (vpi_get_value,            *)
(* vpi_put_value) is one step.                                             *)
(***************************************************************************)
EXTENDS Naturals, Sequences, FiniteSets

CONSTANTS Conn,        \* slots for web socket connections
          Pin, NoPin,  \* the pins of the pin set; no pin
          Net, NoPut,  \* nets of the top entity; no value waits for a net
          Input,       \* the nets of direction in; the others are outputs
          Width,       \* bits of each net
          PinNet, PinIndex,  \* the net bit each pin is linked to
          Clock,       \* the nets called up_counter.clk: one or none
          MaxPending   \* the design changes no net while more jobs wait

ASSUME PinAssumption ==
  /\ NoPin \notin Pin /\ Input \subseteq Net
  /\ Width \in [Net -> Nat \ {0}]
  /\ PinNet \in [Pin -> Net] /\ PinIndex \in [Pin -> Nat]
  /\ \A p \in Pin : PinIndex[p] < Width[PinNet[p]]
  /\ Clock \subseteq Net
  /\ MaxPending \in Nat

Sim == "sim"           \* the only thread that calls execute()

VARIABLES
  wakeable, pending, batch, job, wake, calling, terminate, loop, events, doomed, conn,
  sim,         \* where the simulation thread is
  test,        \* the level main_callback() drives next
  registered,  \* pins whose value-change callback was registered
  nets,        \* value of each net, a function from bit numbers to bits
  put,         \* values put on nets, which the next simulation cycle applies
  firing,      \* pins whose value-change callback is due in this cycle
  cbPin,       \* the pin whose callback saw a peer and is about to post
  text,        \* the value in the message of the running announcement
  connections, \* websocket_handler::connections
  seen         \* history: what each viewer knows of each pin

INSTANCE SeasocksServer WITH Caller <- {Sim}, Job <- Pin, NoJob <- NoPin

ASSUME ConnAssumption == {Listen, Wake} \cap Conn = {}

wsVars == <<wakeable, pending, batch, job, wake, calling, terminate, loop, events,
            doomed, conn>>
boardVars == <<sim, test, registered, nets, put, firing, cbPin, text,
               connections, seen>>
vars == <<wsVars, boardVars>>

Bit == {0, 1}
Word(n) == [0 .. Width[n] - 1 -> Bit]
AllZero == [p \in Pin |-> 0]

\* pin::get_value(): the pin's bit of its net.
Value(p) == nets[PinNet[p]][PinIndex[p]]

\* The number 0 or 1 as a word of net n.
BoolWord(n, v) == [b \in 0 .. Width[n] - 1 |-> IF b = 0 THEN v ELSE 0]

\* The word onData() makes for "CHANGE p v": v is a bool, so the mask of bit i
\* selects nothing of a 0, and is added to a 1 that stays in bit 0.  The net's
\* own value does not come into it.
ChangedWord(n, i, v) ==
  [b \in 0 .. Width[n] - 1 |-> IF b \in {0, i} THEN v ELSE 0]

\* What a viewer knows is remembered as long as it can be told more.
Remember(known) ==
  seen' = [c \in Conn |-> IF conn'[c] = "open" THEN known[c] ELSE AllZero]

-----------------------------------------------------------------------------
(* The simulation thread                                                   *)

InSim(pc) == sim \in pc /\ calling[Sim] = "idle"

\* After a callback: the next one of this cycle, or back to the kernel.
NextCallback == IF firing' = {} THEN "kernel" ELSE "fire"

\* cb_init(), first half: the web socket server thread is started.
OpenWsServer ==
  /\ InSim({"start"})
  /\ sim' = "register"
  /\ UNCHANGED <<wsVars, test, registered, nets, put, firing, cbPin, text,
                 connections, seen>>

\* cb_init(), second half: a failed registration is reported and skipped.
RegisterPins ==
  /\ InSim({"register"})
  /\ registered' \in SUBSET Pin
  /\ sim' = "kernel"
  /\ UNCHANGED <<wsVars, test, nets, put, firing, cbPin, text,
                 connections, seen>>

\* Mutant: the level is counted up instead of toggled.
MainCallbackCounts ==
  /\ InSim({"kernel"})
  /\ put' = [n \in Net |-> IF n \in Clock THEN BoolWord(n, test) ELSE put[n]]
  /\ test' = test + 1
  /\ sim' = "delta"
  /\ UNCHANGED <<wsVars, registered, nets, firing, cbPin, text,
                 connections, seen>>

\* main_callback(): drives the clock, if the design is up_counter.  What it
\* reads of cout is only printed.
MainCallback ==
  /\ InSim({"kernel"})
  /\ put' = [n \in Net |-> IF n \in Clock THEN BoolWord(n, test) ELSE put[n]]
  /\ test' = 1 - test
  /\ sim' = "delta"
  /\ UNCHANGED <<wsVars, registered, nets, firing, cbPin, text,
                 connections, seen>>

\* One cycle of the simulator: inputs take the values that were put on them,
\* the design drives its outputs.  An event on a net (which may leave its bits
\* as they were, std_logic has nine values) makes the callbacks of its pins due.
Cycle ==
  /\ InSim({"kernel", "delta"})
  /\ Len(pending) <= MaxPending \/ loop = "down"
  /\ \E new \in [Net -> UNION {Word(n) : n \in Net}], active \in SUBSET Net :
       /\ \A n \in Net : new[n] \in Word(n)
       /\ \A n \in Input : new[n] = IF put[n] = NoPut THEN nets[n] ELSE put[n]
       /\ \A n \in Net : new[n] # nets[n] => n \in active
       /\ nets' = new
       /\ firing' = {p \in registered : PinNet[p] \in active}
  /\ put' = [n \in Net |-> NoPut]
  /\ sim' = NextCallback
  /\ UNCHANGED <<wsVars, test, registered, cbPin, text, connections, seen>>

\* Mutant: off by one, a single peer is nobody.
CheckPeersOffByOne(p) ==
  /\ InSim({"fire"}) /\ p \in firing
  /\ firing' = firing \ {p}
  /\ IF Cardinality(connections) < 2
       THEN sim' = NextCallback /\ UNCHANGED cbPin
       ELSE sim' = "post" /\ cbPin' = p
  /\ UNCHANGED <<wsVars, test, registered, nets, put, text, connections, seen>>

\* Mutant: a pin whose announcement is running is not announced again.
CheckPeersCoalesces(p) ==
  /\ InSim({"fire"}) /\ p \in firing
  /\ firing' = firing \ {p}
  /\ IF connections = {} \/ job = p
       THEN sim' = NextCallback /\ UNCHANGED cbPin
       ELSE sim' = "post" /\ cbPin' = p
  /\ UNCHANGED <<wsVars, test, registered, nets, put, text, connections, seen>>

\* on_pins_value_change(): nothing is announced when nobody is connected.
CheckPeers(p) ==
  /\ InSim({"fire"}) /\ p \in firing
  /\ firing' = firing \ {p}
  /\ IF connections = {} THEN sim' = NextCallback /\ UNCHANGED cbPin
                         ELSE sim' = "post" /\ cbPin' = p
  /\ UNCHANGED <<wsVars, test, registered, nets, put, text, connections, seen>>

\* The rest of on_pins_value_change(), after it looked at the connections.
PostAnnouncement ==
  /\ InSim({"post"})
  /\ Execute(Sim, cbPin)
  /\ cbPin' = NoPin
  /\ UNCHANGED firing
  /\ sim' = NextCallback
  /\ UNCHANGED <<test, registered, nets, put, text, connections, seen>>

\* execute() returns after it wrote to the event descriptor.
WakeServer == WriteWake(Sim) /\ UNCHANGED boardVars

-----------------------------------------------------------------------------
(* The web socket thread                                                   *)

\* Steps of the server that concern neither the handler nor the pins.
ServerOnly ==
  /\ \/ sim # "start" /\ Serve
     \/ RunExecutables
     \/ HandlePipe \/ HandleAccept
     \/ \E c \in Conn : ReadRequest(c) \/ EventDone(c)
  /\ UNCHANGED boardVars

Blocked == (EpollWait \/ EpollTimeout) /\ UNCHANGED boardVars
Fatal == FatalEvent /\ UNCHANGED boardVars

\* Mutant: the pin is looked up by its net, which finds the one of index 0.
ReadFirstPin ==
  /\ StartJob
  /\ text' = nets[PinNet[job']][0]
  /\ UNCHANGED <<sim, test, registered, nets, put, firing, cbPin, connections, seen>>

\* The lambda starts: it reads the pin and prints it.  The reading is one step
\* here; PinReading takes it apart.
ReadPin ==
  /\ StartJob
  /\ text' = Value(job')
  /\ UNCHANGED <<sim, test, registered, nets, put, firing, cbPin, connections, seen>>

\* Mutant: the first send that fails ends the loop.
SendAllStops ==
  /\ \E failed \in SUBSET (connections \cap Open) :
       /\ EndJob(failed)
       /\ Remember([c \in Conn |->
            IF c \in connections /\ failed = {} THEN [seen[c] EXCEPT ![job] = text]
                                               ELSE seen[c]])
  /\ text' = 0
  /\ UNCHANGED <<sim, test, registered, nets, put, firing, cbPin, connections>>

\* send_all(): every connection of the handler is sent the message; those
\* that were shut down drop it, and some sends fail.
SendAll ==
  /\ \E failed \in SUBSET (connections \cap Open) :
       /\ EndJob(failed)
       /\ Remember([c \in Conn |->
            IF c \in connections THEN [seen[c] EXCEPT ![job] = text] ELSE seen[c]])
  /\ text' = 0
  /\ UNCHANGED <<sim, test, registered, nets, put, firing, cbPin, connections>>

\* onConnect().  A viewer is taken to know the pins as they are now.
OnConnect(c) ==
  /\ Upgrade(c)
  /\ connections' = connections \cup {c}
  /\ Remember([seen EXCEPT ![c] = [p \in Pin |-> Value(p)]])
  /\ UNCHANGED <<sim, test, registered, nets, put, firing, cbPin, text>>

\* onData() with "CHANGE p v": a word that owes nothing to the net is put on
\* the whole net; what was read of the net before is only printed.
OnChange(c, p, v) ==
  /\ ReadMessage(c, "open")
  /\ put' = [put EXCEPT ![PinNet[p]] = ChangedWord(PinNet[p], PinIndex[p], v)]
  /\ UNCHANGED <<sim, test, registered, nets, firing, cbPin, text, connections, seen>>

\* onData() with anything else: an error is sent back, or fails to be.
OnBadData(c) ==
  /\ \E after \in {"open", "shut"} : ReadMessage(c, after)
  /\ Remember(seen)
  /\ UNCHANGED <<sim, test, registered, nets, put, firing, cbPin, text, connections>>

\* The peer leaves, or the server gives it up.
PeerLeaves(c) ==
  /\ ReadEnd(c)
  /\ Remember(seen)
  /\ UNCHANGED <<sim, test, registered, nets, put, firing, cbPin, text, connections>>

\* Mutant: the destructor leaves the handler alone.
OnDisconnectForgotten ==
  /\ ReapLame \/ DispatchEnd \/ Shutdown
  /\ Remember(seen)
  /\ UNCHANGED <<sim, test, registered, nets, put, firing, cbPin, text, connections>>

\* Connections are deleted; the destructor calls onDisconnect().
OnDisconnect ==
  /\ ReapLame \/ DispatchEnd \/ Shutdown
  /\ connections' = {c \in connections : conn'[c] # "none"}
  /\ Remember(seen)
  /\ UNCHANGED <<sim, test, registered, nets, put, firing, cbPin, text>>
-----------------------------------------------------------------------------
Init ==
  /\ ServerInit
  /\ sim = "start" /\ test = 0 /\ registered = {}
  /\ nets \in [Net -> UNION {Word(n) : n \in Net}]
  /\ \A n \in Net : nets[n] \in Word(n)
  /\ put = [n \in Net |-> NoPut]
  /\ firing = {} /\ cbPin = NoPin /\ text = 0
  /\ connections = {}
  /\ seen = [c \in Conn |-> AllZero]

SimProgress ==
  \/ OpenWsServer \/ RegisterPins
  \/ \E p \in Pin : CheckPeers(p)
  \/ PostAnnouncement \/ WakeServer

WsProgress ==
  \/ ServerOnly
  \/ Ready # {} /\ Blocked
  \/ ReadPin \/ SendAll
  \/ \E c \in Conn : OnConnect(c) \/ PeerLeaves(c)
  \/ OnDisconnect

Next ==
  \/ SimProgress \/ MainCallback \/ Cycle
  \/ WsProgress \/ Blocked \/ Fatal
  \/ \E c \in Conn : OnBadData(c) \/ \E p \in Pin, v \in Bit : OnChange(c, p, v)

Spec == Init /\ [][Next]_vars

\* Both threads are scheduled.  Nothing makes the design change its nets, a
\* peer send, or epoll_wait() time out.
FairSpec == Spec /\ WF_vars(SimProgress) /\ WF_vars(WsProgress)
-----------------------------------------------------------------------------
TypeOK ==
  /\ ServerTypeOK
  /\ sim \in {"start", "register", "kernel", "delta", "fire", "post"}
  /\ test \in Bit /\ text \in Bit
  /\ registered \subseteq Pin /\ firing \subseteq Pin
  /\ cbPin \in Pin \cup {NoPin}
  /\ DOMAIN nets = Net /\ \A n \in Net : nets[n] \in Word(n)
  /\ DOMAIN put = Net /\ \A n \in Net : put[n] \in Word(n) \cup {NoPut}
  /\ connections \subseteq Conn
  /\ seen \in [Conn -> [Pin -> Bit]]

\* An announcement of pin p is on its way and has not read the pin yet.
Waiting(p) ==
  \/ p \in firing \/ cbPin = p
  \/ \E i \in DOMAIN pending : pending[i] = p
  \/ \E i \in DOMAIN batch : batch[i] = p

\* What the two threads do, as the viewers see it.
Feed == INSTANCE PinFeed WITH
  Viewer  <- Conn,
  value   <- [p \in Pin |-> Value(p)],
  watched <- IF sim \in {"start", "register"} THEN {NoPin} ELSE registered,
  viewers <- Open,
  knows   <- seen,
  due     <- {p \in Pin : Waiting(p)},
  telling <- job,
  said    <- text

\* The callbacks, the job queue, the event loop and the handler implement the
\* feed of pins: each open viewer is told each announcement or is shut, with a
\* value read after the change that caused it, and none is dropped while
\* somebody is connected.
ImplementsFeed == Feed!FeedSpec

\* A viewer that knows an old value of a pin is always about to be told: an
\* announcement that will still read the pin is queued, or one that read the
\* present value is being sent.  So the unlocked look at connections.size(),
\* the value read long after the change and the peers that come and go between
\* the two never leave an open viewer wrong for good.
StaleIsAnnounced ==
  \A c \in Open, p \in registered :
    seen[c][p] # Value(p) => Waiting(p) \/ (job = p /\ text = Value(p))

\* The handler's set holds every open web socket and no freed one: send_all()
\* never calls send() through a dangling pointer, and a server that returned
\* from serve() leaves no connection for which jobs would pile up unread.
HandlerTracksConnections ==
  /\ Open \subseteq connections
  /\ connections \subseteq Live

\* A viewer that knows an old value learns the present one or leaves, even if
\* epoll_wait() never times out and peers keep sending, as long as the server
\* could add its event descriptor to the epoll set.
ViewersCatchUp ==
  \A c \in Conn, p \in Pin :
    (wakeable /\ c \in Open /\ p \in registered /\ seen[c][p] # Value(p))
      ~> (c \notin Open \/ seen[c][p] = Value(p))

\* A pin that is due again and again is announced again and again, unless time
\* and again nobody watches: what StaticUi takes for granted of the feed.
DuePinsAreRead ==
  \A p \in Pin :
    []<>(wakeable /\ Waiting(p) /\ job = NoPin) => []<>(job = p) \/ []<>(Open = {})

\* The comment in onData(): "the net can be an array so setting a net to X
\* value, might change the whole array".  A CHANGE of one pin leaves the other
\* bits of its net at what they are.
ChangeTouchesOnePin ==
  [][\A c \in Conn, p \in Pin, v \in Bit :
       OnChange(c, p, v) =>
         \A b \in DOMAIN nets[PinNet[p]] \ {PinIndex[p]} :
           put'[PinNet[p]][b] = nets[PinNet[p]][b]]_vars
=============================================================================
