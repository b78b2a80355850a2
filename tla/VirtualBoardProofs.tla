------------------------- MODULE VirtualBoardProofs -------------------------
(* Safety of the virtual board, for any pins, nets and number of viewers.   *)
EXTENDS VirtualBoard, SequenceTheorems, TLAPS

-----------------------------------------------------------------------------
(* The inductive invariant                                                  *)

\* What is proved of the server, for the one that the board embeds.
Server == INSTANCE SeasocksServerProofs WITH Caller <- {Sim}, Job <- Pin, NoJob <- NoPin

\* Only registered pins are announced.
RegisteredInv ==
  /\ firing \subseteq registered
  /\ cbPin \in registered \cup {NoPin} /\ job \in registered \cup {NoPin}
  /\ pending \in Seq(registered) /\ batch \in Seq(registered)

\* Callbacks are due only while the simulation thread works them off.  Nothing
\* changes before the callbacks are registered.
SimInv ==
  /\ sim \in {"start", "register", "kernel", "delta"} => firing = {}
  /\ sim = "post" <=> cbPin # NoPin
  /\ sim \in {"start", "register"} =>
       /\ registered = {}
       /\ \A c \in Open, p \in Pin : seen[c][p] = Value(p)

\* A message that went stale between the read and the send is followed by
\* another, if there is anybody to send it to.
TextInv ==
  job # NoPin /\ text # Value(job) /\ connections # {} => Waiting(job)

BoardInv ==
  /\ TypeOK /\ Server!ServerInv /\ RegisteredInv /\ SimInv
  /\ HandlerTracksConnections /\ TextInv /\ StaleIsAnnounced
-----------------------------------------------------------------------------
(* Facts about the operators                                                *)

LEMMA NoPinFacts == NoPin \notin Pin
BY PinAssumption

LEMMA ValueType == ASSUME TypeOK, NEW p \in Pin PROVE Value(p) \in Bit
<1>1. PinNet[p] \in Net /\ PinIndex[p] \in 0 .. Width[PinNet[p]] - 1
  BY PinAssumption
<1>2. nets[PinNet[p]] \in Word(PinNet[p])
  BY <1>1 DEF TypeOK
<1> QED  BY <1>1, <1>2 DEF Value, Word

LEMMA WordTypes ==
  ASSUME NEW n \in Net, NEW i, NEW v \in Bit
  PROVE  BoolWord(n, v) \in Word(n) /\ ChangedWord(n, i, v) \in Word(n)
BY DEF BoolWord, ChangedWord, Word, Bit

LEMMA BecomeType ==
  ASSUME conn \in [Conn -> ConnState], NEW S, NEW s \in ConnState
  PROVE  Become(S, s) \in [Conn -> ConnState]
BY DEF Become

LEMMA RememberType ==
  ASSUME NEW known, \A c \in Conn : known[c] \in [Pin -> Bit], Remember(known)
  PROVE  seen' \in [Conn -> [Pin -> Bit]]
BY DEF Remember, AllZero, Bit

\* Values depend on the nets only.
LEMMA SameValues == nets' = nets => \A p \in Pin : Value(p)' = Value(p)
BY DEF Value
-----------------------------------------------------------------------------
(* Typing                                                                   *)

LEMMA TypeInit == Init => TypeOK
<1> SUFFICES ASSUME Init PROVE TypeOK
  OBVIOUS
<1>1. ServerTypeOK
  BY EmptySeq DEF Init, ServerInit, ServerTypeOK, ConnState, LoopState
<1>2. DOMAIN nets = Net /\ DOMAIN put = Net
  BY DEF Init
<1> QED  BY <1>1, <1>2 DEF Init, TypeOK, AllZero, Bit

\* Every step of the two threads is one of the server, or none.
LEMMA StepOfServer == BoardInv /\ [Next]_vars => [ServerNext]_serverVars
<1> SUFFICES ASSUME BoardInv, [Next]_vars PROVE ServerNext \/ UNCHANGED serverVars
  OBVIOUS
<1> USE DEF ServerNext, ServerOther, ServerProgress
<1>1. CASE OpenWsServer \/ RegisterPins \/ (\E p \in Pin : CheckPeers(p))
           \/ MainCallback \/ Cycle \/ UNCHANGED vars
  BY <1>1 DEF OpenWsServer, RegisterPins, CheckPeers, MainCallback, Cycle, vars, wsVars,
              serverVars
<1>2. CASE PostAnnouncement
  <2>1. cbPin \in Pin
    BY <1>2, NoPinFacts DEF PostAnnouncement, InSim, BoardInv, SimInv, TypeOK
  <2> QED  BY <1>2, <2>1 DEF PostAnnouncement, Post
<1>3. CASE WakeServer \/ ServerOnly \/ Blocked \/ Fatal \/ ReadPin \/ OnDisconnect
  BY <1>3 DEF WakeServer, ServerOnly, Blocked, Fatal, ReadPin, OnDisconnect
<1>4. CASE SendAll
  BY <1>4 DEF SendAll
<1>5. ASSUME NEW c \in Conn,
             \/ OnConnect(c) \/ PeerLeaves(c) \/ OnBadData(c)
             \/ \E p \in Pin, v \in Bit : OnChange(c, p, v)
      PROVE  ServerNext
  BY <1>5 DEF OnConnect, PeerLeaves, OnBadData, OnChange
<1> QED  BY <1>1, <1>2, <1>3, <1>4, <1>5 DEF Next, SimProgress, WsProgress

\* The server of VirtualBoard and the one that the proofs are about are the same.
LEMMA SameServer ==
  /\ ServerInit <=> Server!ServerInit
  /\ [ServerNext]_serverVars <=> [Server!ServerNext]_(Server!serverVars)
  /\ ServerTypeOK <=> Server!ServerTypeOK
<1>1. ServerInit <=> Server!ServerInit
  BY DEF ServerInit, Server!ServerInit
<1>2. [ServerNext]_serverVars <=> [Server!ServerNext]_(Server!serverVars)
  BY DEF serverVars, Server!serverVars, ServerNext, Server!ServerNext,
     ServerOther, Server!ServerOther, ServerProgress, Server!ServerProgress,
     Post, Server!Post, Execute, Server!Execute, Terminate, Server!Terminate,
     WriteWake, Server!WriteWake, Serve, Server!Serve, RunExecutables,
     Server!RunExecutables, StartJob, Server!StartJob, EndJob, Server!EndJob, ReapLame,
     Server!ReapLame, EpollWait, Server!EpollWait, EpollTimeout, Server!EpollTimeout,
     Handle, Server!Handle, HandlePipe, Server!HandlePipe, HandleAccept,
     Server!HandleAccept, Unheard, Server!Unheard, FatalEvent, Server!FatalEvent, ReadRequest,
     Server!ReadRequest, Upgrade, Server!Upgrade, ReadMessage, Server!ReadMessage,
     EventDone, Server!EventDone, ReadEnd, Server!ReadEnd, DispatchEnd,
     Server!DispatchEnd, Shutdown, Server!Shutdown, Become, Server!Become, NextRound,
     Server!NextRound, Ready, Server!Ready, Live, Server!Live, Open, Server!Open, Shut,
     Server!Shut, Listen, Server!Listen, Wake, Server!Wake
<1>3. ServerTypeOK <=> Server!ServerTypeOK
  BY DEF ServerTypeOK, Server!ServerTypeOK, LoopState, Server!LoopState, ConnState,
     Server!ConnState, Listen, Server!Listen, Wake, Server!Wake
<1> QED  BY <1>1, <1>2, <1>3

\* What the server takes for granted holds of pins and connections.
LEMMA ServerAssumptions == Server!JobAssumption /\ Server!SourceAssumption
BY PinAssumption, ConnAssumption
   DEF Server!JobAssumption, Server!SourceAssumption, Listen, Server!Listen, Wake, Server!Wake

LEMMA ServerStart == Init => Server!ServerInv
<1>1. Server!ServerInit => Server!ServerInv
  BY ServerAssumptions, Server!InvInit
<1> QED  BY <1>1, SameServer DEF Init

LEMMA ServerStep == BoardInv /\ [Next]_vars => Server!ServerInv'
<1> SUFFICES ASSUME BoardInv, [Next]_vars PROVE Server!ServerInv'
  OBVIOUS
<1>1. Server!ServerInv /\ [Server!ServerNext]_(Server!serverVars)
  BY StepOfServer, SameServer DEF BoardInv
<1>2. Server!ServerTypeOK'
  BY <1>1, ServerAssumptions, Server!TypeStep DEF Server!ServerInv
<1>3. Server!RoundInv'
  BY <1>1, ServerAssumptions, Server!RoundStep
<1>4. Server!SlotInv'
  BY <1>1, ServerAssumptions, Server!SlotStep
<1> QED  BY <1>2, <1>3, <1>4 DEF Server!ServerInv

LEMMA ServerTypeStep == BoardInv /\ [Next]_vars => ServerTypeOK'
<1>1. ServerTypeOK' <=> Server!ServerTypeOK'
  BY DEF ServerTypeOK, Server!ServerTypeOK, LoopState, Server!LoopState, ConnState,
     Server!ConnState, Listen, Server!Listen, Wake, Server!Wake
<1> QED  BY <1>1, ServerStep DEF Server!ServerInv

LEMMA TypeStep == BoardInv /\ [Next]_vars => TypeOK'
<1> SUFFICES ASSUME BoardInv, [Next]_vars
             PROVE  TypeOK'
  OBVIOUS
<1>0. ServerTypeOK'
  BY ServerTypeStep
<1> USE <1>0 DEF BoardInv, TypeOK
<1>1. CASE OpenWsServer \/ RegisterPins \/ \E p \in Pin : CheckPeers(p)
  BY <1>1 DEF OpenWsServer, RegisterPins, CheckPeers, NextCallback, wsVars
<1>2. CASE PostAnnouncement
  BY <1>2 DEF PostAnnouncement, NextCallback
<1>3. CASE WakeServer \/ ServerOnly \/ Blocked \/ Fatal
  BY <1>3 DEF WakeServer, ServerOnly, Blocked, Fatal, boardVars
<1>4. CASE MainCallback
  <2>1. \A n \in Net : put'[n] \in Word(n) \cup {NoPut}
    BY <1>4, WordTypes DEF MainCallback
  <2> QED  BY <1>4, <2>1 DEF MainCallback, Bit
<1>5. CASE Cycle
  BY <1>5 DEF Cycle, NextCallback
<1>6. CASE ReadPin
  <2>1. job' \in Pin
    BY <1>6, HeadTailProperties DEF ReadPin, StartJob, ServerTypeOK
  <2>2. text' = Value(job')
    BY <1>6 DEF ReadPin
  <2> QED  BY <1>6, <2>1, <2>2, ValueType DEF ReadPin
<1>7. CASE SendAll
  <2> DEFINE known == [c \in Conn |-> IF c \in connections
                         THEN [seen[c] EXCEPT ![job] = text] ELSE seen[c]]
  <2>1. \A c \in Conn : known[c] \in [Pin -> Bit]
    OBVIOUS
  <2>2. Remember(known)
    BY <1>7 DEF SendAll
  <2> HIDE DEF known
  <2>3. seen' \in [Conn -> [Pin -> Bit]]
    BY <2>1, <2>2, RememberType
  <2> QED  BY <1>7, <2>3 DEF SendAll, Bit
<1>8. ASSUME NEW c \in Conn, OnConnect(c) PROVE TypeOK'
  <2> DEFINE known == [seen EXCEPT ![c] = [p \in Pin |-> Value(p)]]
  <2>1. \A d \in Conn : known[d] \in [Pin -> Bit]
    BY ValueType
  <2>2. Remember(known)
    BY <1>8 DEF OnConnect
  <2> HIDE DEF known
  <2>3. seen' \in [Conn -> [Pin -> Bit]]
    BY <2>1, <2>2, RememberType
  <2> QED  BY <1>8, <2>3 DEF OnConnect
<1>9. CASE OnDisconnect \/ \E c \in Conn : PeerLeaves(c) \/ OnBadData(c)
  <2>1. seen' \in [Conn -> [Pin -> Bit]]
    BY <1>9, RememberType DEF OnDisconnect, PeerLeaves, OnBadData
  <2> QED  BY <1>9, <2>1 DEF OnDisconnect, PeerLeaves, OnBadData
<1>10. ASSUME NEW c \in Conn, NEW p \in Pin, NEW v \in Bit, OnChange(c, p, v)
       PROVE  TypeOK'
  <2>1. ChangedWord(PinNet[p], PinIndex[p], v) \in Word(PinNet[p])
    BY WordTypes, PinAssumption
  <2>2. /\ DOMAIN put' = Net
        /\ \A n \in Net : put'[n] \in Word(n) \cup {NoPut}
    BY <1>10, <2>1 DEF OnChange
  <2> QED  BY <1>10, <2>2 DEF OnChange
<1>11. CASE UNCHANGED vars
  BY <1>11 DEF vars, boardVars
<1> QED
  BY <1>1, <1>2, <1>3, <1>4, <1>5, <1>6, <1>7, <1>8, <1>9, <1>10, <1>11
     DEF Next, SimProgress, WsProgress

LEMMA RegisteredStep == BoardInv /\ [Next]_vars => RegisteredInv'
<1> SUFFICES ASSUME BoardInv, [Next]_vars
             PROVE  RegisteredInv'
  OBVIOUS
<1> USE DEF BoardInv, RegisteredInv
<1>1. CASE OpenWsServer \/ MainCallback \/ WakeServer
  BY <1>1 DEF OpenWsServer, MainCallback, WakeServer, WriteWake, boardVars, wsVars
<1>2. CASE RegisterPins
  <2>1. registered = {}
    BY <1>2 DEF RegisterPins, InSim, SimInv
  <2>2. pending \in Seq(registered') /\ batch \in Seq(registered')
    BY <2>1, SeqMonotonic
  <2> QED  BY <1>2, <2>1, <2>2 DEF RegisterPins, wsVars
<1>3. CASE Cycle
  BY <1>3 DEF Cycle, wsVars
<1>4. CASE \E p \in Pin : CheckPeers(p)
  BY <1>4 DEF CheckPeers, wsVars
<1>5. CASE PostAnnouncement
  <2>1. cbPin \in registered
    BY <1>5 DEF PostAnnouncement, InSim, SimInv
  <2>2. Append(pending, cbPin) \in Seq(registered)
    BY <2>1, AppendProperties
  <2> QED  BY <1>5, <2>2 DEF PostAnnouncement, Execute
<1>6. CASE ServerOnly
  BY <1>6, EmptySeq DEF ServerOnly, Serve, RunExecutables, HandlePipe,
              HandleAccept, ReadRequest, EventDone, boardVars
<1>7. CASE Blocked \/ Fatal
  BY <1>7 DEF Blocked, EpollWait, EpollTimeout, Fatal, FatalEvent, boardVars
<1>8. CASE ReadPin
  <2>1. batch \in Seq(registered) /\ batch # <<>>
    BY <1>8 DEF ReadPin, StartJob
  <2>2. Head(batch) \in registered /\ Tail(batch) \in Seq(registered)
    BY <2>1, HeadTailProperties
  <2> QED  BY <1>8, <2>2 DEF ReadPin, StartJob
<1>9. CASE SendAll
  BY <1>9 DEF SendAll, EndJob
<1>10. CASE OnDisconnect
  BY <1>10 DEF OnDisconnect, ReapLame, DispatchEnd, Shutdown
<1>11. CASE \E c \in Conn : OnConnect(c) \/ PeerLeaves(c) \/ OnBadData(c)
                            \/ \E p \in Pin, v \in Bit : OnChange(c, p, v)
  BY <1>11 DEF OnConnect, Upgrade, PeerLeaves, ReadEnd, OnBadData, OnChange, ReadMessage
<1>12. CASE UNCHANGED vars
  BY <1>12 DEF vars, wsVars, boardVars
<1> QED
  BY <1>1, <1>2, <1>3, <1>4, <1>5, <1>6, <1>7, <1>8, <1>9, <1>10, <1>11, <1>12
     DEF Next, SimProgress, WsProgress
-----------------------------------------------------------------------------
(* The handler's connections                                                *)

LEMMA TrackStep == BoardInv /\ [Next]_vars => HandlerTracksConnections'
<1> SUFFICES ASSUME BoardInv, [Next]_vars
             PROVE  HandlerTracksConnections'
  OBVIOUS
<1> USE DEF BoardInv, TypeOK, ServerTypeOK, HandlerTracksConnections, Open, Live
<1>1. CASE SimProgress \/ MainCallback \/ Cycle
  BY <1>1 DEF SimProgress, OpenWsServer, RegisterPins, CheckPeers, PostAnnouncement,
              Execute, WakeServer, WriteWake, MainCallback, Cycle, wsVars, boardVars
<1>2. CASE ServerOnly
  BY <1>2 DEF ServerOnly, Serve, RunExecutables, HandlePipe, HandleAccept,
              ReadRequest, EventDone, Become, boardVars
<1>3. CASE Blocked \/ Fatal \/ ReadPin
  BY <1>3 DEF Blocked, EpollWait, EpollTimeout, Fatal, FatalEvent, ReadPin,
              StartJob, boardVars
<1>4. CASE SendAll
  BY <1>4 DEF SendAll, EndJob, Become
<1>5. CASE OnDisconnect
  BY <1>5 DEF OnDisconnect, ReapLame, DispatchEnd, Shutdown, Become
<1>6. ASSUME NEW c \in Conn, OnConnect(c) PROVE HandlerTracksConnections'
  BY <1>6 DEF OnConnect, Upgrade, Become
<1>7. ASSUME NEW c \in Conn, PeerLeaves(c) PROVE HandlerTracksConnections'
  BY <1>7 DEF PeerLeaves, ReadEnd, Become
<1>8. ASSUME NEW c \in Conn, NEW after \in {"open", "shut"}, ReadMessage(c, after),
             UNCHANGED connections
      PROVE  HandlerTracksConnections'
  BY <1>8 DEF ReadMessage, Become
<1>9. CASE \E c \in Conn : OnBadData(c) \/ \E p \in Pin, v \in Bit : OnChange(c, p, v)
  BY <1>9, <1>8 DEF OnBadData, OnChange
<1>10. CASE UNCHANGED vars
  BY <1>10 DEF vars, wsVars, boardVars
<1> QED
  BY <1>1, <1>2, <1>3, <1>4, <1>5, <1>6, <1>7, <1>9, <1>10 DEF Next, WsProgress
-----------------------------------------------------------------------------
(* Steps that neither change a pin nor take up an announcement              *)

Quiet ==
  /\ UNCHANGED <<nets, job, text, firing, cbPin, pending, batch, registered>>
  /\ Open' \subseteq Open /\ connections' \subseteq connections
  /\ \A c \in Open' : seen'[c] = seen[c]

QuietAction ==
  \/ OpenWsServer \/ MainCallback \/ WakeServer
  \/ ServerOnly /\ ~ RunExecutables
  \/ Blocked \/ Fatal \/ OnDisconnect
  \/ \E c \in Conn : PeerLeaves(c) \/ OnBadData(c)
                     \/ \E p \in Pin, v \in Bit : OnChange(c, p, v)
  \/ UNCHANGED vars

LEMMA QuietActionIsQuiet == BoardInv /\ QuietAction => Quiet
<1> SUFFICES ASSUME BoardInv, QuietAction PROVE Quiet
  OBVIOUS
<1> USE DEF BoardInv, TypeOK, ServerTypeOK, Quiet, Open
<1>1. CASE OpenWsServer \/ MainCallback \/ WakeServer \/ UNCHANGED vars
  BY <1>1 DEF OpenWsServer, MainCallback, WakeServer, WriteWake, vars, wsVars, boardVars
<1>2. CASE ServerOnly /\ ~ RunExecutables
  BY <1>2 DEF ServerOnly, Serve, HandlePipe, HandleAccept, ReadRequest, EventDone,
              Become, boardVars
<1>3. CASE Blocked \/ Fatal
  BY <1>3 DEF Blocked, EpollWait, EpollTimeout, Fatal, FatalEvent, boardVars
<1>4. CASE OnDisconnect
  BY <1>4 DEF OnDisconnect, ReapLame, DispatchEnd, Shutdown, Become, Remember
<1>5. CASE \E c \in Conn : PeerLeaves(c) \/ OnBadData(c)
                           \/ \E p \in Pin, v \in Bit : OnChange(c, p, v)
  BY <1>5 DEF PeerLeaves, ReadEnd, OnBadData, OnChange, ReadMessage, Become, Remember
<1> QED  BY <1>1, <1>2, <1>3, <1>4, <1>5 DEF QuietAction

LEMMA QuietStep ==
  ASSUME BoardInv, Quiet
  PROVE  StaleIsAnnounced' /\ TextInv'
<1>1. \A p : Waiting(p)' <=> Waiting(p)
  BY DEF Quiet, Waiting
<1>2. \A p \in Pin : Value(p)' = Value(p)
  BY SameValues DEF Quiet
<1>3. registered \subseteq Pin /\ job \in Pin \cup {NoPin}
  BY DEF BoardInv, TypeOK, ServerTypeOK
<1> QED  BY <1>1, <1>2, <1>3 DEF BoardInv, Quiet, StaleIsAnnounced, TextInv
-----------------------------------------------------------------------------
(* Announcements                                                            *)

LEMMA InitInv == Init => BoardInv
<1> SUFFICES ASSUME Init PROVE BoardInv
  OBVIOUS
<1>1. TypeOK
  BY TypeInit
<1>2. Open = {} /\ Live = {}
  BY DEF Init, ServerInit, Open, Live
<1>3. RegisteredInv
  BY EmptySeq DEF Init, ServerInit, RegisteredInv
<1> QED
  BY <1>1, <1>2, <1>3, ServerStart DEF Init, ServerInit, BoardInv, SimInv, TextInv,
     HandlerTracksConnections, StaleIsAnnounced

LEMMA WaitingPost ==
  ASSUME BoardInv, PostAnnouncement, NEW p \in Pin, Waiting(p)
  PROVE  Waiting(p)'
<1>1. /\ cbPin \in Pin /\ pending \in Seq(Pin)
      /\ pending' = Append(pending, cbPin)
      /\ batch' = batch /\ firing' = firing
  BY NoPinFacts DEF BoardInv, TypeOK, ServerTypeOK, SimInv, PostAnnouncement, InSim,
     Execute
<1>2. /\ DOMAIN pending = 1 .. Len(pending) /\ Len(pending) \in Nat
      /\ DOMAIN pending' = 1 .. Len(pending) + 1
      /\ \A i \in 1 .. Len(pending) : pending'[i] = pending[i]
      /\ pending'[Len(pending) + 1] = cbPin
  <2>1. pending' \in Seq(Pin)
    BY <1>1, AppendProperties
  <2> QED  BY <1>1, <2>1, LenProperties, AppendProperties
<1>3. \A i \in DOMAIN pending : i \in DOMAIN pending' /\ pending'[i] = pending[i]
  BY <1>2
<1>4. Len(pending) + 1 \in DOMAIN pending'
  BY <1>2
<1> QED  BY <1>1, <1>2, <1>3, <1>4 DEF Waiting

LEMMA WaitingRun ==
  ASSUME BoardInv, ServerOnly, RunExecutables, NEW p \in Pin, Waiting(p)
  PROVE  Waiting(p)'
<1>1. batch = <<>> /\ batch' = pending
  BY DEF BoardInv, Server!ServerInv, Server!RoundInv, RunExecutables
<1> QED  BY <1>1 DEF ServerOnly, boardVars, Waiting

LEMMA WaitingRead ==
  ASSUME BoardInv, ReadPin, NEW p \in Pin, Waiting(p), p # job'
  PROVE  Waiting(p)'
<1>1. /\ batch \in Seq(Pin) /\ batch # <<>>
      /\ job' = Head(batch) /\ batch' = Tail(batch)
      /\ UNCHANGED <<pending, firing, cbPin>>
  BY DEF BoardInv, TypeOK, ServerTypeOK, ReadPin, StartJob
<1>2. /\ DOMAIN batch = 1 .. Len(batch) /\ Len(batch) \in Nat /\ Head(batch) = batch[1]
      /\ DOMAIN batch' = 1 .. Len(batch) - 1
      /\ \A i \in 1 .. Len(batch) - 1 : batch'[i] = batch[i + 1]
  <2>1. batch' \in Seq(Pin)
    BY <1>1, HeadTailProperties
  <2> QED  BY <1>1, <2>1, LenProperties, HeadTailProperties
<1>3. ASSUME NEW i \in DOMAIN batch, batch[i] = p
      PROVE  \E k \in DOMAIN batch' : batch'[k] = p
  <2>1. i # 1
    BY <1>1, <1>2, <1>3
  <2>2. i - 1 \in DOMAIN batch' /\ batch'[i - 1] = batch[i]
    BY <1>2, <2>1
  <2> QED  BY <1>3, <2>2
<1> QED  BY <1>1, <1>3 DEF Waiting

LEMMA AnnounceStep ==
  BoardInv /\ [Next]_vars => StaleIsAnnounced' /\ TextInv'
<1> SUFFICES ASSUME BoardInv, [Next]_vars
             PROVE  StaleIsAnnounced' /\ TextInv'
  OBVIOUS
<1>t. /\ registered \subseteq Pin /\ job \in Pin \cup {NoPin}
      /\ seen \in [Conn -> [Pin -> Bit]]
      /\ Open \subseteq Conn /\ Open \subseteq connections
  BY DEF BoardInv, TypeOK, ServerTypeOK, HandlerTracksConnections, Open
<1>i. StaleIsAnnounced /\ TextInv
  BY DEF BoardInv
<1>1. CASE QuietAction
  BY <1>1, QuietActionIsQuiet, QuietStep
<1>2. CASE RegisterPins
  <2>1. /\ registered = {} /\ \A c \in Open, p \in Pin : seen[c][p] = Value(p)
        /\ job = NoPin
    BY <1>2 DEF RegisterPins, InSim, BoardInv, SimInv, RegisteredInv
  <2>2. UNCHANGED <<nets, job, conn, seen>> /\ registered' \subseteq Pin
    BY <1>2 DEF RegisterPins, wsVars
  <2> QED
    BY <2>1, <2>2, SameValues DEF Open, StaleIsAnnounced, TextInv
<1>3. CASE Cycle
  <2>1. UNCHANGED <<registered, pending, batch, cbPin, job, text, conn, seen, connections>>
        /\ firing = {}
    BY <1>3 DEF Cycle, wsVars, InSim, BoardInv, SimInv
  <2>2. ASSUME NEW p \in registered, Value(p)' # Value(p) PROVE p \in firing'
    <3>1. nets'[PinNet[p]] # nets[PinNet[p]] /\ PinNet[p] \in Net
      BY <2>2, <1>t, PinAssumption DEF Value
    <3> QED  BY <1>3, <3>1 DEF Cycle
  <2>3. \A p \in registered : Waiting(p) => Waiting(p)'
    BY <2>1 DEF Waiting
  <2>4. job # NoPin => job \in registered
    BY DEF BoardInv, RegisteredInv
  <2> QED
    BY <1>i, <2>1, <2>2, <2>3, <2>4 DEF Open, StaleIsAnnounced, TextInv, Waiting
<1>4. ASSUME NEW q \in Pin, CheckPeers(q) PROVE StaleIsAnnounced' /\ TextInv'
  <2>1. UNCHANGED <<registered, pending, batch, job, text, conn, seen, connections, nets>>
        /\ firing' = firing \ {q} /\ cbPin = NoPin
    BY <1>4 DEF CheckPeers, wsVars, InSim, BoardInv, SimInv
  <2>2. CASE connections = {}
    BY <1>t, <2>1, <2>2 DEF Open, StaleIsAnnounced, TextInv
  <2>3. CASE connections # {}
    <3>1. cbPin' = q
      BY <1>4, <2>3 DEF CheckPeers
    <3>2. \A p \in Pin : Waiting(p) => Waiting(p)'
      BY <2>1, <3>1, NoPinFacts DEF Waiting
    <3>3. \A p \in Pin : Value(p)' = Value(p)
      BY <2>1, SameValues
    <3> QED
      BY <1>t, <1>i, <2>1, <3>2, <3>3 DEF Open, StaleIsAnnounced, TextInv
  <2> QED  BY <2>2, <2>3
<1>5. CASE PostAnnouncement
  <2>1. UNCHANGED <<registered, job, text, conn, seen, connections, nets>>
    BY <1>5 DEF PostAnnouncement, Execute
  <2>2. \A p \in Pin : Waiting(p) => Waiting(p)'
    BY <1>5, WaitingPost
  <2>3. \A p \in Pin : Value(p)' = Value(p)
    BY <2>1, SameValues
  <2> QED
    BY <1>t, <1>i, <2>1, <2>2, <2>3 DEF Open, StaleIsAnnounced, TextInv
<1>6. CASE ServerOnly /\ RunExecutables
  <2>1. UNCHANGED <<registered, job, text, conn, seen, connections, nets>>
    BY <1>6 DEF ServerOnly, RunExecutables, boardVars
  <2>2. \A p \in Pin : Waiting(p) => Waiting(p)'
    BY <1>6, WaitingRun
  <2>3. \A p \in Pin : Value(p)' = Value(p)
    BY <2>1, SameValues
  <2> QED
    BY <1>t, <1>i, <2>1, <2>2, <2>3 DEF Open, StaleIsAnnounced, TextInv
<1>7. CASE ReadPin
  <2>1. UNCHANGED <<registered, conn, seen, connections, nets>>
        /\ job = NoPin /\ job' \in Pin /\ text' = Value(job')
    <3>1. batch \in Seq(Pin) /\ batch # <<>> /\ job' = Head(batch)
      BY <1>7 DEF ReadPin, StartJob, BoardInv, TypeOK, ServerTypeOK
    <3> QED  BY <1>7, <3>1, HeadTailProperties DEF ReadPin, StartJob
  <2>2. \A p \in Pin : Waiting(p) /\ p # job' => Waiting(p)'
    BY <1>7, WaitingRead
  <2>3. \A p \in Pin : Value(p)' = Value(p)
    BY <2>1, SameValues
  <2>4. (Value(job))' = Value(job')
    BY <2>1 DEF Value
  <2>5. TextInv'
    BY <2>1, <2>4 DEF TextInv
  <2>6. ASSUME NEW c \in Open, NEW p \in registered, seen[c][p] # Value(p)
        PROVE  Waiting(p)' \/ (job' = p /\ text' = Value(p))
    BY <1>t, <1>i, <2>1, <2>2, <2>6, NoPinFacts DEF StaleIsAnnounced
  <2>7. StaleIsAnnounced'
    BY <1>t, <2>1, <2>3, <2>6 DEF Open, StaleIsAnnounced
  <2> QED  BY <2>5, <2>7
<1>8. CASE SendAll
  <2> DEFINE known == [c \in Conn |-> IF c \in connections
                         THEN [seen[c] EXCEPT ![job] = text] ELSE seen[c]]
  <2>1. /\ UNCHANGED <<registered, nets, pending, batch, firing, cbPin>>
        /\ job # NoPin /\ job' = NoPin /\ Remember(known)
        /\ Open' \subseteq Open
    BY <1>8 DEF SendAll, EndJob, Become, Open, ConnState, BoardInv, TypeOK, ServerTypeOK
  <2>2. \A p \in Pin : Value(p)' = Value(p) /\ (Waiting(p) <=> Waiting(p)')
    BY <2>1, SameValues DEF Waiting
  <2>3. ASSUME NEW c \in Open', NEW p \in registered, seen'[c][p] # Value(p)
        PROVE  Waiting(p)
    <3>1. seen'[c] = [seen[c] EXCEPT ![job] = text]
      BY <1>t, <2>1 DEF Remember, Open
    <3>2. CASE p = job
      BY <1>t, <1>i, <2>1, <2>3, <3>1, <3>2 DEF TextInv
    <3>3. CASE p # job
      BY <1>t, <1>i, <2>1, <2>3, <3>1, <3>3 DEF StaleIsAnnounced
    <3> QED  BY <3>2, <3>3
  <2> HIDE DEF known
  <2> QED  BY <1>t, <2>1, <2>2, <2>3 DEF StaleIsAnnounced, TextInv
<1>9. ASSUME NEW d \in Conn, OnConnect(d) PROVE StaleIsAnnounced' /\ TextInv'
  <2> DEFINE known == [seen EXCEPT ![d] = [p \in Pin |-> Value(p)]]
  <2>1. /\ UNCHANGED <<registered, nets, pending, batch, firing, cbPin, job, text>>
        /\ Remember(known) /\ Open' \subseteq Open \cup {d}
        /\ loop = "dispatch"
    BY <1>9 DEF OnConnect, Upgrade, Handle, Become, Open, BoardInv, TypeOK, ServerTypeOK
  <2>2. \A p \in Pin : Value(p)' = Value(p) /\ (Waiting(p) <=> Waiting(p)')
    BY <2>1, SameValues DEF Waiting
  <2>3. job = NoPin
    BY <2>1 DEF BoardInv, Server!ServerInv, Server!RoundInv
  <2>4. ASSUME NEW c \in Open', NEW p \in registered, seen'[c][p] # Value(p)
        PROVE  Waiting(p)
    <3>1. seen'[c] = known[c] /\ c \in Conn
      BY <2>1 DEF Remember, Open
    <3>2. c # d
      BY <1>t, <2>4, <3>1
    <3> QED  BY <1>t, <1>i, <2>1, <2>3, <2>4, <3>1, <3>2, NoPinFacts DEF StaleIsAnnounced
  <2> HIDE DEF known
  <2> QED  BY <1>t, <2>1, <2>2, <2>3, <2>4 DEF StaleIsAnnounced, TextInv
<1> QED
  BY <1>1, <1>2, <1>3, <1>4, <1>5, <1>6, <1>7, <1>8, <1>9
     DEF Next, SimProgress, WsProgress, QuietAction

LEMMA SimStep == BoardInv /\ [Next]_vars => SimInv'
<1> SUFFICES ASSUME BoardInv, [Next]_vars PROVE SimInv'
  OBVIOUS
<1>i. SimInv /\ registered \subseteq Pin
  BY DEF BoardInv, TypeOK
<1> DEFINE Early == sim \in {"start", "register"}
<1>1. CASE OpenWsServer
  BY <1>1, <1>i, SameValues DEF OpenWsServer, InSim, SimInv, Open, wsVars
<1>2. CASE RegisterPins \/ MainCallback
  BY <1>2, <1>i DEF RegisterPins, MainCallback, InSim, SimInv
<1>3. CASE Cycle
  BY <1>3, <1>i DEF Cycle, InSim, SimInv, NextCallback
<1>4. ASSUME NEW p \in Pin, CheckPeers(p) PROVE SimInv'
  BY <1>4, <1>i, NoPinFacts DEF CheckPeers, InSim, SimInv, NextCallback
<1>5. CASE PostAnnouncement
  BY <1>5, <1>i DEF PostAnnouncement, InSim, SimInv, NextCallback
<1>6. CASE SendAll
  <2>1. job \in registered
    BY <1>6 DEF SendAll, EndJob, BoardInv, RegisteredInv
  <2> QED  BY <1>6, <1>i, <2>1 DEF SendAll, SimInv
<1>7. ASSUME NEW d \in Conn, OnConnect(d) PROVE SimInv'
  <2>1. UNCHANGED <<sim, registered, nets, firing, cbPin>>
    BY <1>7 DEF OnConnect
  <2>2. ASSUME Early, NEW c \in Open', NEW p \in Pin PROVE seen'[c][p] = Value(p)
    <3>1. /\ c \in Conn /\ (c = d \/ c \in Open)
          /\ seen \in [Conn -> [Pin -> Bit]]
      BY <1>7 DEF OnConnect, Upgrade, Become, Open, BoardInv, TypeOK, ServerTypeOK
    <3>2. seen'[c] = [seen EXCEPT ![d] = [q \in Pin |-> Value(q)]][c]
      BY <1>7 DEF OnConnect, Remember, Open
    <3> QED  BY <1>i, <2>2, <3>1, <3>2 DEF SimInv
  <2>3. \A p \in Pin : Value(p)' = Value(p)
    BY <2>1, SameValues
  <2> QED  BY <1>i, <2>1, <2>2, <2>3 DEF SimInv
<1>8. CASE (QuietAction /\ ~ OpenWsServer /\ ~ MainCallback) \/ ServerOnly \/ ReadPin
  <2>1. UNCHANGED <<sim, registered, nets, firing, cbPin>>
    BY <1>8 DEF QuietAction, WakeServer, ServerOnly, Blocked, Fatal, OnDisconnect,
                PeerLeaves, OnBadData, OnChange, ReadPin, vars, boardVars
  <2>2. Open' \subseteq Open /\ \A c \in Open' : seen'[c] = seen[c]
    <3>1. CASE QuietAction
      BY <3>1, QuietActionIsQuiet DEF Quiet
    <3>2. CASE ServerOnly /\ RunExecutables
      BY <3>2 DEF ServerOnly, RunExecutables, boardVars, Open
    <3>3. CASE ReadPin
      BY <3>3 DEF ReadPin, StartJob, Open
    <3> QED  BY <1>8, <3>1, <3>2, <3>3 DEF QuietAction
  <2>3. \A p \in Pin : Value(p)' = Value(p)
    BY <2>1, SameValues
  <2> QED  BY <1>i, <2>1, <2>2, <2>3 DEF SimInv
<1> QED
  BY <1>1, <1>2, <1>3, <1>4, <1>5, <1>6, <1>7, <1>8
     DEF Next, SimProgress, WsProgress, QuietAction

\* The invariant the other theorems follow from: it relates callbacks, queue,
\* batch and the message being sent to what each viewer knows.
THEOREM BoardInvariant == Spec => []BoardInv
<1>1. BoardInv /\ [Next]_vars => BoardInv'
  BY TypeStep, ServerStep, RegisteredStep, SimStep, TrackStep, AnnounceStep DEF BoardInv
<1> QED  BY InitInv, <1>1, PTL DEF Spec

\* Every reachable state of the board is well typed.
THEOREM TypeCorrect == Spec => []TypeOK
<1>1. BoardInv => TypeOK
  BY DEF BoardInv
<1> QED  BY BoardInvariant, <1>1, PTL

\* A viewer that knows an old value of a pin is always about to be told, for
\* any number of viewers, pins and nets.
THEOREM StaleIsAlwaysAnnounced == Spec => []StaleIsAnnounced
<1>1. BoardInv => StaleIsAnnounced
  BY DEF BoardInv
<1> QED  BY BoardInvariant, <1>1, PTL

\* The handler sends to every open web socket and to no freed connection.
THEOREM HandlerTracks == Spec => []HandlerTracksConnections
<1>1. BoardInv => HandlerTracksConnections
  BY DEF BoardInv
<1> QED  BY BoardInvariant, <1>1, PTL
-----------------------------------------------------------------------------
(* The server inside the board                                              *)

\* The two threads use the server only as it may be used: whatever the
\* simulation, the handler and the peers do, it is a behaviour of the server.
THEOREM BoardRunsServer == Spec => ServerSpec
<1>1. Init => ServerInit
  BY DEF Init
<1> QED  BY <1>1, StepOfServer, BoardInvariant, PTL DEF Spec, ServerSpec

\* An announcement never waits for a web socket thread that nobody will wake.
THEOREM AnnouncementsWake == Spec => []NoLostWakeup
<1>1. BoardInv => NoLostWakeup
  BY DEF BoardInv, Server!ServerInv, Server!RoundInv, NoLostWakeup, Ready
<1> QED  BY <1>1, BoardInvariant, PTL

\* No event and no deletion of the board's server names a freed connection.
THEOREM ViewersExist == Spec => []NoStaleConnection
<1>1. BoardInv => NoStaleConnection
  BY DEF BoardInv, Server!ServerInv, Server!SlotInv, NoStaleConnection, Live, Server!Live
<1> QED  BY <1>1, BoardInvariant, PTL

\* Announcements run one at a time, once each, in the order of the callbacks.
THEOREM AnnouncementsRunInOrder == Spec => JobsRunInOrder
<1>1. Server!ServerSpec => Server!JobsRunInOrder
  BY ServerAssumptions, Server!JobsRunInOrderTheorem
<1>2. ServerSpec <=> Server!ServerSpec
  BY SameServer, PTL DEF ServerSpec, Server!ServerSpec
<1>3. Server!JobsRunInOrder => JobsRunInOrder
  BY DEF JobsRunInOrder, Server!JobsRunInOrder, Jobs!QueueSpec, Server!Jobs!QueueSpec,
     Jobs!QueueInit, Server!Jobs!QueueInit, Jobs!QueueNext, Server!Jobs!QueueNext,
     Jobs!Post, Server!Jobs!Post, Jobs!Start, Server!Jobs!Start, Jobs!Finish,
     Server!Jobs!Finish
<1> QED  BY <1>1, <1>2, <1>3, BoardRunsServer, PTL
=============================================================================
