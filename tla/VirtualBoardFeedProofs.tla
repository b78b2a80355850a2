----------------------- MODULE VirtualBoardFeedProofs -----------------------
(* The board implements the feed of pins that the viewers rely on, for any  *)
(* pins, nets and number of viewers: every step of the two threads is a     *)
(* step of PinFeed or none at all.                                          *)
EXTENDS VirtualBoardProofs

-----------------------------------------------------------------------------
(* What is kept of a connection that is not open                            *)

ForgottenInv == \A c \in Conn \ Open : seen[c] = AllZero

LEMMA RememberForgets == ASSUME NEW known, Remember(known) PROVE ForgottenInv'
BY DEF Remember, ForgottenInv, Open

LEMMA ForgottenStep == BoardInv /\ ForgottenInv /\ [Next]_vars => ForgottenInv'
<1> SUFFICES ASSUME BoardInv, ForgottenInv, [Next]_vars PROVE ForgottenInv'
  OBVIOUS
<1>1. CASE UNCHANGED <<conn, seen>>
  BY <1>1 DEF ForgottenInv, Open
<1>2. CASE SimProgress \/ MainCallback \/ Cycle \/ UNCHANGED vars
  BY <1>1, <1>2 DEF SimProgress, OpenWsServer, RegisterPins, CheckPeers, PostAnnouncement,
     Execute, WakeServer, WriteWake, MainCallback, Cycle, vars, wsVars, boardVars
<1>3. CASE Blocked \/ Fatal \/ ReadPin
  BY <1>1, <1>3 DEF Blocked, EpollWait, EpollTimeout, Fatal, FatalEvent, ReadPin,
     StartJob, boardVars
<1>4. CASE ServerOnly
  BY <1>4 DEF ServerOnly, Serve, RunExecutables, HandlePipe, HandleAccept, ReadRequest,
     EventDone, Become, ForgottenInv, Open, Live, boardVars
<1>5. CASE SendAll \/ OnDisconnect
  BY <1>5, RememberForgets DEF SendAll, OnDisconnect
<1>6. CASE \E c \in Conn : OnConnect(c) \/ PeerLeaves(c) \/ OnBadData(c)
  BY <1>6, RememberForgets DEF OnConnect, PeerLeaves, OnBadData
<1>7. CASE \E c \in Conn, p \in Pin, v \in Bit : OnChange(c, p, v)
  BY <1>7 DEF OnChange, ReadMessage, Become, ForgottenInv, Open
<1> QED
  BY <1>2, <1>3, <1>4, <1>5, <1>6, <1>7 DEF Next, WsProgress

FeedInv == BoardInv /\ ForgottenInv

LEMMA FeedInvariant == Spec => []FeedInv
<1>1. Init => FeedInv
  BY InitInv DEF FeedInv, ForgottenInv, Init
<1>2. FeedInv /\ [Next]_vars => FeedInv'
  BY TypeStep, ServerStep, RegisteredStep, SimStep, TrackStep, AnnounceStep, ForgottenStep
     DEF FeedInv, BoardInv
<1> QED  BY <1>1, <1>2, PTL DEF Spec
-----------------------------------------------------------------------------
(* Announcements that wait                                                  *)

Due == {p \in Pin : Waiting(p)}
Watched == IF sim \in {"start", "register"} THEN {NoPin} ELSE registered

LEMMA DueIsRegistered == ASSUME BoardInv PROVE Due \subseteq registered
<1>1. \A i \in DOMAIN pending : pending[i] \in registered
  BY LenProperties, ElementOfSeq DEF BoardInv, RegisteredInv
<1>2. \A i \in DOMAIN batch : batch[i] \in registered
  BY LenProperties, ElementOfSeq DEF BoardInv, RegisteredInv
<1> QED  BY <1>1, <1>2, NoPinFacts DEF Due, Waiting, BoardInv, RegisteredInv

LEMMA DuePost == ASSUME BoardInv, PostAnnouncement PROVE Due' = Due
<1>1. \A p \in Pin : Waiting(p) => Waiting(p)'
  BY WaitingPost
<1>2. /\ cbPin \in Pin /\ pending \in Seq(Pin)
      /\ pending' = Append(pending, cbPin)
      /\ batch' = batch /\ firing' = firing /\ cbPin' = NoPin
  BY NoPinFacts DEF BoardInv, TypeOK, ServerTypeOK, SimInv, PostAnnouncement, InSim,
     Execute
<1>3. ASSUME NEW i \in DOMAIN pending'
      PROVE  pending'[i] = cbPin \/ (i \in DOMAIN pending /\ pending'[i] = pending[i])
  <2>1. pending' \in Seq(Pin)
    BY <1>2, AppendProperties
  <2>2. /\ DOMAIN pending = 1 .. Len(pending) /\ Len(pending) \in Nat
        /\ i \in 1 .. Len(pending) + 1
    BY <1>2, <1>3, <2>1, LenProperties, AppendProperties
  <2> QED  BY <1>2, <2>2, AppendProperties
<1>4. \A p \in Pin : Waiting(p)' => Waiting(p)
  BY <1>2, <1>3, NoPinFacts DEF Waiting
<1> QED  BY <1>1, <1>4 DEF Due

LEMMA DueRun == ASSUME BoardInv, ServerOnly, RunExecutables PROVE Due' = Due
<1>1. batch = <<>> /\ batch' = pending /\ pending' = <<>>
  BY DEF BoardInv, Server!ServerInv, Server!RoundInv, RunExecutables
<1>2. \A p \in Pin : Waiting(p)' <=> Waiting(p)
  BY <1>1 DEF ServerOnly, boardVars, Waiting
<1> QED  BY <1>2 DEF Due

LEMMA DueRead ==
  ASSUME BoardInv, ReadPin PROVE job' \in Due /\ Due' \in {Due, Due \ {job'}}
<1>1. /\ batch \in Seq(Pin) /\ batch # <<>>
      /\ job' = Head(batch) /\ batch' = Tail(batch)
      /\ UNCHANGED <<pending, firing, cbPin>>
  BY DEF BoardInv, TypeOK, ServerTypeOK, ReadPin, StartJob
<1>2. /\ DOMAIN batch = 1 .. Len(batch) /\ Len(batch) \in Nat \ {0}
      /\ Head(batch) = batch[1]
      /\ DOMAIN batch' = 1 .. Len(batch) - 1
      /\ \A i \in 1 .. Len(batch) - 1 : batch'[i] = batch[i + 1]
  <2>1. batch' \in Seq(Pin)
    BY <1>1, HeadTailProperties
  <2> QED  BY <1>1, <2>1, LenProperties, HeadTailProperties, EmptySeq
<1>3. 1 \in DOMAIN batch /\ job' = batch[1] /\ job' \in Pin
  BY <1>1, <1>2, HeadTailProperties
<1>4. job' \in Due
  BY <1>3 DEF Due, Waiting
<1>5. \A i \in DOMAIN batch' : i + 1 \in DOMAIN batch /\ batch'[i] = batch[i + 1]
  BY <1>2
<1>6. \A p \in Pin : Waiting(p)' => Waiting(p)
  BY <1>1, <1>5 DEF Waiting
<1>7. \A p \in Pin : Waiting(p) /\ p # job' => Waiting(p)'
  BY WaitingRead
<1> QED  BY <1>4, <1>6, <1>7 DEF Due
-----------------------------------------------------------------------------
(* Steps                                                                    *)

Values == [p \in Pin |-> Value(p)]

LEMMA ValuesKept == nets' = nets => Values' = Values
BY SameValues DEF Values

LEMMA ValuesTypeNext == BoardInv' => Values' \in [Pin -> Bit]
<1>1. BoardInv => Values \in [Pin -> Bit]
  BY ValueType DEF BoardInv, Values
<1>2. (BoardInv => Values \in [Pin -> Bit])'
  BY <1>1, PTL
<1> QED  BY <1>2 DEF Bit

LEMMA DueNext == BoardInv' => Due' \subseteq registered'
<1>1. BoardInv => Due \subseteq registered
  BY DueIsRegistered
<1>2. (BoardInv => Due \subseteq registered)'
  BY <1>1, PTL
<1> QED  BY <1>2

\* A quiet step tells nobody anything; viewers may leave.
LEMMA QuietIsLeave ==
  ASSUME FeedInv, FeedInv', Quiet, Watched' = Watched
  PROVE  Feed!Leave
<1>1. Values' = Values
  BY ValuesKept DEF Quiet
<1>2. Due' = Due
  BY DEF Quiet, Due, Waiting
<1>3. seen' = [c \in Conn |-> IF c \in Open' THEN seen[c] ELSE AllZero]
  <2>1. seen' \in [Conn -> [Pin -> Bit]]
    BY DEF FeedInv, BoardInv, TypeOK
  <2>2. \A c \in Conn : seen'[c] = IF c \in Open' THEN seen[c] ELSE AllZero
    BY DEF FeedInv, ForgottenInv, Quiet
  <2> QED  BY <2>1, <2>2
<1> QED
  BY <1>1, <1>2, <1>3 DEF Quiet, Values, Due, Watched, AllZero,
     Feed!Leave, Feed!Keep, Feed!Unknown

LEMMA RegisterIsWatch == ASSUME RegisterPins PROVE Feed!Watch
<1>1. Values' = Values /\ Due' = Due
  BY ValuesKept DEF RegisterPins, wsVars, Due, Waiting
<1> QED
  BY <1>1 DEF RegisterPins, InSim, wsVars, Open, Values, Due, Feed!Watch

LEMMA CycleIsChange == ASSUME BoardInv, BoardInv', Cycle PROVE Feed!Change
<1>1. /\ UNCHANGED <<registered, pending, batch, cbPin, job, text, conn, seen>>
      /\ firing = {}
  BY DEF Cycle, wsVars, InSim, BoardInv, SimInv
<1>2. /\ sim \notin {"start", "register"} /\ sim' \notin {"start", "register"}
  BY DEF Cycle, InSim, NextCallback
<1>3. Values' \in [Pin -> Bit]
  BY ValuesTypeNext
<1>4. \A p \in registered : Values'[p] # Values[p] => p \in firing'
  <2> SUFFICES ASSUME NEW p \in registered, Values'[p] # Values[p]
               PROVE  p \in firing'
    OBVIOUS
  <2>1. p \in Pin
    BY DEF BoardInv, TypeOK
  <2>2. nets'[PinNet[p]] # nets[PinNet[p]] /\ PinNet[p] \in Net
    BY <2>1, PinAssumption DEF Values, Value
  <2> QED  BY <2>2 DEF Cycle
<1>5. Due \subseteq Due' /\ firing' \subseteq Due'
  BY <1>1 DEF Due, Waiting, BoardInv, TypeOK
<1>6. Due' \subseteq registered'
  BY DueNext
<1>7. /\ Due' \in SUBSET registered
      /\ Due \cup {p \in registered : Values'[p] # Values[p]} \subseteq Due'
  BY <1>1, <1>4, <1>5, <1>6
<1>8. registered # {NoPin}
  BY NoPinFacts DEF BoardInv, TypeOK
<1> QED
  BY <1>1, <1>2, <1>3, <1>7, <1>8 DEF Values, Due, Open, Bit, Feed!Change, Feed!Bit

\* A pin is no longer announced only when nobody is left; otherwise its
\* announcement goes from the callback to the queue.
LEMMA CheckIsDrop ==
  ASSUME BoardInv, NEW q \in Pin, CheckPeers(q)
  PROVE  Feed!Drop \/ UNCHANGED <<Values, Watched, Open, seen, Due, job, text>>
<1>1. /\ UNCHANGED <<registered, pending, batch, job, text, conn, seen, nets>>
      /\ firing' = firing \ {q} /\ q \in firing /\ cbPin = NoPin
  BY DEF CheckPeers, wsVars, InSim, BoardInv, SimInv
<1>2. Values' = Values /\ Watched' = Watched /\ Open' = Open
  BY <1>1, ValuesKept DEF CheckPeers, InSim, NextCallback, Watched, Open
<1>3. CASE connections = {}
  <2>1. Open = {}
    BY <1>3 DEF BoardInv, HandlerTracksConnections
  <2>2. cbPin' = cbPin
    BY <1>3 DEF CheckPeers
  <2>3. Due' \subseteq Due
    BY <1>1, <2>2 DEF Due, Waiting
  <2> QED  BY <1>1, <1>2, <2>1, <2>3 DEF Values, Due, Watched, Feed!Drop
<1>4. CASE connections # {}
  <2>1. cbPin' = q
    BY <1>4 DEF CheckPeers
  <2>2. Due' = Due
    BY <1>1, <2>1, NoPinFacts DEF Due, Waiting
  <2> QED  BY <1>1, <1>2, <2>2
<1> QED  BY <1>3, <1>4

LEMMA ReadIsRead ==
  ASSUME BoardInv, ReadPin PROVE \E p \in Pin : Feed!Read(p)
<1>1. /\ UNCHANGED <<sim, registered, nets, conn, seen>>
      /\ job = NoPin /\ text' = Value(job')
  BY DEF ReadPin, StartJob
<1>2. job' \in Due /\ Due' \in {Due, Due \ {job'}}
  BY DueRead
<1>3. job' \in Pin /\ Values' = Values /\ text' = Values[job']
  BY <1>1, <1>2, ValuesKept DEF Due, Values
<1>4. Feed!Read(job')
  BY <1>1, <1>2, <1>3 DEF Values, Due, Watched, Open, Feed!Read
<1> QED  BY <1>3, <1>4

LEMMA SendIsTell == ASSUME BoardInv, SendAll PROVE Feed!Tell
<1> DEFINE told == [c \in Conn |-> IF c \in connections
                      THEN [seen[c] EXCEPT ![job] = text] ELSE seen[c]]
<1>1. /\ UNCHANGED <<sim, registered, nets, pending, batch, firing, cbPin>>
      /\ job # NoPin /\ job' = NoPin /\ text' = 0
      /\ Open' \subseteq Open /\ Remember(told)
  BY DEF SendAll, EndJob, Become, Open, ConnState, BoardInv, TypeOK, ServerTypeOK
<1>2. Values' = Values /\ Due' = Due /\ Watched' = Watched
  BY <1>1, ValuesKept DEF Due, Waiting, Watched
<1>3. seen' = [c \in Conn |-> IF c \in Open'
                 THEN [d \in Conn |-> [seen[d] EXCEPT ![job] = text]][c] ELSE AllZero]
  <2>1. \A c \in Conn : conn'[c] = "open" => c \in connections
    BY <1>1 DEF Open, BoardInv, HandlerTracksConnections
  <2> QED  BY <1>1, <2>1 DEF Remember, Open
<1> QED
  BY <1>1, <1>2, <1>3 DEF Values, Due, Watched, AllZero, Feed!Tell, Feed!Keep,
     Feed!Unknown

\* The handshake makes a viewer, unless its answer could not be sent.
LEMMA ConnectIsJoin ==
  ASSUME BoardInv, NEW c \in Conn, OnConnect(c)
  PROVE  Feed!Join(c) \/ Feed!Leave
<1> DEFINE told == [seen EXCEPT ![c] = [p \in Pin |-> Value(p)]]
<1>1. /\ UNCHANGED <<sim, registered, nets, pending, batch, firing, cbPin, job, text>>
      /\ c \notin Open /\ Remember(told)
      /\ Open' = Open \cup {c} \/ Open' = Open
  BY DEF OnConnect, Upgrade, Handle, Become, Open, BoardInv, TypeOK, ServerTypeOK
<1>2. Values' = Values /\ Due' = Due /\ Watched' = Watched
  BY <1>1, ValuesKept DEF Due, Waiting, Watched
<1>3. seen' = [d \in Conn |-> IF d \in Open'
                 THEN [seen EXCEPT ![c] = Values][d] ELSE AllZero]
  BY <1>1 DEF Remember, Open, Values
<1>4. CASE Open' = Open \cup {c}
  BY <1>1, <1>2, <1>3, <1>4 DEF Values, Due, Watched, AllZero, Feed!Join, Feed!Keep,
     Feed!Unknown
<1>5. CASE Open' = Open
  <2>1. seen' = [d \in Conn |-> IF d \in Open' THEN seen[d] ELSE AllZero]
    BY <1>1, <1>3, <1>5 DEF BoardInv, TypeOK
  <2> QED
    BY <1>1, <1>2, <1>5, <2>1 DEF Values, Due, Watched, AllZero, Feed!Leave, Feed!Keep,
       Feed!Unknown
<1> QED  BY <1>1, <1>4, <1>5

LEMMA FeedStep ==
  FeedInv /\ FeedInv' /\ [Next]_vars =>
    Feed!FeedNext \/ UNCHANGED <<Values, Watched, Open, seen, Due, job, text>>
<1> SUFFICES ASSUME FeedInv, FeedInv', [Next]_vars
             PROVE  Feed!FeedNext
                      \/ UNCHANGED <<Values, Watched, Open, seen, Due, job, text>>
  OBVIOUS
<1> USE DEF FeedInv
<1>1. CASE QuietAction
  <2>1. Quiet
    BY <1>1, QuietActionIsQuiet
  <2>2. Watched' = Watched
    BY <1>1, <2>1 DEF Quiet, QuietAction, OpenWsServer, MainCallback, InSim, WakeServer,
       ServerOnly, Blocked, Fatal, OnDisconnect, PeerLeaves, OnBadData, OnChange,
       vars, boardVars, Watched
  <2> QED  BY <2>1, <2>2, QuietIsLeave DEF Feed!FeedNext
<1>2. CASE RegisterPins
  BY <1>2, RegisterIsWatch DEF Feed!FeedNext
<1>3. CASE Cycle
  BY <1>3, CycleIsChange DEF Feed!FeedNext
<1>4. ASSUME NEW p \in Pin, CheckPeers(p)
      PROVE  Feed!FeedNext \/ UNCHANGED <<Values, Watched, Open, seen, Due, job, text>>
  BY <1>4, CheckIsDrop DEF Feed!FeedNext
<1>5. CASE PostAnnouncement
  <2>1. UNCHANGED <<registered, nets, conn, seen, job, text>>
    BY <1>5 DEF PostAnnouncement, Execute
  <2>2. Watched' = Watched
    BY <1>5, <2>1 DEF PostAnnouncement, InSim, NextCallback, Watched
  <2> QED  BY <1>5, <2>1, <2>2, DuePost, ValuesKept DEF Open
<1>6. CASE ServerOnly /\ RunExecutables
  <2>1. UNCHANGED <<sim, registered, nets, conn, seen, job, text>>
    BY <1>6 DEF ServerOnly, RunExecutables, boardVars
  <2> QED  BY <1>6, <2>1, DueRun, ValuesKept DEF Open, Watched
<1>7. CASE ReadPin
  BY <1>7, ReadIsRead DEF Feed!FeedNext
<1>8. CASE SendAll
  BY <1>8, SendIsTell DEF Feed!FeedNext
<1>9. ASSUME NEW c \in Conn, OnConnect(c) PROVE Feed!FeedNext
  BY <1>9, ConnectIsJoin DEF Feed!FeedNext
<1> QED
  BY <1>1, <1>2, <1>3, <1>4, <1>5, <1>6, <1>7, <1>8, <1>9
     DEF Next, SimProgress, WsProgress, QuietAction

LEMMA FeedStart == Init => Feed!FeedInit
<1> SUFFICES ASSUME Init PROVE Feed!FeedInit
  OBVIOUS
<1>1. Values \in [Pin -> Bit]
  BY TypeInit, ValueType DEF Values
<1>2. Open = {} /\ Due = {} /\ Watched = {NoPin}
  BY NoPinFacts DEF Init, ServerInit, Open, Due, Waiting, Watched
<1> QED
  BY <1>1, <1>2 DEF Init, ServerInit, Values, Due, Watched, AllZero, Bit,
     Feed!FeedInit, Feed!Unknown, Feed!Bit

\* The plug-in implements the feed: a change of a watched pin is announced,
\* with a value read after it, to every viewer that stays until then.
THEOREM FeedIsImplemented == Spec => ImplementsFeed
<1>1. FeedInv /\ FeedInv' /\ [Next]_vars =>
        [Feed!FeedNext]_<<Values, Watched, Open, seen, Due, job, text>>
  BY FeedStep
<1>2. FeedInv /\ FeedInv' /\ [Next]_vars => [Feed!FeedNext]_(Feed!feedVars)
  BY <1>1 DEF Values, Watched, Due, Feed!feedVars
<1> QED
  BY FeedStart, FeedInvariant, <1>2, PTL DEF Spec, ImplementsFeed, Feed!FeedSpec
=============================================================================
