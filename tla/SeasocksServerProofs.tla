------------------------ MODULE SeasocksServerProofs ------------------------
(* Safety of the seasocks server, for any number of connections, callers    *)
(* and jobs.                                                                *)
EXTENDS SeasocksServer, SequenceTheorems, TLAPS

-----------------------------------------------------------------------------
(* Typing                                                                   *)

LEMMA TypeInit == ServerInit => ServerTypeOK
BY EmptySeq DEF ServerInit, ServerTypeOK, ConnState, LoopState

\* Changing the state of some slots keeps conn well typed.
LEMMA BecomeType ==
  ASSUME conn \in [Conn -> ConnState], NEW S, NEW s \in ConnState
  PROVE  Become(S, s) \in [Conn -> ConnState]
BY DEF Become

LEMMA TypeStep == ServerTypeOK /\ [ServerNext]_serverVars => ServerTypeOK'
<1> SUFFICES ASSUME ServerTypeOK, [ServerNext]_serverVars
             PROVE  ServerTypeOK'
  OBVIOUS
<1> USE DEF ServerTypeOK
<1>1. ASSUME NEW t \in Caller, Post(t) PROVE ServerTypeOK'
  <2>1. PICK j \in Job : Execute(t, j)
    BY <1>1 DEF Post
  <2>2. Append(pending, j) \in Seq(Job)
    BY AppendProperties
  <2> QED  BY <2>1, <2>2 DEF Execute
<1>2. ASSUME NEW t \in Caller, Terminate(t) \/ WriteWake(t) PROVE ServerTypeOK'
  BY <1>2 DEF Terminate, WriteWake
<1>3. CASE Serve
  BY <1>3 DEF Serve, NextRound, LoopState
<1>4. CASE RunExecutables
  BY <1>4, EmptySeq DEF RunExecutables, LoopState
<1>5. CASE StartJob
  BY <1>5, HeadTailProperties DEF StartJob
<1>6. ASSUME NEW failed, EndJob(failed) PROVE ServerTypeOK'
  BY <1>6, BecomeType DEF EndJob, ConnState
<1>7. CASE ReapLame
  BY <1>7, BecomeType DEF ReapLame, ConnState, LoopState
<1>8. CASE EpollWait
  BY <1>8 DEF EpollWait, Ready, Live, Shut, LoopState
<1>9. CASE EpollTimeout
  BY <1>9 DEF EpollTimeout, NextRound, LoopState
<1>10. CASE HandlePipe
  BY <1>10 DEF HandlePipe, Handle
<1>11. CASE HandleAccept
  <2>1. conn' \in [Conn -> ConnState]
    <3>1. "silent" \in ConnState /\ Become({}, "silent") = conn
      BY DEF ConnState, Become
    <3>2. \E S : conn' = Become(S, "silent")
      BY <1>11, <3>1 DEF HandleAccept
    <3> QED  BY <3>1, <3>2, BecomeType
  <2> QED  BY <1>11, <2>1 DEF HandleAccept, Handle
<1>12. CASE FatalEvent
  BY <1>12 DEF FatalEvent
<1>13. ASSUME NEW c \in Conn, ReadRequest(c) \/ Upgrade(c) PROVE ServerTypeOK'
  BY <1>13, BecomeType DEF ReadRequest, Upgrade, Handle, ConnState
<1>14. ASSUME NEW c \in Conn, NEW after \in {"open", "shut"}, ReadMessage(c, after)
       PROVE  ServerTypeOK'
  BY <1>14, BecomeType DEF ReadMessage, ConnState
<1>15. ASSUME NEW c \in Conn, EventDone(c) \/ ReadEnd(c) PROVE ServerTypeOK'
  BY <1>15, BecomeType DEF EventDone, ReadEnd, Handle, ConnState
<1>16. CASE DispatchEnd
  BY <1>16, BecomeType DEF DispatchEnd, NextRound, ConnState, LoopState
<1>17. CASE Shutdown
  BY <1>17, BecomeType DEF Shutdown, ConnState, LoopState
<1>18. CASE UNCHANGED serverVars
  BY <1>18 DEF serverVars
<1> QED
  BY <1>1, <1>2, <1>3, <1>4, <1>5, <1>6, <1>7, <1>8, <1>9, <1>10, <1>11, <1>12,
     <1>13, <1>14, <1>15, <1>16, <1>17, <1>18 DEF ServerNext, ServerOther, ServerProgress

\* Every reachable state of the server is well typed.
THEOREM ServerTypeCorrect == ServerSpec => []ServerTypeOK
BY TypeInit, TypeStep, PTL DEF ServerSpec
-----------------------------------------------------------------------------
(* Safety                                                                   *)

\* Between two rounds nothing of the round before is left over; a posted job
\* that the current round will not see has woken the next one.
RoundInv ==
  /\ loop \notin {"jobs", "lastjobs"} => batch = <<>> /\ job = NoJob
  /\ loop # "dispatch" => events = {} /\ doomed = {}
  /\ pending # <<>> /\ loop \in {"jobs", "wait"} =>
       wake \/ \E t \in Caller : calling[t] = "waking"

\* Every connection the loop still has to do with exists; there is none
\* before and after the loop.
SlotInv ==
  /\ (events \cap Conn) \cup doomed \subseteq Live
  /\ loop \in {"off", "down"} => Live = {}

ServerInv == ServerTypeOK /\ RoundInv /\ SlotInv

LEMMA InvInit == ServerInit => ServerInv
BY TypeInit DEF ServerInit, ServerInv, RoundInv, SlotInv, Live

LEMMA RoundStep == ServerInv /\ [ServerNext]_serverVars => RoundInv'
<1> SUFFICES ASSUME ServerInv, [ServerNext]_serverVars
             PROVE  RoundInv'
  OBVIOUS
<1> USE DEF ServerInv, ServerTypeOK, RoundInv
<1>1. ASSUME NEW t \in Caller, Post(t) \/ Terminate(t) \/ WriteWake(t)
      PROVE  RoundInv'
  <2>1. CASE Post(t)
    <3>1. calling'[t] = "waking"
      BY <2>1 DEF Post, Execute
    <3> QED  BY <2>1, <3>1 DEF Post, Execute
  <2>2. CASE Terminate(t)
    <3>1. calling'[t] = "waking"
      BY <2>2 DEF Terminate
    <3> QED  BY <2>2, <3>1 DEF Terminate
  <2>3. CASE WriteWake(t)
    BY <2>3 DEF WriteWake
  <2> QED  BY <1>1, <2>1, <2>2, <2>3
<1>2. CASE Serve \/ EpollTimeout
  BY <1>2 DEF Serve, EpollTimeout, NextRound
<1>3. CASE RunExecutables \/ StartJob \/ \E failed \in SUBSET Open : EndJob(failed)
  BY <1>3 DEF RunExecutables, StartJob, EndJob
<1>4. CASE ReapLame \/ EpollWait \/ Shutdown
  BY <1>4 DEF ReapLame, EpollWait, Shutdown
<1>5. CASE HandlePipe \/ HandleAccept \/ FatalEvent
  BY <1>5 DEF HandlePipe, HandleAccept, FatalEvent, Handle
<1>6. CASE \E c \in Conn : ReadRequest(c) \/ Upgrade(c) \/ EventDone(c) \/ ReadEnd(c)
  BY <1>6 DEF ReadRequest, Upgrade, EventDone, ReadEnd, Handle
<1>7. CASE \E c \in Conn, after \in {"open", "shut"} : ReadMessage(c, after)
  BY <1>7 DEF ReadMessage
<1>8. CASE DispatchEnd
  BY <1>8 DEF DispatchEnd, NextRound
<1>9. CASE UNCHANGED serverVars
  BY <1>9 DEF serverVars
<1> QED
  BY <1>1, <1>2, <1>3, <1>4, <1>5, <1>6, <1>7, <1>8, <1>9
     DEF ServerNext, ServerOther, ServerProgress

\* A slot leaves the set of live connections only if it becomes "none".
LEMMA BecomeLive ==
  ASSUME ServerTypeOK, NEW S, NEW s \in ConnState \ {"none"}, conn' = Become(S, s)
  PROVE  Live \subseteq Live'
BY DEF ServerTypeOK, Become, Live, ConnState

LEMMA SlotStep == ServerInv /\ [ServerNext]_serverVars => SlotInv'
<1> SUFFICES ASSUME ServerInv, [ServerNext]_serverVars
             PROVE  SlotInv'
  OBVIOUS
<1> USE DEF ServerInv, SlotInv
<1>1. CASE \E t \in Caller : Post(t) \/ Terminate(t) \/ WriteWake(t)
  BY <1>1 DEF Post, Execute, Terminate, WriteWake, Live
<1>2. CASE Serve \/ EpollTimeout \/ RunExecutables \/ StartJob
  BY <1>2 DEF Serve, EpollTimeout, RunExecutables, StartJob, NextRound, Live
<1>3. CASE \E failed \in SUBSET Open : EndJob(failed)
  <2>1. PICK failed \in SUBSET Open : EndJob(failed)
    BY <1>3
  <2>2. Live \subseteq Live'
    BY <2>1, BecomeLive DEF EndJob, ConnState
  <2>3. loop \in {"jobs", "lastjobs"}
    BY <2>1 DEF EndJob, RoundInv
  <2> QED  BY <2>1, <2>2, <2>3 DEF EndJob
<1>4. CASE ReapLame
  BY <1>4 DEF ReapLame, RoundInv
<1>5. CASE EpollWait
  <2>1. (Ready \ Shut) \cap Conn = {}
    BY SourceAssumption DEF Ready
  <2>2. Live' = Live /\ loop' = "dispatch"
    BY <1>5 DEF EpollWait, Live
  <2>3. doomed' \subseteq Live /\ events' \cap Conn \subseteq Live
    BY <1>5, <2>1, SourceAssumption DEF EpollWait
  <2> QED  BY <2>2, <2>3
<1>6. CASE HandlePipe \/ FatalEvent
  BY <1>6 DEF HandlePipe, FatalEvent, Handle, Live
<1>7. CASE HandleAccept
  <2>1. Live \subseteq Live'
    BY <1>7, BecomeLive DEF HandleAccept, ConnState, Live
  <2> QED  BY <1>7, <2>1 DEF HandleAccept, Handle
<1>8. ASSUME NEW c \in Conn, ReadRequest(c) \/ Upgrade(c) \/ ReadEnd(c)
      PROVE  SlotInv'
  <2>1. Live \subseteq Live'
    BY <1>8, BecomeLive DEF ReadRequest, Upgrade, ReadEnd, ConnState
  <2> QED  BY <1>8, <2>1 DEF ReadRequest, Upgrade, ReadEnd, Handle
<1>9. ASSUME NEW c \in Conn, EventDone(c) PROVE SlotInv'
  BY <1>9 DEF EventDone, Handle, Live
<1>10. ASSUME NEW c \in Conn, NEW after \in {"open", "shut"}, ReadMessage(c, after)
       PROVE  SlotInv'
  <2>1. Live \subseteq Live'
    BY <1>10, BecomeLive DEF ReadMessage, ConnState
  <2> QED  BY <1>10, <2>1 DEF ReadMessage
<1>11. CASE DispatchEnd
  BY <1>11 DEF DispatchEnd, NextRound
<1>12. CASE Shutdown
  <2>1. Live' = {}
    BY <1>12 DEF Shutdown, Become, Live
  <2> QED  BY <1>12, <2>1 DEF Shutdown, RoundInv
<1>13. CASE UNCHANGED serverVars
  BY <1>13 DEF serverVars, Live
<1> QED
  BY <1>1, <1>2, <1>3, <1>4, <1>5, <1>6, <1>7, <1>8, <1>9, <1>10, <1>11, <1>12,
     <1>13 DEF ServerNext, ServerOther, ServerProgress

\* The invariant the other theorems follow from: in every round of the loop,
\* events, deletions and batch are where they may be, and wake-ups are on their way.
THEOREM ServerInvariant == ServerSpec => []ServerInv
<1>1. ServerInv /\ [ServerNext]_serverVars => ServerInv'
  BY TypeStep, RoundStep, SlotStep DEF ServerInv
<1> QED  BY InvInit, <1>1, PTL DEF ServerSpec

\* The server thread never blocks in epoll_wait() on jobs nobody signals.
THEOREM WakeupsAreKept == ServerSpec => []NoLostWakeup
<1>1. ServerInv => NoLostWakeup
  BY DEF ServerInv, RoundInv, NoLostWakeup, Ready
<1> QED  BY ServerInvariant, <1>1, PTL

\* No event and no deletion names a connection that was freed.
THEOREM ConnectionsExist == ServerSpec => []NoStaleConnection
<1>1. ServerInv => NoStaleConnection
  BY DEF ServerInv, SlotInv, NoStaleConnection
<1> QED  BY ServerInvariant, <1>1, PTL
-----------------------------------------------------------------------------
(* The server implements the queue of jobs                                  *)

LEMMA PostIsPost ==
  ASSUME ServerInv, NEW t \in Caller, NEW j \in Job, Execute(t, j)
  PROVE  Jobs!Post(j)
<1>1. /\ pending \in Seq(Job) /\ batch \in Seq(Job) /\ <<j>> \in Seq(Job)
      /\ batch \o pending \in Seq(Job)
  BY ConcatProperties DEF ServerInv, ServerTypeOK
<1>2. batch \o Append(pending, j) = Append(batch \o pending, j)
  BY <1>1, AppendIsConcat, ConcatAssociative
<1> QED  BY <1>2 DEF Execute, Jobs!Post

LEMMA StartIsStart == ServerInv /\ StartJob => Jobs!Start
<1> SUFFICES ASSUME ServerInv, StartJob PROVE Jobs!Start
  OBVIOUS
<1> DEFINE q == batch \o pending
<1>1. /\ pending \in Seq(Job) /\ batch \in Seq(Job) /\ batch # <<>>
      /\ job = NoJob /\ job' = Head(batch)
      /\ batch' = Tail(batch) /\ pending' = pending
  BY DEF ServerInv, ServerTypeOK, StartJob
<1>2. /\ q \in Seq(Job) /\ Len(q) = Len(batch) + Len(pending) /\ q # <<>>
      /\ \A i \in 1 .. Len(q) : q[i] = IF i <= Len(batch) THEN batch[i]
                                       ELSE pending[i - Len(batch)]
  BY <1>1, ConcatProperties, ConcatEqualIffEmpty
<1>3. /\ Len(batch) \in Nat \ {0} /\ Len(pending) \in Nat
      /\ Head(batch) = batch[1] /\ Head(q) = q[1]
  BY <1>1, <1>2, LenProperties, EmptySeq
<1>4. Head(q) = Head(batch)
  BY <1>2, <1>3
<1>5. Tail(q) = Tail(batch) \o pending
  <2> DEFINE s == Tail(batch) \o pending
  <2>1. /\ Tail(batch) \in Seq(Job) /\ Len(Tail(batch)) = Len(batch) - 1
        /\ \A i \in 1 .. Len(Tail(batch)) : Tail(batch)[i] = batch[i + 1]
    BY <1>1, HeadTailProperties
  <2>2. /\ Tail(q) \in Seq(Job) /\ Len(Tail(q)) = Len(q) - 1
        /\ \A i \in 1 .. Len(Tail(q)) : Tail(q)[i] = q[i + 1]
    BY <1>2, HeadTailProperties
  <2>3. /\ s \in Seq(Job) /\ Len(s) = Len(Tail(batch)) + Len(pending)
        /\ \A i \in 1 .. Len(s) : s[i] = IF i <= Len(Tail(batch)) THEN Tail(batch)[i]
                                         ELSE pending[i - Len(Tail(batch))]
    BY <1>1, <2>1, ConcatProperties
  <2>4. Len(s) = Len(Tail(q))
    BY <1>2, <1>3, <2>1, <2>2, <2>3
  <2>5. ASSUME NEW i \in 1 .. Len(s) PROVE s[i] = Tail(q)[i]
    <3> HIDE DEF q, s
    <3> QED  BY <1>2, <1>3, <2>1, <2>2, <2>3, <2>4
  <2> HIDE DEF q, s
  <2>6. s = Tail(q)
    BY <2>2, <2>3, <2>4, <2>5, SeqEqual
  <2> QED  BY <2>6 DEF s
<1> QED  BY <1>1, <1>2, <1>4, <1>5 DEF Jobs!Start

\* Whatever the callers do, the jobs run one at a time, once each, in the
\* order in which they were posted.
THEOREM JobsRunInOrderTheorem == ServerSpec => JobsRunInOrder
<1>1. ServerInit => Jobs!QueueInit
  <2> <<>> \o <<>> = <<>>
    BY ConcatEmptySeq, EmptySeq
  <2> QED  BY DEF ServerInit, Jobs!QueueInit
<1>2. ServerInv /\ [ServerNext]_serverVars
        => [Jobs!QueueNext]_<<batch \o pending, job>>
  <2> SUFFICES ASSUME ServerInv, [ServerNext]_serverVars
               PROVE  Jobs!QueueNext \/ UNCHANGED <<batch, pending, job>>
                      \/ (batch' \o pending' = batch \o pending /\ job' = job)
    OBVIOUS
  <2>1. ASSUME NEW t \in Caller, Post(t) PROVE Jobs!QueueNext
    BY <2>1, PostIsPost DEF Post, Jobs!QueueNext
  <2>2. CASE StartJob
    BY <2>2, StartIsStart DEF Jobs!QueueNext
  <2>3. CASE \E failed \in SUBSET Open : EndJob(failed)
    BY <2>3 DEF EndJob, Jobs!QueueNext, Jobs!Finish
  <2>4. CASE RunExecutables
    <3>1. batch = <<>> /\ pending \in Seq(Job) /\ batch' = pending /\ pending' = <<>>
          /\ job' = job
      BY <2>4 DEF RunExecutables, ServerInv, RoundInv, ServerTypeOK
    <3> QED  BY <3>1, ConcatEmptySeq
  <2>5. CASE \/ \E t \in Caller : Terminate(t) \/ WriteWake(t)
             \/ Serve \/ ReapLame \/ EpollWait \/ EpollTimeout \/ FatalEvent
    BY <2>5 DEF Terminate, WriteWake, Serve, ReapLame, EpollWait, EpollTimeout,
                FatalEvent
  <2>6. CASE \/ HandlePipe \/ HandleAccept \/ DispatchEnd \/ Shutdown
             \/ \E c \in Conn : ReadRequest(c) \/ Upgrade(c) \/ EventDone(c) \/ ReadEnd(c)
             \/ \E c \in Conn, after \in {"open", "shut"} : ReadMessage(c, after)
    BY <2>6 DEF HandlePipe, HandleAccept, DispatchEnd, Shutdown, ReadRequest,
                Upgrade, EventDone, ReadEnd, ReadMessage
  <2>7. CASE UNCHANGED serverVars
    BY <2>7 DEF serverVars
  <2> QED
    BY <2>1, <2>2, <2>3, <2>4, <2>5, <2>6, <2>7 DEF ServerNext, ServerOther, ServerProgress
<1> QED
  BY <1>1, <1>2, ServerInvariant, PTL
     DEF ServerSpec, JobsRunInOrder, Jobs!QueueSpec
=============================================================================
