--------------------------- MODULE SeasocksServer ---------------------------
(***************************************************************************)
(* The embedded seasocks web socket server: one thread that alternates     *)
(* between the jobs other threads posted with execute() and the events     *)
(* epoll reports on its connections.                                       *)
(*                                                                         *)
(* A job is a member of Job; what it does is left to the module that       *)
(* instantiates this one, except that the job may write to connections and *)
(* the writes may fail.  A connection is a slot that a Connection object   *)
(* occupies from accept to delete.                                         *)
(***************************************************************************)
EXTENDS Naturals, Sequences

CONSTANTS Conn,     \* slots for Connection objects
          Caller,   \* the threads that call execute() or terminate()
          Job,      \* what can be posted
          NoJob     \* no job is running

ASSUME JobAssumption == NoJob \notin Job

Listen == "listen"      \* the listening socket, as an epoll source
Wake   == "wake"        \* the event descriptor _eventFd, as an epoll source

ASSUME SourceAssumption == {Listen, Wake} \cap Conn = {}

VARIABLES
  wakeable,  \* the constructor added _eventFd to the epoll set
  pending,   \* _pendingExecutables
  batch,     \* the copy that runExecutables swapped out and is running
  job,       \* the job being run
  wake,      \* _eventFd is readable
  calling,   \* callers between their update and their write to _eventFd
  terminate, \* _terminate
  loop,      \* where the server thread is
  events,    \* sources epoll_wait returned that are still to be handled
  doomed,    \* toBeDeleted: connections that hung up, deleted after the events
  conn       \* the state of each connection

serverVars ==
  <<wakeable, pending, batch, job, wake, calling, terminate, loop, events, doomed,
    conn>>

ConnState == {"none",      \* no object in this slot
              "silent",    \* accepted, no byte received
              "reading",   \* reading or answering HTTP requests
              "open",      \* upgraded to a web socket
              "shut",      \* closeInternal() ran; deleted at the next hang-up
             "unheard"}   \* the same, and no byte was ever received

LoopState == {"off", "queue", "jobs", "wait", "dispatch",
              "lastqueue", "lastjobs", "shutdown", "down"}

Live == {c \in Conn : conn[c] # "none"}
Open == {c \in Conn : conn[c] = "open"}
Shut == {c \in Conn : conn[c] \in {"shut", "unheard"}}
Unheard == {c \in Conn : conn[c] \in {"silent", "unheard"}}

\* Every slot of S left in state s, the others as they are.
Become(S, s) == [c \in Conn |-> IF c \in S THEN s ELSE conn[c]]

\* serve() and loop() test _terminate between two rounds.
NextRound == IF terminate THEN "lastqueue" ELSE "queue"

-----------------------------------------------------------------------------
(* Operations other threads call                                           *)

\* execute(): the job is queued under the mutex; the event descriptor is
\* written after the mutex is released.
Execute(t, j) ==
  /\ calling[t] = "idle"
  /\ pending' = Append(pending, j)
  /\ calling' = [calling EXCEPT ![t] = "waking"]
  /\ UNCHANGED <<wakeable, batch, job, wake, terminate, loop, events, doomed, conn>>

\* terminate(): sets the flag, then wakes the server thread.
Terminate(t) ==
  /\ calling[t] = "idle"
  /\ terminate' = TRUE
  /\ calling' = [calling EXCEPT ![t] = "waking"]
  /\ UNCHANGED <<wakeable, pending, batch, job, wake, loop, events, doomed, conn>>

\* Mutant: the descriptor is not written.
WriteWakeLost(t) ==
  /\ calling[t] = "waking"
  /\ calling' = [calling EXCEPT ![t] = "idle"]
  /\ UNCHANGED <<wakeable, pending, batch, job, wake, terminate, loop, events, doomed, conn>>

\* The write to _eventFd that ends both.
WriteWake(t) ==
  /\ calling[t] = "waking"
  /\ wake' = TRUE
  /\ calling' = [calling EXCEPT ![t] = "idle"]
  /\ UNCHANGED <<wakeable, pending, batch, job, terminate, loop, events, doomed, conn>>

-----------------------------------------------------------------------------
(* The server thread                                                       *)

\* serve(): startListening() may fail (port in use), and then serve() returns.
Serve ==
  /\ loop = "off"
  /\ loop' \in {NextRound, "down"}
  /\ UNCHANGED <<wakeable, pending, batch, job, wake, calling, terminate, events,
                 doomed, conn>>

\* Mutant: the queue is copied, not swapped.
RunExecutablesCopy ==
  /\ loop \in {"queue", "lastqueue"}
  /\ batch' = pending
  /\ loop' = IF loop = "queue" THEN "jobs" ELSE "lastjobs"
  /\ UNCHANGED <<wakeable, pending, job, wake, calling, terminate, events, doomed, conn>>

\* runExecutables(): the whole queue is swapped out under the mutex.
RunExecutables ==
  /\ loop \in {"queue", "lastqueue"}
  /\ batch' = pending
  /\ pending' = <<>>
  /\ loop' = IF loop = "queue" THEN "jobs" ELSE "lastjobs"
  /\ UNCHANGED <<wakeable, job, wake, calling, terminate, events, doomed, conn>>

StartJob ==
  /\ loop \in {"jobs", "lastjobs"}
  /\ job = NoJob /\ batch # <<>>
  /\ job' = Head(batch)
  /\ batch' = Tail(batch)
  /\ UNCHANGED <<wakeable, pending, wake, calling, terminate, loop, events, doomed, conn>>

\* The job returns; the writes it made to the connections in failed failed,
\* and safeSend() or write() shut them.
EndJob(failed) ==
  /\ job # NoJob
  /\ job' = NoJob
  /\ conn' = Become(failed, "shut")
  /\ UNCHANGED <<wakeable, pending, batch, wake, calling, terminate, loop, events, doomed>>

\* The rest of processEventQueue(): connections that sent nothing for
\* _lameConnectionTimeoutSeconds are deleted, whether they were shut or not.
ReapLame ==
  /\ loop \in {"jobs", "lastjobs"}
  /\ job = NoJob /\ batch = <<>>
  /\ \E lame \in SUBSET Unheard : conn' = Become(lame, "none")
  /\ loop' = IF loop = "jobs" THEN "wait" ELSE "shutdown"
  /\ UNCHANGED <<wakeable, pending, batch, job, wake, calling, terminate, events, doomed>>

\* Mutant: the event descriptor was not added to the epoll set.
ReadyWithoutWake == Shut

\* Sources that are certainly ready: a written event descriptor, if epoll knows
\* of it, and sockets that were shut down, for which epoll reports a hang-up.
Ready == (IF wakeable /\ wake THEN {Wake} ELSE {}) \cup Shut

\* Mutant: the event descriptor is taken for a connection.
EpollWaitMixedUp ==
  /\ loop = "wait"
  /\ \E hup \in SUBSET Live, in \in SUBSET (Live \cup {Listen}) :
       /\ Shut \subseteq hup /\ in \cap hup = {}
       /\ Listen \in in => Live # Conn
       /\ doomed' = hup \cup (Ready \ Shut)
       /\ events' = in
       /\ doomed' \cup events' # {}
  /\ loop' = "dispatch"
  /\ UNCHANGED <<wakeable, pending, batch, job, wake, calling, terminate, conn>>

\* epoll_wait() returns every ready source.  A connection with an error or a
\* hang-up is only put on toBeDeleted, so it goes there at once; the others
\* have data to read or room to write.
EpollWait ==
  /\ loop = "wait"
  /\ \E hup \in SUBSET Live, in \in SUBSET (Live \cup {Listen}) :
       /\ Shut \subseteq hup /\ in \cap hup = {}
       /\ Listen \in in => Live # Conn
       /\ doomed' = hup
       /\ events' = in \cup (Ready \ Shut)
       /\ doomed' \cup events' # {}
  /\ loop' = "dispatch"
  /\ UNCHANGED <<wakeable, pending, batch, job, wake, calling, terminate, conn>>

\* epoll_wait() returns with no event: EpollTimeoutMillis passed, or EINTR.
EpollTimeout ==
  /\ loop = "wait" /\ Ready = {}
  /\ loop' = NextRound
  /\ UNCHANGED <<wakeable, pending, batch, job, wake, calling, terminate, events,
                 doomed, conn>>

Handle(s) == /\ loop = "dispatch" /\ s \in events
             /\ events' = events \ {s}

\* handlePipe(): drains the event descriptor; a failed read ends the server.
HandlePipe ==
  /\ Handle(Wake)
  /\ \/ wake' = FALSE /\ UNCHANGED terminate
     \/ wake' \in {FALSE, wake} /\ terminate' = TRUE
  /\ UNCHANGED <<wakeable, pending, batch, job, calling, loop, doomed, conn>>

\* handleAccept(): a new connection, or none when a system call fails.
HandleAccept ==
  /\ Handle(Listen)
  /\ \/ \E c \in Conn \ Live : conn' = Become({c}, "silent")
     \/ UNCHANGED conn
  /\ UNCHANGED <<wakeable, pending, batch, job, wake, calling, terminate, loop, doomed>>

\* Unexpected event bits on the listening socket or the event descriptor:
\* the events after it are skipped.
FatalEvent ==
  /\ loop = "dispatch" /\ events \cap {Listen, Wake} # {}
  /\ terminate' = TRUE
  /\ events' = {}
  /\ doomed' \in SUBSET doomed
  /\ UNCHANGED <<wakeable, pending, batch, job, wake, calling, loop, conn>>

\* handleDataReadyForRead() on a connection that is still reading headers:
\* more headers, a page served, or an answer after which it is shut.
ReadRequest(c) ==
  /\ Handle(c) /\ conn[c] \in {"silent", "reading"}
  /\ \E s \in {"reading", "shut"} : conn' = Become({c}, s)
  /\ UNCHANGED <<wakeable, pending, batch, job, wake, calling, terminate, loop, doomed>>

\* The headers ask for a web socket and the handshake is answered.  The
\* handler learns of the connection even when the answer could not be sent.
Upgrade(c) ==
  /\ Handle(c) /\ conn[c] \in {"silent", "reading"}
  /\ \E s \in {"open", "shut"} : conn' = Become({c}, s)
  /\ UNCHANGED <<wakeable, pending, batch, job, wake, calling, terminate, loop, doomed>>

\* handleHybiWebSocket() decodes one text message and calls onData(), which
\* may answer in vain.  One read may hold many messages: c stays in events.
ReadMessage(c, after) ==
  /\ loop = "dispatch" /\ c \in events /\ conn[c] = "open"
  /\ conn' = Become({c}, after)
  /\ UNCHANGED <<wakeable, pending, batch, job, wake, calling, terminate, loop, events, doomed>>

\* The event is over: everything was read, or written, or the read failed.
EventDone(c) ==
  /\ Handle(c)
  /\ UNCHANGED <<wakeable, pending, batch, job, wake, calling, terminate, loop, doomed, conn>>

\* The peer closed, sent a close frame or what cannot be decoded, or a
\* buffered write failed: closeInternal().
ReadEnd(c) ==
  /\ Handle(c) /\ conn[c] # "none"
  /\ conn' = Become({c}, IF c \in Unheard THEN "unheard" ELSE "shut")
  /\ UNCHANGED <<wakeable, pending, batch, job, wake, calling, terminate, loop, doomed>>

\* Mutant: toBeDeleted keeps what was deleted.
DispatchEndKeepsList ==
  /\ loop = "dispatch" /\ events = {}
  /\ conn' = Become(doomed, "none")
  /\ loop' = NextRound
  /\ UNCHANGED <<wakeable, pending, batch, job, wake, calling, terminate, events, doomed>>

\* Mutant: connections that were already shut down are passed over.
DispatchEndSkipsShut ==
  /\ loop = "dispatch" /\ events = {}
  /\ conn' = Become(doomed \ Shut, "none")
  /\ doomed' = {}
  /\ loop' = NextRound
  /\ UNCHANGED <<wakeable, pending, batch, job, wake, calling, terminate, events>>

\* The connections that hung up are deleted when all events were handled.
DispatchEnd ==
  /\ loop = "dispatch" /\ events = {}
  /\ conn' = Become(doomed, "none")
  /\ doomed' = {}
  /\ loop' = NextRound
  /\ UNCHANGED <<wakeable, pending, batch, job, wake, calling, terminate, events>>

\* shutdown(): every connection left is deleted; serve() returns.
Shutdown ==
  /\ loop = "shutdown"
  /\ conn' = Become(Conn, "none")
  /\ loop' = "down"
  /\ UNCHANGED <<wakeable, pending, batch, job, wake, calling, terminate, events, doomed>>
-----------------------------------------------------------------------------
ServerInit ==
  /\ pending = <<>> /\ batch = <<>> /\ job = NoJob
  /\ wake = FALSE /\ calling = [t \in Caller |-> "idle"]
  /\ terminate = FALSE /\ loop = "off"
  /\ events = {} /\ doomed = {}
  /\ conn = [c \in Conn |-> "none"]
  /\ wakeable \in BOOLEAN          \* epoll_ctl() may fail

\* A thread posts a job whenever it likes; nothing bounds the queue.
Post(t) == \E j \in Job : Execute(t, j)

\* What the server thread does on its own, once it is not blocked in
\* epoll_wait().  Time-outs, and peers that keep sending, are left out.
ServerProgress ==
  \/ Serve \/ RunExecutables \/ StartJob \/ ReapLame
  \/ \E failed \in SUBSET Open : EndJob(failed)
  \/ Ready # {} /\ EpollWait
  \/ HandlePipe \/ HandleAccept
  \/ \E c \in Conn : ReadRequest(c) \/ Upgrade(c) \/ EventDone(c) \/ ReadEnd(c)
  \/ DispatchEnd \/ Shutdown

ServerOther ==
  \/ \E t \in Caller : Terminate(t) \/ WriteWake(t)
  \/ ServerProgress
  \/ EpollWait \/ EpollTimeout \/ FatalEvent
  \/ \E c \in Conn, after \in {"open", "shut"} : ReadMessage(c, after)

ServerNext == (\E t \in Caller : Post(t)) \/ ServerOther

ServerSpec == ServerInit /\ [][ServerNext]_serverVars
-----------------------------------------------------------------------------
ServerTypeOK ==
  /\ pending \in Seq(Job) /\ batch \in Seq(Job) /\ job \in Job \cup {NoJob}
  /\ wakeable \in BOOLEAN /\ wake \in BOOLEAN /\ terminate \in BOOLEAN
  /\ calling \in [Caller -> {"idle", "waking"}]
  /\ loop \in LoopState
  /\ events \subseteq Conn \cup {Listen, Wake} /\ doomed \subseteq Conn
  /\ conn \in [Conn -> ConnState]

\* Jobs wait for the server thread only while something is about to wake it:
\* it never blocks in epoll_wait() on a queue nobody will signal.  (Unless the
\* constructor failed to add the event descriptor: then jobs wait for the next
\* time-out.)
NoLostWakeup ==
  wakeable /\ loop = "wait" /\ pending # <<>> =>
    Wake \in Ready \/ \E t \in Caller : calling[t] = "waking"

\* An event or a pending deletion always names a Connection that exists: the
\* branch "delete connection we didn't know about" of checkAndDispatchEpoll()
\* is dead, and no event is dispatched to a freed object.
NoStaleConnection ==
  /\ (events \cap Conn) \cup doomed \subseteq Live
  /\ loop = "down" => Live = {}

\* Whatever other threads post, and whenever, jobs run one at a time, once
\* each, in the order of the calls to execute().
Jobs == INSTANCE JobQueue WITH queue <- batch \o pending, running <- job
JobsRunInOrder == Jobs!QueueSpec

\* A posted job is taken up by the server thread unless the server ends, even
\* if epoll_wait() never times out.
PostedJobsAreTaken ==
  wakeable /\ pending # <<>> ~> pending = <<>> \/ loop = "down"

\* A connection the server gave up is freed.
ShutIsDeleted == \A c \in Conn : c \in Shut ~> conn[c] = "none"
=============================================================================
