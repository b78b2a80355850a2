------------------------------ MODULE JobQueue ------------------------------
(***************************************************************************)
(* What seasocks' execute() promises to the threads that call it: the jobs *)
(* run one at a time, each once, in the order in which they were posted.   *)
(***************************************************************************)
EXTENDS Sequences

CONSTANTS Job, NoJob
VARIABLES queue, running

Post(j) == queue' = Append(queue, j) /\ UNCHANGED running

Start == /\ running = NoJob /\ queue # <<>>
         /\ running' = Head(queue)
         /\ queue' = Tail(queue)

Finish == running # NoJob /\ running' = NoJob /\ UNCHANGED queue

QueueInit == queue = <<>> /\ running = NoJob
QueueNext == (\E j \in Job : Post(j)) \/ Start \/ Finish
QueueSpec == QueueInit /\ [][QueueNext]_<<queue, running>>
=============================================================================
