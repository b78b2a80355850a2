------------------------------ MODULE PinFeed ------------------------------
(***************************************************************************)
(* What the plug-in promises to those who watch the board over web         *)
(* sockets, without its threads, queues and connections: a watched pin     *)
(* that changes is announced, with a value read after the change, to every *)
(* viewer that stays until then.                                           *)
(***************************************************************************)
CONSTANTS Viewer, Pin, NoPin

VARIABLES
  value,     \* what each pin is
  watched,   \* the pins whose changes are seen; {NoPin} until it is settled
  viewers,   \* those connected
  knows,     \* the last value of each pin that each viewer can know
  due,       \* pins with an announcement on its way that will read them
  telling,   \* the pin being announced, or NoPin
  said       \* the value that was read of it

feedVars == <<value, watched, viewers, knows, due, telling, said>>

Bit == {0, 1}
Unknown == [p \in Pin |-> 0]

\* Of viewers that left nothing is kept.
Keep(known) == knows' = [c \in Viewer |-> IF c \in viewers' THEN known[c] ELSE Unknown]

Watch ==
  /\ watched = {NoPin} /\ watched' \in SUBSET Pin
  /\ UNCHANGED <<value, viewers, knows, due, telling, said>>

\* The design runs.  A pin may be due without having changed.
Change ==
  /\ watched # {NoPin}
  /\ value' \in [Pin -> Bit]
  /\ due' \in SUBSET watched
  /\ due \cup {p \in watched : value'[p] # value[p]} \subseteq due'
  /\ UNCHANGED <<watched, viewers, knows, telling, said>>

Join(c) ==
  /\ c \notin viewers
  /\ viewers' = viewers \cup {c}
  /\ Keep([knows EXCEPT ![c] = value])
  /\ UNCHANGED <<value, watched, due, telling, said>>

Leave ==
  /\ viewers' \in SUBSET viewers
  /\ Keep(knows)
  /\ UNCHANGED <<value, watched, due, telling, said>>

\* Nobody is there to be told.
Drop ==
  /\ viewers = {} /\ due' \in SUBSET due
  /\ UNCHANGED <<value, watched, viewers, knows, telling, said>>

\* The pin may stay due: more announcements of it may be on their way.
Read(p) ==
  /\ telling = NoPin /\ p \in due
  /\ telling' = p /\ said' = value[p]
  /\ due' \in {due, due \ {p}}
  /\ UNCHANGED <<value, watched, viewers, knows>>

\* Viewers whom it does not reach are gone.
Tell ==
  /\ telling # NoPin
  /\ telling' = NoPin /\ said' = 0
  /\ viewers' \in SUBSET viewers
  /\ Keep([c \in Viewer |-> [knows[c] EXCEPT ![telling] = said]])
  /\ UNCHANGED <<value, watched, due>>

FeedInit ==
  /\ value \in [Pin -> Bit]
  /\ watched = {NoPin} /\ viewers = {}
  /\ knows = [c \in Viewer |-> Unknown]
  /\ due = {} /\ telling = NoPin /\ said = 0

FeedNext ==
  \/ Watch \/ Change \/ Leave \/ Drop \/ Tell
  \/ \E c \in Viewer : Join(c)
  \/ \E p \in Pin : Read(p)

FeedSpec == FeedInit /\ [][FeedNext]_feedVars
=============================================================================
