------------------------------ MODULE StaticUi ------------------------------
(***************************************************************************)
(* The pages of the example UI (script.js) on the feed of pins: their leds *)
(* and switches, and the messages under way between them and the board,    *)
(* which a web socket delivers in order.                                   *)
(***************************************************************************)
EXTENDS Naturals, Sequences, PinFeed

CONSTANTS
  Led,        \* ids of the page's leds
  Switch,     \* data-value of the page's switches, on nets of their own
  None,       \* no value; no page
  MaxMessage  \* bound on the messages under way in one direction

ASSUME UiAssumption ==
  /\ Led \cap Switch = {} /\ NoPin \notin Pin /\ None \notin Pin \cup Viewer \cup Bit
  /\ MaxMessage \in Nat \ {0}

VARIABLES
  led,     \* for each page and led, whether it has "light-active"
  shown,   \* for each page and switch, 1 unless it has "active"
  inbox,   \* messages to the page: [pin, val], or Refused
  outbox,  \* CHANGE messages of the page
  asked,   \* what a CHANGE put on a pin's net, for the next cycle
  fresh,   \* history: leds whose pin has not changed since the page was opened
  last     \* history: the page whose CHANGE of a switch was the last carried out

uiVars == <<led, shown, inbox, outbox, asked, fresh, last>>

Refused == [pin |-> None, val |-> 0]       \* "[ERROR] Invalid pin"
Dark    == [p \in Led |-> 0]
Off     == [s \in Switch |-> 0]

\* Every page that is not there is as one that is opened next.
Closed ==
  /\ led' = [c \in Viewer |-> IF c \in viewers' THEN led[c] ELSE Dark]
  /\ shown' = [c \in Viewer |-> IF c \in viewers' THEN shown[c] ELSE Off]
  /\ outbox' = [c \in Viewer |-> IF c \in viewers' THEN outbox[c] ELSE <<>>]
  /\ fresh' = [c \in Viewer |-> IF c \in viewers' THEN fresh[c] ELSE {}]
  /\ last' = [s \in Switch |-> IF last[s] \in viewers' THEN last[s] ELSE None]
  /\ UNCHANGED asked

-----------------------------------------------------------------------------
\* The page is loaded: whatever the pins are, its leds are dark and its
\* switches off, and nothing is asked of the board.
OpenPage(c) ==
  /\ Join(c)
  /\ fresh' = [fresh EXCEPT ![c] = Led \cap Pin]
  /\ UNCHANGED <<led, shown, inbox, outbox, asked, last>>

\* Pages are closed, or loaded anew, or lose their connections for good.
ClosePages ==
  /\ Leave /\ viewers' # viewers
  /\ inbox' = [c \in Viewer |-> IF c \in viewers' THEN inbox[c] ELSE <<>>]
  /\ Closed

\* Pins with a switch are inputs, which take what was put on them.
BoardRuns ==
  /\ Change
  /\ \A s \in Switch \cap Pin :
       value'[s] = IF asked[s] = None THEN value[s] ELSE asked[s]
  /\ asked' = [s \in Switch \cap Pin |-> None]
  /\ fresh' = [c \in Viewer |-> {p \in fresh[c] : value'[p] = value[p]}]
  /\ UNCHANGED <<led, shown, inbox, outbox, last>>

BoardReads(p) == Read(p) /\ UNCHANGED uiVars
BoardRests    == (Watch \/ Drop) /\ UNCHANGED uiVars

BoardTells ==
  /\ Tell
  /\ \A c \in viewers' : Len(inbox[c]) < MaxMessage
  /\ inbox' = [c \in Viewer |->
       IF c \in viewers' THEN Append(inbox[c], [pin |-> telling, val |-> said]) ELSE <<>>]
  /\ Closed

\* onData(): a pin that is not linked is answered with an error.
BoardTakes(c) ==
  /\ c \in viewers /\ outbox[c] # <<>>
  /\ LET msg == Head(outbox[c])
     IN  IF msg.pin \in Pin
           THEN /\ asked' = [asked EXCEPT ![msg.pin] = msg.val]
                /\ last' = [last EXCEPT ![msg.pin] = c]
                /\ UNCHANGED inbox
           ELSE /\ Len(inbox[c]) < MaxMessage
                /\ inbox' = [inbox EXCEPT ![c] = Append(@, Refused)]
                /\ UNCHANGED <<asked, last>>
  /\ outbox' = [outbox EXCEPT ![c] = Tail(@)]
  /\ UNCHANGED <<feedVars, led, shown, fresh>>
-----------------------------------------------------------------------------
\* Mutant: the led is toggled.
JsSetLedToggles(c, pin, val) ==
  led' = IF pin \in Led THEN [led EXCEPT ![c][pin] = 1 - @] ELSE led

\* jsSetLed(): does nothing when the page has no element of that id, which
\* goes for the pins of the switches.
JsSetLed(c, pin, val) ==
  led' = IF pin \in Led THEN [led EXCEPT ![c][pin] = val] ELSE led

\* virtual_board.onmessage: an error is only shown, the switch stays.
OnMessage(c) ==
  /\ c \in viewers /\ inbox[c] # <<>>
  /\ LET msg == Head(inbox[c])
     IN  IF msg = Refused THEN UNCHANGED led ELSE JsSetLed(c, msg.pin, msg.val)
  /\ inbox' = [inbox EXCEPT ![c] = Tail(@)]
  /\ UNCHANGED <<feedVars, shown, outbox, asked, fresh, last>>

\* Mutant: the clicks are counted.
ClickCounts(c, s) ==
  /\ c \in viewers /\ Len(outbox[c]) < MaxMessage
  /\ shown' = [shown EXCEPT ![c][s] = 1 + @]
  /\ outbox' = [outbox EXCEPT ![c] = Append(@, [pin |-> s, val |-> 1 - shown[c][s]])]
  /\ UNCHANGED <<feedVars, led, inbox, asked, fresh, last>>

\* Mutant: the value is taken before the switch is toggled.
ClickSendsOld(c, s) ==
  /\ c \in viewers /\ Len(outbox[c]) < MaxMessage
  /\ shown' = [shown EXCEPT ![c][s] = 1 - @]
  /\ outbox' = [outbox EXCEPT ![c] = Append(@, [pin |-> s, val |-> shown[c][s]])]
  /\ UNCHANGED <<feedVars, led, inbox, asked, fresh, last>>

\* $('.switchs').click
Click(c, s) ==
  /\ c \in viewers /\ Len(outbox[c]) < MaxMessage
  /\ shown' = [shown EXCEPT ![c][s] = 1 - @]
  /\ outbox' = [outbox EXCEPT ![c] = Append(@, [pin |-> s, val |-> 1 - shown[c][s]])]
  /\ UNCHANGED <<feedVars, led, inbox, asked, fresh, last>>

UiInit ==
  /\ FeedInit
  /\ led = [c \in Viewer |-> Dark] /\ shown = [c \in Viewer |-> Off]
  /\ inbox = [c \in Viewer |-> <<>>] /\ outbox = [c \in Viewer |-> <<>>]
  /\ asked = [s \in Switch \cap Pin |-> None]
  /\ fresh = [c \in Viewer |-> {}]
  /\ last = [s \in Switch |-> None]

UiNext ==
  \/ \E c \in Viewer : OpenPage(c)
  \/ ClosePages \/ BoardRuns \/ BoardRests
  \/ \E p \in Pin : BoardReads(p)
  \/ BoardTells
  \/ \E c \in Viewer : BoardTakes(c)
  \/ \E c \in Viewer : OnMessage(c)
  \/ \E c \in Viewer, s \in Switch : Click(c, s)

UiSpec == UiInit /\ [][UiNext]_<<feedVars, uiVars>>

\* What is under way arrives, and the board announces each pin that is due, if
\* it is not left again and again (DuePinsAreRead of VirtualBoard).  Nobody has
\* to click and no net to change.
FairUiSpec ==
  /\ UiSpec
  /\ WF_<<feedVars, uiVars>>(BoardTells)
  /\ \A p \in Pin : []<>(viewers = {}) \/ SF_<<feedVars, uiVars>>(BoardReads(p))
  /\ \A c \in Viewer : WF_<<feedVars, uiVars>>(OnMessage(c))
-----------------------------------------------------------------------------
Message == {Refused} \cup [pin : Pin, val : Bit]

UiTypeOK ==
  /\ value \in [Pin -> Bit] /\ (watched \subseteq Pin \/ watched = {NoPin})
  /\ viewers \subseteq Viewer /\ due \subseteq Pin
  /\ telling \in Pin \cup {NoPin} /\ said \in Bit
  /\ led \in [Viewer -> [Led -> Bit]] /\ shown \in [Viewer -> [Switch -> Bit]]
  /\ inbox \in [Viewer -> Seq(Message)]
  /\ outbox \in [Viewer -> Seq([pin : Switch, val : Bit])]
  /\ fresh \in [Viewer -> SUBSET (Led \cap Pin)]
  /\ asked \in [Switch \cap Pin -> Bit \cup {None}]
  /\ last \in [Switch -> Viewer \cup {None}]

\* The last message of a queue that is on a pin.
IsLastOn(queue, p, i) ==
  queue[i].pin = p /\ \A j \in DOMAIN queue : j > i => queue[j].pin # p

\* Whether a led that is val will be v when the queue has arrived.
WillShow(val, queue, p, v) ==
  /\ (\A i \in DOMAIN queue : queue[i].pin # p) => val = v
  /\ \A i \in DOMAIN queue : IsLastOn(queue, p, i) => queue[i].val = v

\* A led that will not come to show a pin that has changed since the page was
\* opened is about to be told: what is sent in the order of the readings is
\* applied in that order, and set, not toggled, by jsSetLed().
LedIsAnnounced ==
  \A c \in viewers, p \in Led \cap Pin :
    p \in watched \ fresh[c] /\ ~ WillShow(led[c][p], inbox[c], p, value[p]) =>
      p \in due \/ (telling = p /\ said = value[p])

\* The switch of the page that was the last to change a pin shows what the pin
\* is, or is about to be, as soon as its clicks have arrived: the value sent is
\* that after the toggle, and clicks arrive in order.
SwitchOfLastIsRight ==
  \A c \in viewers, s \in Switch \cap Pin :
    last[s] = c /\ (\A i \in DOMAIN outbox[c] : outbox[c][i].pin # s) =>
      shown[c][s] = IF asked[s] = None THEN value[s] ELSE asked[s]

\* A led comes to show a pin that has changed since the page was opened, or
\* the page is closed.
LedsCatchUp ==
  \A c \in Viewer, p \in Led \cap Pin :
    (c \in viewers /\ p \in watched \ fresh[c] /\ led[c][p] # value[p])
      ~> (c \notin viewers \/ led[c][p] = value[p])
=============================================================================
