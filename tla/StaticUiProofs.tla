--------------------------- MODULE StaticUiProofs ---------------------------
(***************************************************************************)
(* For any pages, leds, switches and pins, and any number of messages      *)
(* under way: what the pages show, or are about to, is what the pins are.  *)
(***************************************************************************)
EXTENDS StaticUi, SequenceTheorems, TLAPS

\* Only watched pins are announced.
WatchInv == due \subseteq watched /\ telling \in watched \cup {NoPin}

\* What went stale between the reading and the sending is read again, or the
\* pages were all opened since.
TellInv ==
  telling # NoPin /\ said # value[telling] =>
    telling \in due \/ \A c \in viewers : telling \in Led => telling \in fresh[c]

\* No pin changes before it is settled which changes are seen.
FreshInv == watched = {NoPin} => \A c \in viewers : fresh[c] = Led \cap Pin

LastInv == \A s \in Switch : last[s] \in viewers \cup {None}

\* The last click on a switch that is under way sends what the switch shows.
SentInv ==
  \A c \in Viewer, s \in Switch : \A i \in DOMAIN outbox[c] :
    IsLastOn(outbox[c], s, i) => outbox[c][i].val = shown[c][s]

UiInv == /\ UiTypeOK /\ WatchInv /\ TellInv /\ FreshInv
         /\ LedIsAnnounced /\ LastInv /\ SentInv /\ SwitchOfLastIsRight
-----------------------------------------------------------------------------
(* Queues                                                                   *)

\* A message that is added is the last on its pin, and on the others nothing
\* changes.
LEMMA LastAdded ==
  ASSUME NEW S, NEW q \in Seq(S), NEW m \in S, NEW p
  PROVE  \A i \in DOMAIN Append(q, m) : IsLastOn(Append(q, m), p, i) =>
           \/ m.pin = p /\ Append(q, m)[i] = m
           \/ /\ m.pin # p /\ i \in DOMAIN q
              /\ Append(q, m)[i] = q[i] /\ IsLastOn(q, p, i)
<1> DEFINE r == Append(q, m)
<1>1. /\ r \in Seq(S) /\ Len(r) = Len(q) + 1 /\ r[Len(q) + 1] = m
      /\ \A i \in 1 .. Len(q) : r[i] = q[i]
  BY AppendProperties
<1>2. DOMAIN q = 1 .. Len(q) /\ DOMAIN r = 1 .. Len(r) /\ Len(q) \in Nat
  BY <1>1
<1> HIDE DEF r
<1>3. ASSUME NEW i \in DOMAIN r, IsLastOn(r, p, i)
      PROVE  \/ m.pin = p /\ r[i] = m
             \/ m.pin # p /\ i \in DOMAIN q /\ r[i] = q[i] /\ IsLastOn(q, p, i)
  <2>1. i \in DOMAIN q \/ i = Len(q) + 1
    BY <1>1, <1>2
  <2>2. CASE i = Len(q) + 1
    BY <1>1, <1>3, <2>2 DEF IsLastOn
  <2>3. CASE i \in DOMAIN q
    <3>1. Len(q) + 1 \in DOMAIN r /\ Len(q) + 1 > i
      BY <1>1, <1>2, <2>3
    <3>2. m.pin # p
      BY <1>1, <1>3, <3>1 DEF IsLastOn
    <3>3. \A j \in DOMAIN q : j \in DOMAIN r /\ r[j] = q[j]
      BY <1>1, <1>2
    <3> QED  BY <1>3, <2>3, <3>2, <3>3 DEF IsLastOn
  <2> QED  BY <2>1, <2>2, <2>3
<1> QED
  BY <1>3 DEF r

\* What is left of a queue has the last messages it had.
LEMMA LastLeft ==
  ASSUME NEW S, NEW q \in Seq(S), q # <<>>, NEW p
  PROVE  /\ \A i \in DOMAIN Tail(q) : IsLastOn(Tail(q), p, i) =>
              i + 1 \in DOMAIN q /\ Tail(q)[i] = q[i + 1] /\ IsLastOn(q, p, i + 1)
         /\ 1 \in DOMAIN q /\ Head(q) = q[1] /\ Head(q) \in S /\ Tail(q) \in Seq(S)
         /\ \A i \in DOMAIN q : i = 1 \/ (i - 1 \in DOMAIN Tail(q) /\ q[i] = Tail(q)[i - 1])
<1> DEFINE r == Tail(q)
<1>1. /\ r \in Seq(S) /\ Len(r) = Len(q) - 1 /\ Head(q) \in S
      /\ \A i \in 1 .. Len(r) : r[i] = q[i + 1]
  BY HeadTailProperties
<1>2. /\ DOMAIN q = 1 .. Len(q) /\ DOMAIN r = 1 .. Len(r)
      /\ Len(q) \in Nat \ {0} /\ Head(q) = q[1]
  BY <1>1, EmptySeq
<1> HIDE DEF r
<1>3. \A i \in DOMAIN r : i \in Nat /\ i + 1 \in DOMAIN q /\ r[i] = q[i + 1]
  BY <1>1, <1>2
<1>4. \A i \in DOMAIN q : i = 1 \/ (i - 1 \in DOMAIN r /\ q[i] = r[i - 1])
  <2> SUFFICES ASSUME NEW i \in DOMAIN q, i # 1
               PROVE  i - 1 \in DOMAIN r /\ q[i] = r[i - 1]
    OBVIOUS
  <2>1. i \in Nat /\ i - 1 \in DOMAIN r
    BY <1>1, <1>2
  <2>2. r[i - 1] = q[(i - 1) + 1] /\ (i - 1) + 1 = i
    BY <1>3, <2>1
  <2> QED  BY <2>1, <2>2
<1>5. ASSUME NEW i \in DOMAIN r, IsLastOn(r, p, i) PROVE IsLastOn(q, p, i + 1)
  <2>1. q[i + 1].pin = p
    BY <1>3, <1>5 DEF IsLastOn
  <2>2. ASSUME NEW j \in DOMAIN q, j > i + 1 PROVE q[j].pin # p
    <3>1. j - 1 \in DOMAIN r /\ q[j] = r[j - 1] /\ j - 1 > i
      BY <1>2, <1>3, <1>4, <2>2
    <3> QED  BY <1>5, <3>1 DEF IsLastOn
  <2> QED  BY <2>1, <2>2 DEF IsLastOn
<1> QED
  BY <1>1, <1>2, <1>3, <1>4, <1>5 DEF r

\* Further messages on other pins change nothing that a page will show; one on
\* the pin decides it.
LEMMA ShownAfterAdding ==
  ASSUME NEW S, NEW q \in Seq(S), NEW m \in S, NEW p, NEW val, NEW v
  PROVE  /\ m.pin # p /\ WillShow(val, q, p, v) => WillShow(val, Append(q, m), p, v)
         /\ m.pin = p /\ m.val = v => WillShow(val, Append(q, m), p, v)
<1> DEFINE r == Append(q, m)
<1>1. /\ r \in Seq(S) /\ Len(r) = Len(q) + 1 /\ r[Len(q) + 1] = m
      /\ \A i \in 1 .. Len(q) : r[i] = q[i]
  BY AppendProperties
<1>2. /\ Len(q) + 1 \in DOMAIN r
      /\ \A i \in DOMAIN q : i \in DOMAIN r /\ r[i] = q[i]
  BY <1>1
<1>3. \A i \in DOMAIN r : IsLastOn(r, p, i) =>
         \/ m.pin = p /\ r[i] = m
         \/ m.pin # p /\ i \in DOMAIN q /\ r[i] = q[i] /\ IsLastOn(q, p, i)
  BY LastAdded
<1> HIDE DEF r
<1>4. m.pin # p /\ WillShow(val, q, p, v) => WillShow(val, r, p, v)
  BY <1>2, <1>3 DEF WillShow
<1>5. m.pin = p /\ m.val = v => WillShow(val, r, p, v)
  BY <1>1, <1>2, <1>3 DEF WillShow
<1> QED
  BY <1>4, <1>5 DEF r

\* Neither does the arrival of the first.
LEMMA ShownAfterArrival ==
  ASSUME NEW S, NEW q \in Seq(S), q # <<>>, NEW p, NEW val, NEW v,
         WillShow(val, q, p, v)
  PROVE  WillShow(IF Head(q).pin = p THEN Head(q).val ELSE val, Tail(q), p, v)
<1> DEFINE r == Tail(q)
           now == IF Head(q).pin = p THEN Head(q).val ELSE val
<1>1. /\ \A i \in DOMAIN r : IsLastOn(r, p, i) =>
            i + 1 \in DOMAIN q /\ r[i] = q[i + 1] /\ IsLastOn(q, p, i + 1)
      /\ 1 \in DOMAIN q /\ Head(q) = q[1]
      /\ \A i \in DOMAIN q : i = 1 \/ (i - 1 \in DOMAIN r /\ q[i] = r[i - 1])
  BY LastLeft
<1> HIDE DEF r
<1>2. ASSUME \A i \in DOMAIN r : r[i].pin # p PROVE now = v
  <2>1. CASE Head(q).pin = p
    <3>1. IsLastOn(q, p, 1)
      BY <1>1, <1>2, <2>1 DEF IsLastOn
    <3> QED  BY <1>1, <2>1, <3>1 DEF WillShow
  <2>2. CASE Head(q).pin # p
    <3>1. \A i \in DOMAIN q : q[i].pin # p
      BY <1>1, <1>2, <2>2
    <3> QED  BY <2>2, <3>1 DEF WillShow
  <2> QED  BY <2>1, <2>2
<1>3. \A i \in DOMAIN r : IsLastOn(r, p, i) => r[i].val = v
  BY <1>1 DEF WillShow
<1> HIDE DEF now
<1>4. WillShow(now, r, p, v)
  BY <1>2, <1>3 DEF WillShow
<1> QED
  BY <1>4 DEF now, r
-----------------------------------------------------------------------------
(* Types                                                                    *)

LEMMA NoneIsNoPin == NoPin \notin Pin /\ None \notin Pin /\ None \notin Bit /\ None \notin Viewer
  BY UiAssumption

LEMMA RefusedIsMessage == Refused \in Message
  BY DEF Message

\* Pages that are closed, and those that are not there, keep the types.
LEMMA ClosedTypes ==
  ASSUME UiTypeOK, viewers' \subseteq Viewer, Closed
  PROVE  /\ led' \in [Viewer -> [Led -> Bit]] /\ shown' \in [Viewer -> [Switch -> Bit]]
         /\ outbox' \in [Viewer -> Seq([pin : Switch, val : Bit])]
         /\ fresh' \in [Viewer -> SUBSET (Led \cap Pin)]
         /\ asked' = asked /\ last' \in [Switch -> Viewer \cup {None}]
<1> USE DEF UiTypeOK, Closed
<1>1. Dark \in [Led -> Bit] /\ Off \in [Switch -> Bit]
  BY DEF Dark, Off, Bit
<1>2. <<>> \in Seq([pin : Switch, val : Bit])
  BY EmptySeq
<1>3. led' \in [Viewer -> [Led -> Bit]]
  BY <1>1
<1>4. shown' \in [Viewer -> [Switch -> Bit]]
  BY <1>1
<1>5. outbox' \in [Viewer -> Seq([pin : Switch, val : Bit])]
  BY <1>2
<1>6. fresh' \in [Viewer -> SUBSET (Led \cap Pin)]
  BY DEF Closed
<1>7. last' \in [Switch -> Viewer \cup {None}]
  OBVIOUS
<1> QED  BY <1>3, <1>4, <1>5, <1>6, <1>7

LEMMA UiTypeInit == UiInit => UiTypeOK
<1> SUFFICES ASSUME UiInit PROVE UiTypeOK
  OBVIOUS
<1>1. <<>> \in Seq(Message) /\ <<>> \in Seq([pin : Switch, val : Bit])
  BY EmptySeq
<1>2. Dark \in [Led -> Bit] /\ Off \in [Switch -> Bit]
  BY DEF Dark, Off, Bit
<1>3. inbox \in [Viewer -> Seq(Message)] /\ outbox \in [Viewer -> Seq([pin : Switch, val : Bit])]
  BY <1>1 DEF UiInit
<1>4. fresh \in [Viewer -> SUBSET (Led \cap Pin)]
  BY DEF UiInit
<1> QED  BY <1>2, <1>3, <1>4 DEF UiInit, FeedInit, UiTypeOK, Bit

LEMMA UiTypeStep == UiTypeOK /\ [UiNext]_<<feedVars, uiVars>> => UiTypeOK'
<1> SUFFICES ASSUME UiTypeOK, [UiNext]_<<feedVars, uiVars>> PROVE UiTypeOK'
  OBVIOUS
<1> USE DEF UiTypeOK
<1>1. ASSUME NEW c \in Viewer, OpenPage(c) PROVE UiTypeOK'
  BY <1>1 DEF OpenPage, Join
<1>2. CASE ClosePages
  <2>1. viewers' \subseteq Viewer
    BY <1>2 DEF ClosePages, Leave
  <2>2. inbox' \in [Viewer -> Seq(Message)]
    BY <1>2, EmptySeq DEF ClosePages
  <2> QED  BY <1>2, <2>1, <2>2, ClosedTypes DEF ClosePages, Leave
<1>3. CASE BoardRuns
  <2>1. asked' \in [Switch \cap Pin -> Bit \cup {None}]
    BY <1>3 DEF BoardRuns
  <2>2. fresh' \in [Viewer -> SUBSET (Led \cap Pin)]
    BY <1>3 DEF BoardRuns
  <2>3. due' \subseteq Pin
    BY <1>3 DEF BoardRuns, Change
  <2> QED  BY <1>3, <2>1, <2>2, <2>3 DEF BoardRuns, Change
<1>4. CASE BoardRests
  BY <1>4 DEF BoardRests, Watch, Drop, uiVars
<1>5. ASSUME NEW p \in Pin, BoardReads(p) PROVE UiTypeOK'
  BY <1>5 DEF BoardReads, Read, uiVars
<1>6. CASE BoardTells
  <2>1. viewers' \subseteq Viewer
    BY <1>6 DEF BoardTells, Tell
  <2>2. [pin |-> telling, val |-> said] \in Message
    BY <1>6 DEF BoardTells, Tell, Message
  <2>3. inbox' \in [Viewer -> Seq(Message)]
    <3>1. \A c \in Viewer : Append(inbox[c], [pin |-> telling, val |-> said]) \in Seq(Message)
      BY <2>2, AppendProperties
    <3>2. <<>> \in Seq(Message)
      BY EmptySeq
    <3> QED  BY <1>6, <3>1, <3>2 DEF BoardTells
  <2> QED  BY <1>6, <2>1, <2>3, ClosedTypes DEF BoardTells, Tell, Bit
<1>7. ASSUME NEW c \in Viewer, BoardTakes(c) PROVE UiTypeOK'
  <2> DEFINE msg == Head(outbox[c])
  <2>1. msg \in [pin : Switch, val : Bit] /\ Tail(outbox[c]) \in Seq([pin : Switch, val : Bit])
    BY <1>7, HeadTailProperties DEF BoardTakes
  <2>2. Append(inbox[c], Refused) \in Seq(Message)
    BY RefusedIsMessage, AppendProperties
  <2>3. outbox' \in [Viewer -> Seq([pin : Switch, val : Bit])]
    BY <1>7, <2>1 DEF BoardTakes
  <2>4. UNCHANGED <<feedVars, led, shown, fresh>>
    BY <1>7 DEF BoardTakes
  <2>5. CASE msg.pin \in Pin
    <3>1. /\ asked' = [asked EXCEPT ![msg.pin] = msg.val]
          /\ last' = [last EXCEPT ![msg.pin] = c] /\ inbox' = inbox
      BY <1>7, <2>5 DEF BoardTakes
    <3>2. msg.pin \in Switch /\ msg.val \in Bit
      BY <2>1
    <3> HIDE DEF msg
    <3>3. asked' \in [Switch \cap Pin -> Bit \cup {None}]
      BY <3>1, <3>2
    <3>4. last' \in [Switch -> Viewer \cup {None}]
      BY <3>1, <3>2
    <3> QED  BY <2>3, <2>4, <3>1, <3>3, <3>4 DEF feedVars
  <2>6. CASE msg.pin \notin Pin
    <3>1. /\ inbox' = [inbox EXCEPT ![c] = Append(@, Refused)]
          /\ UNCHANGED <<asked, last>>
      BY <1>7, <2>6 DEF BoardTakes
    <3>2. inbox' \in [Viewer -> Seq(Message)]
      BY <2>2, <3>1
    <3> QED  BY <2>3, <2>4, <3>1, <3>2 DEF feedVars
  <2> QED  BY <2>5, <2>6
<1>8. ASSUME NEW c \in Viewer, OnMessage(c) PROVE UiTypeOK'
  <2> DEFINE msg == Head(inbox[c])
  <2>1. msg \in Message /\ Tail(inbox[c]) \in Seq(Message)
    BY <1>8, HeadTailProperties DEF OnMessage
  <2>2. inbox' \in [Viewer -> Seq(Message)]
    BY <1>8, <2>1 DEF OnMessage
  <2>3. led' \in [Viewer -> [Led -> Bit]]
    <3>1. led' = led \/ (msg # Refused /\ led' = [led EXCEPT ![c][msg.pin] = msg.val])
      BY <1>8 DEF OnMessage, JsSetLed
    <3>2. msg # Refused => msg.val \in Bit
      BY <2>1 DEF Message
    <3>3. \A lit \in [Led -> Bit], p, v \in Bit : [lit EXCEPT ![p] = v] \in [Led -> Bit]
      OBVIOUS
    <3> HIDE DEF msg
    <3>4. CASE led' = led
      BY <3>4
    <3>5. CASE msg # Refused /\ led' = [led EXCEPT ![c][msg.pin] = msg.val]
      <4>1. [led[c] EXCEPT ![msg.pin] = msg.val] \in [Led -> Bit]
        BY <3>2, <3>3, <3>5
      <4> QED  BY <3>5, <4>1
    <3> QED  BY <3>1, <3>4, <3>5
  <2> QED  BY <1>8, <2>2, <2>3 DEF OnMessage, feedVars
<1>9. ASSUME NEW c \in Viewer, NEW s \in Switch, Click(c, s) PROVE UiTypeOK'
  <2>1. shown[c][s] \in Bit /\ 1 - shown[c][s] \in Bit
    BY DEF Bit
  <2>2. [pin |-> s, val |-> 1 - shown[c][s]] \in [pin : Switch, val : Bit]
    BY <2>1
  <2>3. outbox' \in [Viewer -> Seq([pin : Switch, val : Bit])]
    BY <1>9, <2>2, AppendProperties DEF Click
  <2>4. shown' \in [Viewer -> [Switch -> Bit]]
    BY <1>9, <2>1 DEF Click
  <2> QED  BY <1>9, <2>3, <2>4 DEF Click, feedVars
<1>10. CASE UNCHANGED <<feedVars, uiVars>>
  BY <1>10 DEF feedVars, uiVars
<1> QED
  BY <1>1, <1>2, <1>3, <1>4, <1>5, <1>6, <1>7, <1>8, <1>9, <1>10 DEF UiNext
-----------------------------------------------------------------------------
(* Leds                                                                     *)

\* The steps that are between a page and the messages only.
LEMMA FeedRests ==
  ASSUME \/ \E c \in Viewer : BoardTakes(c) \/ OnMessage(c)
         \/ \E c \in Viewer, s \in Switch : Click(c, s)
         \/ UNCHANGED <<feedVars, uiVars>>
  PROVE  UNCHANGED <<value, watched, viewers, due, telling, said, fresh>>
  BY DEF BoardTakes, OnMessage, Click, feedVars, uiVars

\* The pages that stay keep what they know of.
LEMMA StayKeeps ==
  ASSUME UiTypeOK, ClosePages \/ BoardTells
  PROVE  /\ viewers' \subseteq viewers /\ UNCHANGED <<value, watched, due>>
         /\ asked' = asked
         /\ \A c \in viewers' :
              /\ c \in Viewer /\ led'[c] = led[c] /\ shown'[c] = shown[c]
              /\ outbox'[c] = outbox[c] /\ fresh'[c] = fresh[c]
  BY DEF UiTypeOK, ClosePages, BoardTells, Leave, Tell, Closed

LEMMA WatchStep == UiTypeOK /\ WatchInv /\ [UiNext]_<<feedVars, uiVars>> => WatchInv'
<1> SUFFICES ASSUME UiTypeOK, WatchInv, [UiNext]_<<feedVars, uiVars>> PROVE WatchInv'
  OBVIOUS
<1>0. NoPin \notin Pin /\ due \subseteq Pin /\ telling \in Pin \cup {NoPin}
  BY NoneIsNoPin DEF UiTypeOK
<1>1. \/ UNCHANGED <<watched, due, telling>>
      \/ watched = {NoPin} /\ UNCHANGED <<due, telling>>
      \/ due' \subseteq watched /\ UNCHANGED <<watched, telling>>
      \/ due' \subseteq due /\ telling' \in due \cup {telling, NoPin} /\ watched' = watched
  BY FeedRests
  DEF UiNext, OpenPage, ClosePages, BoardRuns, BoardRests, BoardReads, BoardTells,
      Join, Leave, Change, Watch, Drop, Read, Tell, uiVars
<1> QED
  BY <1>0, <1>1 DEF WatchInv

LEMMA TellStep ==
  UiTypeOK /\ WatchInv /\ TellInv /\ [UiNext]_<<feedVars, uiVars>> => TellInv'
<1> SUFFICES ASSUME UiTypeOK, WatchInv, TellInv, [UiNext]_<<feedVars, uiVars>>
             PROVE  TellInv'
  OBVIOUS
<1>0. /\ telling \in Pin \cup {NoPin} /\ viewers \subseteq Viewer
      /\ fresh \in [Viewer -> SUBSET (Led \cap Pin)]
  BY DEF UiTypeOK
<1>1. ASSUME NEW c \in Viewer, OpenPage(c) PROVE TellInv'
  <2>1. /\ UNCHANGED <<value, due, telling, said>> /\ viewers' = viewers \cup {c}
        /\ fresh' = [fresh EXCEPT ![c] = Led \cap Pin]
    BY <1>1 DEF OpenPage, Join
  <2>2. \A d \in viewers : fresh[d] \subseteq fresh'[d]
    BY <1>0, <2>1
  <2>3. fresh'[c] = Led \cap Pin
    BY <1>0, <2>1
  <2> QED  BY <1>0, <2>1, <2>2, <2>3 DEF TellInv
<1>2. CASE ClosePages
  BY <1>2, StayKeeps DEF ClosePages, Leave, TellInv
<1>3. CASE BoardRuns
  <2>1. /\ UNCHANGED <<viewers, telling, said>>
        /\ due \cup {p \in watched : value'[p] # value[p]} \subseteq due'
        /\ fresh' = [c \in Viewer |-> {p \in fresh[c] : value'[p] = value[p]}]
    BY <1>3 DEF BoardRuns, Change
  <2>2. ASSUME telling # NoPin, value'[telling] # value[telling] PROVE TellInv'
    BY <2>1, <2>2 DEF WatchInv, TellInv
  <2>3. ASSUME value'[telling] = value[telling] PROVE TellInv'
    BY <1>0, <2>1, <2>3 DEF TellInv
  <2> QED  BY <2>1, <2>2, <2>3 DEF TellInv
<1>4. CASE BoardRests
  BY <1>4 DEF BoardRests, Watch, Drop, uiVars, TellInv
<1>5. CASE (\E p \in Pin : BoardReads(p)) \/ BoardTells
  BY <1>5 DEF BoardReads, Read, BoardTells, Tell, TellInv
<1>6. CASE UNCHANGED <<value, viewers, due, telling, said, fresh>>
  BY <1>6 DEF TellInv
<1> QED
  BY <1>1, <1>2, <1>3, <1>4, <1>5, <1>6, FeedRests DEF UiNext

LEMMA FreshStep == UiTypeOK /\ FreshInv /\ [UiNext]_<<feedVars, uiVars>> => FreshInv'
<1> SUFFICES ASSUME UiTypeOK, FreshInv, [UiNext]_<<feedVars, uiVars>> PROVE FreshInv'
  OBVIOUS
<1>0. viewers \subseteq Viewer /\ fresh \in [Viewer -> SUBSET (Led \cap Pin)]
  BY DEF UiTypeOK
<1>1. ASSUME NEW c \in Viewer, OpenPage(c) PROVE FreshInv'
  <2>1. /\ watched' = watched /\ viewers' = viewers \cup {c}
        /\ fresh' = [fresh EXCEPT ![c] = Led \cap Pin]
    BY <1>1 DEF OpenPage, Join
  <2>2. \A d \in viewers' : fresh'[d] = IF d = c THEN Led \cap Pin ELSE fresh[d]
    BY <1>0, <2>1
  <2> QED  BY <2>1, <2>2 DEF FreshInv
<1>2. CASE ClosePages \/ BoardTells
  BY <1>2, StayKeeps DEF FreshInv
<1>3. CASE BoardRuns \/ Watch
  BY <1>3, NoneIsNoPin DEF BoardRuns, Change, Watch, FreshInv
<1>4. CASE UNCHANGED <<watched, viewers, fresh>>
  BY <1>4 DEF FreshInv
<1> QED
  BY <1>1, <1>2, <1>3, <1>4, FeedRests
  DEF UiNext, BoardRests, Drop, BoardReads, Read, uiVars

LEMMA AnnouncedStep ==
  /\ UiTypeOK /\ WatchInv /\ TellInv /\ FreshInv /\ LedIsAnnounced
  /\ [UiNext]_<<feedVars, uiVars>>
  => LedIsAnnounced'
<1> SUFFICES ASSUME UiTypeOK, WatchInv, TellInv, FreshInv, LedIsAnnounced,
                    [UiNext]_<<feedVars, uiVars>>,
                    NEW c \in viewers', NEW p \in Led \cap Pin,
                    p \in watched', p \notin fresh'[c],
                    ~ WillShow(led'[c][p], inbox'[c], p, value'[p])
             PROVE  p \in due' \/ (telling' = p /\ said' = value'[p])
  BY DEF LedIsAnnounced
<1> USE DEF UiTypeOK
<1>0. NoPin \notin Pin /\ None \notin Pin
  BY NoneIsNoPin
<1>1. ASSUME NEW d \in Viewer, OpenPage(d)
      PROVE  p \in due' \/ (telling' = p /\ said' = value'[p])
  <2>1. /\ UNCHANGED <<value, watched, due, telling, said, led, inbox>>
        /\ viewers' = viewers \cup {d}
        /\ fresh' = [fresh EXCEPT ![d] = Led \cap Pin]
    BY <1>1 DEF OpenPage, Join
  <2>2. c # d /\ c \in viewers /\ fresh'[c] = fresh[c]
    BY <2>1
  <2> QED  BY <2>1, <2>2 DEF LedIsAnnounced
<1>2. CASE ClosePages
  <2>1. /\ UNCHANGED <<value, watched, due, telling, said>>
        /\ c \in viewers /\ led'[c] = led[c] /\ inbox'[c] = inbox[c] /\ fresh'[c] = fresh[c]
    BY <1>2, StayKeeps DEF ClosePages, Leave
  <2> QED  BY <2>1 DEF LedIsAnnounced
<1>3. CASE BoardRuns
  <2>1. /\ UNCHANGED <<viewers, telling, said, led, inbox>> /\ watched' = watched
        /\ due \cup {q \in watched : value'[q] # value[q]} \subseteq due'
        /\ fresh' = [d \in Viewer |-> {q \in fresh[d] : value'[q] = value[q]}]
    BY <1>3 DEF BoardRuns, Change
  <2>2. CASE value'[p] # value[p]
    BY <2>1, <2>2
  <2>3. CASE value'[p] = value[p]
    <3>1. p \notin fresh[c]
      BY <2>1, <2>3
    <3> QED  BY <2>1, <2>3, <3>1 DEF LedIsAnnounced
  <2> QED  BY <2>2, <2>3
<1>4. CASE BoardRests
  <2>1. UNCHANGED <<value, viewers, telling, said, led, inbox, fresh>>
    BY <1>4 DEF BoardRests, Watch, Drop, uiVars
  <2>2. \/ UNCHANGED <<watched, due>>
        \/ viewers = {}
        \/ watched = {NoPin}
    BY <1>4 DEF BoardRests, Watch, Drop
  <2> QED  BY <2>1, <2>2 DEF LedIsAnnounced, FreshInv
<1>5. ASSUME NEW q \in Pin, BoardReads(q)
      PROVE  p \in due' \/ (telling' = p /\ said' = value'[p])
  <2>1. /\ UNCHANGED <<value, watched, viewers, led, inbox, fresh>> /\ telling = NoPin
        /\ telling' = q /\ said' = value[q] /\ due \ {q} \subseteq due'
    BY <1>5 DEF BoardReads, Read, uiVars
  <2>2. p \in due
    BY <1>0, <2>1 DEF LedIsAnnounced
  <2> QED  BY <2>1, <2>2
<1>6. CASE BoardTells
  <2> DEFINE msg == [pin |-> telling, val |-> said]
  <2>1. /\ UNCHANGED <<value, watched, due>> /\ telling # NoPin
        /\ c \in viewers /\ led'[c] = led[c] /\ fresh'[c] = fresh[c]
        /\ inbox'[c] = Append(inbox[c], msg)
    BY <1>6, StayKeeps DEF BoardTells, Tell
  <2>2. inbox[c] \in Seq(Message) /\ msg \in Message
    BY <2>1 DEF Message
  <2>3. msg.pin = telling /\ msg.val = said
    OBVIOUS
  <2> HIDE DEF msg
  <2>4. CASE telling = p
    <3>1. said # value[p]
      BY <2>1, <2>2, <2>3, <2>4, ShownAfterAdding
    <3> QED  BY <2>1, <2>4, <3>1 DEF TellInv
  <2>5. CASE telling # p
    <3>1. ~ WillShow(led[c][p], inbox[c], p, value[p])
      BY <2>1, <2>2, <2>3, <2>5, ShownAfterAdding
    <3> QED  BY <2>1, <2>5, <3>1 DEF LedIsAnnounced
  <2> QED  BY <2>4, <2>5
<1>7. ASSUME NEW d \in Viewer, BoardTakes(d)
      PROVE  p \in due' \/ (telling' = p /\ said' = value'[p])
  <2>1. /\ UNCHANGED <<value, watched, viewers, due, telling, said, led, fresh>>
        /\ \/ inbox' = inbox
           \/ inbox' = [inbox EXCEPT ![d] = Append(@, Refused)]
    BY <1>7 DEF BoardTakes, feedVars
  <2>2. inbox'[c] = inbox[c] \/ inbox'[c] = Append(inbox[c], Refused)
    BY <2>1
  <2>3. Refused.pin # p /\ Refused \in Message /\ inbox[c] \in Seq(Message)
    BY <1>0, <2>1, RefusedIsMessage DEF Refused
  <2>4. ~ WillShow(led[c][p], inbox'[c], p, value[p])
    BY <2>1
  <2>5. WillShow(led[c][p], inbox[c], p, value[p])
        => WillShow(led[c][p], Append(inbox[c], Refused), p, value[p])
    BY <2>3, ShownAfterAdding
  <2>6. ~ WillShow(led[c][p], inbox[c], p, value[p])
    BY <2>2, <2>4, <2>5
  <2> QED  BY <2>1, <2>6 DEF LedIsAnnounced
<1>8. ASSUME NEW d \in Viewer, OnMessage(d)
      PROVE  p \in due' \/ (telling' = p /\ said' = value'[p])
  <2> DEFINE msg == Head(inbox[d])
  <2>1. /\ UNCHANGED <<value, watched, viewers, due, telling, said, fresh>>
        /\ inbox[d] # <<>> /\ inbox' = [inbox EXCEPT ![d] = Tail(@)]
        /\ IF msg = Refused \/ msg.pin \notin Led
             THEN led' = led ELSE led' = [led EXCEPT ![d][msg.pin] = msg.val]
    BY <1>8 DEF OnMessage, JsSetLed, feedVars
  <2>2. c \in Viewer /\ inbox[c] \in Seq(Message) /\ Refused.pin # p
    BY <1>0, <2>1 DEF Refused
  <2>3. CASE d # c
    <3>1. led'[c] = led[c] /\ inbox'[c] = inbox[c]
      BY <2>1, <2>2, <2>3
    <3> QED  BY <2>1, <3>1 DEF LedIsAnnounced
  <2>4. CASE d = c
    <3>1. inbox'[c] = Tail(inbox[c])
      BY <2>1, <2>2, <2>4
    <3>2. led'[c][p] = IF msg.pin = p THEN msg.val ELSE led[c][p]
      <4> HIDE DEF msg
      <4>1. led[c] \in [Led -> Bit] /\ p \in Led
        BY <2>2
      <4>2. CASE msg = Refused \/ msg.pin \notin Led
        <5>1. led' = led
          BY <2>1, <4>2 DEF msg
        <5>2. msg.pin # p
          BY <2>2, <4>1, <4>2
        <5> QED  BY <5>1, <5>2
      <4>3. CASE msg # Refused /\ msg.pin \in Led /\ led' = [led EXCEPT ![d][msg.pin] = msg.val]
        <5>1. led'[c] = [led[c] EXCEPT ![msg.pin] = msg.val]
          BY <2>2, <2>4, <4>3
        <5> QED  BY <4>1, <5>1
      <4> QED  BY <2>1, <4>2, <4>3
    <3>3. ~ WillShow(led[c][p], inbox[c], p, value[p])
      BY <2>1, <2>2, <2>4, <3>1, <3>2, ShownAfterArrival
    <3> QED  BY <2>1, <3>3 DEF LedIsAnnounced
  <2> QED  BY <2>3, <2>4
<1>9. CASE (\E d \in Viewer, s \in Switch : Click(d, s)) \/ UNCHANGED <<feedVars, uiVars>>
  <2>1. UNCHANGED <<value, watched, viewers, due, telling, said, led, inbox, fresh>>
    BY <1>9 DEF Click, feedVars, uiVars
  <2> QED  BY <2>1 DEF LedIsAnnounced
<1> QED
  BY <1>1, <1>2, <1>3, <1>4, <1>5, <1>6, <1>7, <1>8, <1>9 DEF UiNext
-----------------------------------------------------------------------------
(* Switches                                                                 *)

LEMMA LastStep == UiTypeOK /\ LastInv /\ [UiNext]_<<feedVars, uiVars>> => LastInv'
<1> SUFFICES ASSUME UiTypeOK, LastInv, [UiNext]_<<feedVars, uiVars>> PROVE LastInv'
  OBVIOUS
<1>1. CASE ClosePages \/ BoardTells
  <2>1. last' = [s \in Switch |-> IF last[s] \in viewers' THEN last[s] ELSE None]
    BY <1>1 DEF ClosePages, BoardTells, Closed
  <2> QED  BY <2>1 DEF LastInv
<1>2. ASSUME NEW c \in Viewer, BoardTakes(c) PROVE LastInv'
  <2>1. viewers' = viewers /\ c \in viewers /\ \A s \in Switch : last'[s] \in {last[s], c}
    BY <1>2 DEF BoardTakes, feedVars, UiTypeOK
  <2> QED  BY <2>1 DEF LastInv
<1>3. CASE viewers \subseteq viewers' /\ last' = last
  BY <1>3 DEF LastInv
<1> QED
  BY <1>1, <1>2, <1>3
  DEF UiNext, OpenPage, Join, BoardRuns, Change, BoardRests, Watch, Drop, BoardReads,
      Read, OnMessage, Click, feedVars, uiVars

LEMMA SentStep == UiTypeOK /\ SentInv /\ [UiNext]_<<feedVars, uiVars>> => SentInv'
<1> SUFFICES ASSUME UiTypeOK, SentInv, [UiNext]_<<feedVars, uiVars>>,
                    NEW c \in Viewer, NEW s \in Switch,
                    NEW i \in DOMAIN outbox'[c], IsLastOn(outbox'[c], s, i)
             PROVE  outbox'[c][i].val = shown'[c][s]
  BY DEF SentInv
<1>0. /\ outbox \in [Viewer -> Seq([pin : Switch, val : Bit])]
      /\ shown \in [Viewer -> [Switch -> Bit]]
  BY DEF UiTypeOK
<1>1. CASE ClosePages \/ BoardTells
  <2>1. CASE c \in viewers'
    <3>1. outbox'[c] = outbox[c] /\ shown'[c] = shown[c]
      BY <1>1, <2>1, StayKeeps
    <3> QED  BY <3>1 DEF SentInv
  <2>2. CASE c \notin viewers'
    <3>1. outbox'[c] = <<>>
      BY <1>1, <2>2 DEF ClosePages, BoardTells, Closed
    <3> QED  BY <3>1
  <2> QED  BY <2>1, <2>2
<1>2. ASSUME NEW d \in Viewer, BoardTakes(d) PROVE outbox'[c][i].val = shown'[c][s]
  <2>1. /\ shown' = shown /\ outbox[d] # <<>>
        /\ outbox' = [outbox EXCEPT ![d] = Tail(@)]
    BY <1>2 DEF BoardTakes
  <2>2. CASE c # d
    <3>1. outbox'[c] = outbox[c]
      BY <1>0, <2>1, <2>2
    <3> QED  BY <2>1, <3>1 DEF SentInv
  <2>3. CASE c = d
    <3>1. outbox'[c] = Tail(outbox[c]) /\ outbox[c] # <<>>
      BY <1>0, <2>1, <2>3
    <3>2. /\ i + 1 \in DOMAIN outbox[c] /\ outbox'[c][i] = outbox[c][i + 1]
          /\ IsLastOn(outbox[c], s, i + 1)
      <4>1. outbox[c] \in Seq([pin : Switch, val : Bit])
        BY <1>0
      <4>2. \A j \in DOMAIN Tail(outbox[c]) : IsLastOn(Tail(outbox[c]), s, j) =>
               /\ j + 1 \in DOMAIN outbox[c] /\ Tail(outbox[c])[j] = outbox[c][j + 1]
               /\ IsLastOn(outbox[c], s, j + 1)
        BY <3>1, <4>1, LastLeft
      <4> QED  BY <3>1, <4>2
    <3> QED  BY <2>1, <3>2 DEF SentInv
  <2> QED  BY <2>2, <2>3
<1>3. ASSUME NEW d \in Viewer, NEW t \in Switch, Click(d, t)
      PROVE  outbox'[c][i].val = shown'[c][s]
  <2> DEFINE msg == [pin |-> t, val |-> 1 - shown[d][t]]
  <2>1. /\ shown' = [shown EXCEPT ![d][t] = 1 - @]
        /\ outbox' = [outbox EXCEPT ![d] = Append(@, msg)]
    BY <1>3 DEF Click
  <2>2. CASE c # d
    <3>1. outbox'[c] = outbox[c] /\ shown'[c] = shown[c]
      BY <1>0, <2>1, <2>2
    <3> QED  BY <3>1 DEF SentInv
  <2>3. CASE c = d
    <3>1. shown[c][t] \in Bit /\ 1 - shown[c][t] \in Bit
      BY <1>0 DEF Bit
    <3>2. msg \in [pin : Switch, val : Bit] /\ outbox[c] \in Seq([pin : Switch, val : Bit])
      BY <1>0, <2>3, <3>1
    <3>3. /\ msg.pin = t /\ msg.val = 1 - shown[c][t]
          /\ outbox'[c] = Append(outbox[c], msg)
          /\ shown'[c] = [shown[c] EXCEPT ![t] = 1 - shown[c][t]]
      BY <1>0, <2>1, <2>3
    <3> HIDE DEF msg
    <3>4. \/ msg.pin = s /\ outbox'[c][i] = msg
          \/ /\ msg.pin # s /\ i \in DOMAIN outbox[c]
             /\ outbox'[c][i] = outbox[c][i] /\ IsLastOn(outbox[c], s, i)
      <4>1. \A j \in DOMAIN Append(outbox[c], msg) : IsLastOn(Append(outbox[c], msg), s, j) =>
               \/ msg.pin = s /\ Append(outbox[c], msg)[j] = msg
               \/ /\ msg.pin # s /\ j \in DOMAIN outbox[c]
                  /\ Append(outbox[c], msg)[j] = outbox[c][j] /\ IsLastOn(outbox[c], s, j)
        BY <3>2, LastAdded
      <4> QED  BY <3>3, <4>1
    <3>5. shown'[c][s] = IF s = t THEN 1 - shown[c][t] ELSE shown[c][s]
      <4>1. shown[c] \in [Switch -> Bit]
        BY <1>0
      <4> QED  BY <3>3, <4>1
    <3> QED  BY <3>3, <3>4, <3>5 DEF SentInv
  <2> QED  BY <2>2, <2>3
<1>4. CASE UNCHANGED <<outbox, shown>>
  BY <1>4 DEF SentInv
<1> QED
  BY <1>1, <1>2, <1>3, <1>4
  DEF UiNext, OpenPage, BoardRuns, BoardRests, BoardReads, OnMessage, uiVars

LEMMA SwitchStep ==
  /\ UiTypeOK /\ LastInv /\ SentInv /\ SwitchOfLastIsRight
  /\ [UiNext]_<<feedVars, uiVars>>
  => SwitchOfLastIsRight'
<1> DEFINE Next(s) == IF asked[s] = None THEN value[s] ELSE asked[s]
<1> SUFFICES ASSUME UiTypeOK, LastInv, SentInv, SwitchOfLastIsRight,
                    [UiNext]_<<feedVars, uiVars>>,
                    NEW c \in viewers', NEW s \in Switch \cap Pin, last'[s] = c,
                    \A i \in DOMAIN outbox'[c] : outbox'[c][i].pin # s
             PROVE  shown'[c][s] = Next(s)'
  BY DEF SwitchOfLastIsRight
<1>0. /\ None \notin Bit /\ None \notin Viewer
      /\ viewers \subseteq Viewer /\ value \in [Pin -> Bit]
      /\ asked \in [Switch \cap Pin -> Bit \cup {None}]
      /\ outbox \in [Viewer -> Seq([pin : Switch, val : Bit])]
      /\ shown \in [Viewer -> [Switch -> Bit]]
      /\ last \in [Switch -> Viewer \cup {None}]
  BY NoneIsNoPin DEF UiTypeOK
<1>1. ASSUME NEW d \in Viewer, OpenPage(d) PROVE shown'[c][s] = Next(s)'
  <2>1. UNCHANGED <<value, shown, outbox, asked, last>> /\ viewers' = viewers \cup {d}
    BY <1>1 DEF OpenPage, Join
  <2>2. c \in viewers
    BY <1>0, <1>1, <2>1 DEF LastInv
  <2> QED  BY <2>1, <2>2 DEF SwitchOfLastIsRight
<1>2. CASE ClosePages \/ BoardTells
  <2>1. /\ UNCHANGED <<value, asked>> /\ c \in viewers
        /\ shown'[c] = shown[c] /\ outbox'[c] = outbox[c]
    BY <1>2, StayKeeps
  <2>2. last[s] = c
    BY <1>0, <1>2, <2>1 DEF ClosePages, BoardTells, Closed
  <2> QED  BY <2>1, <2>2 DEF SwitchOfLastIsRight
<1>3. CASE BoardRuns
  <2>1. /\ UNCHANGED <<viewers, shown, outbox, last>>
        /\ value'[s] = Next(s) /\ asked'[s] = None
    BY <1>3 DEF BoardRuns, Change
  <2> QED  BY <2>1 DEF SwitchOfLastIsRight
<1>4. ASSUME NEW d \in Viewer, BoardTakes(d) PROVE shown'[c][s] = Next(s)'
  <2> DEFINE msg == Head(outbox[d])
  <2>1. /\ UNCHANGED <<value, viewers, shown>> /\ d \in viewers /\ outbox[d] # <<>>
        /\ outbox' = [outbox EXCEPT ![d] = Tail(@)]
    BY <1>4 DEF BoardTakes, feedVars
  <2>2. CASE msg.pin = s
    <3>1. /\ asked' = [asked EXCEPT ![s] = msg.val] /\ last' = [last EXCEPT ![s] = d]
      BY <1>4, <2>2 DEF BoardTakes
    <3>2. c = d /\ asked'[s] = msg.val
      BY <1>0, <3>1
    <3>3. /\ outbox'[c] = Tail(outbox[c]) /\ outbox[c] # <<>>
          /\ outbox[c] \in Seq([pin : Switch, val : Bit])
      BY <1>0, <2>1, <3>2
    <3>4. /\ 1 \in DOMAIN outbox[c] /\ msg = outbox[c][1] /\ msg \in [pin : Switch, val : Bit]
          /\ \A i \in DOMAIN outbox[c] :
               i = 1 \/ (i - 1 \in DOMAIN outbox'[c] /\ outbox[c][i] = outbox'[c][i - 1])
      <4>1. /\ 1 \in DOMAIN outbox[c] /\ Head(outbox[c]) = outbox[c][1]
            /\ Head(outbox[c]) \in [pin : Switch, val : Bit]
            /\ \A i \in DOMAIN outbox[c] :
                 \/ i = 1
                 \/ /\ i - 1 \in DOMAIN Tail(outbox[c])
                    /\ outbox[c][i] = Tail(outbox[c])[i - 1]
        BY <3>3, LastLeft
      <4> QED  BY <3>2, <3>3, <4>1
    <3>5. IsLastOn(outbox[c], s, 1)
      BY <2>2, <3>4 DEF IsLastOn
    <3>6. msg.val = shown[c][s]
      <4>1. c \in Viewer /\ s \in Switch
        BY <3>2
      <4>2. outbox[c][1].val = shown[c][s]
        BY <3>4, <3>5, <4>1 DEF SentInv
      <4> QED  BY <3>4, <4>2
    <3>7. msg.val # None
      BY <1>0, <3>4
    <3> HIDE DEF msg
    <3> QED  BY <2>1, <3>2, <3>6, <3>7
  <2>3. CASE msg.pin # s
    <3> HIDE DEF msg
    <3>1. asked'[s] = asked[s] /\ last'[s] = last[s]
      <4>1. \/ UNCHANGED <<asked, last>>
            \/ /\ asked' = [asked EXCEPT ![msg.pin] = msg.val]
               /\ last' = [last EXCEPT ![msg.pin] = d]
        BY <1>4 DEF BoardTakes, msg
      <4> QED  BY <1>0, <2>3, <4>1
    <3>2. \A i \in DOMAIN outbox[c] : outbox[c][i].pin # s
      <4>1. CASE c # d
        BY <1>0, <2>1, <4>1
      <4>2. CASE c = d
        <5>1. /\ outbox'[c] = Tail(outbox[c]) /\ outbox[c] # <<>>
              /\ outbox[c] \in Seq([pin : Switch, val : Bit])
          BY <1>0, <2>1, <4>2
        <5>2. /\ msg = outbox[c][1]
              /\ \A i \in DOMAIN outbox[c] :
                   i = 1 \/ (i - 1 \in DOMAIN outbox'[c] /\ outbox[c][i] = outbox'[c][i - 1])
          BY <4>2, <5>1, LastLeft DEF msg
        <5> QED  BY <2>3, <5>2
      <4> QED  BY <4>1, <4>2
    <3> QED  BY <2>1, <3>1, <3>2 DEF SwitchOfLastIsRight
  <2> QED  BY <2>2, <2>3
<1>5. ASSUME NEW d \in Viewer, NEW t \in Switch, Click(d, t)
      PROVE  shown'[c][s] = Next(s)'
  <2> DEFINE msg == [pin |-> t, val |-> 1 - shown[d][t]]
  <2>1. /\ UNCHANGED <<value, viewers, asked, last>>
        /\ shown' = [shown EXCEPT ![d][t] = 1 - @]
        /\ outbox' = [outbox EXCEPT ![d] = Append(@, msg)]
    BY <1>5 DEF Click, feedVars
  <2>2. CASE c # d
    <3>1. outbox'[c] = outbox[c] /\ shown'[c] = shown[c]
      BY <1>0, <2>1, <2>2
    <3> QED  BY <2>1, <3>1 DEF SwitchOfLastIsRight
  <2>3. CASE c = d
    <3>1. shown[c][t] \in Bit /\ 1 - shown[c][t] \in Bit
      BY <1>0, <2>3 DEF Bit
    <3>2. msg \in [pin : Switch, val : Bit] /\ outbox[c] \in Seq([pin : Switch, val : Bit])
      BY <1>0, <2>3, <3>1
    <3>3. /\ outbox'[c] = Append(outbox[c], msg)
          /\ shown'[c] = [shown[c] EXCEPT ![t] = 1 - shown[c][t]] /\ msg.pin = t
      BY <1>0, <2>1, <2>3
    <3> HIDE DEF msg
    <3>4. /\ Len(outbox[c]) + 1 \in DOMAIN outbox'[c]
          /\ outbox'[c][Len(outbox[c]) + 1] = msg
          /\ \A i \in DOMAIN outbox[c] : i \in DOMAIN outbox'[c] /\ outbox'[c][i] = outbox[c][i]
      BY <3>2, <3>3, AppendProperties
    <3>5. t # s
      BY <3>3, <3>4
    <3>6. shown'[c][s] = shown[c][s]
      <4>1. shown[c] \in [Switch -> Bit]
        BY <1>0, <2>3
      <4> QED  BY <3>3, <3>5, <4>1
    <3> QED  BY <2>1, <3>4, <3>6 DEF SwitchOfLastIsRight
  <2> QED  BY <2>2, <2>3
<1>6. CASE UNCHANGED <<value, viewers, shown, outbox, asked, last>>
  BY <1>6 DEF SwitchOfLastIsRight
<1> QED
  BY <1>1, <1>2, <1>3, <1>4, <1>5, <1>6
  DEF UiNext, BoardRests, Watch, Drop, BoardReads, Read, OnMessage, feedVars, uiVars
-----------------------------------------------------------------------------
(* The theorems                                                             *)

LEMMA UiInitInv == UiInit => UiInv
<1> SUFFICES ASSUME UiInit PROVE UiInv
  OBVIOUS
<1> USE DEF UiInit, FeedInit
<1>1. WatchInv /\ TellInv /\ FreshInv /\ LedIsAnnounced /\ SwitchOfLastIsRight
  BY DEF WatchInv, TellInv, FreshInv, LedIsAnnounced, SwitchOfLastIsRight
<1>2. LastInv /\ SentInv
  BY DEF LastInv, SentInv
<1> QED  BY <1>1, <1>2, UiTypeInit DEF UiInv

\* The inductive invariant of the pages and what is under way.
LEMMA UiInvariant == UiSpec => []UiInv
<1>1. UiInv /\ [UiNext]_<<feedVars, uiVars>> => UiInv'
  BY UiTypeStep, WatchStep, TellStep, FreshStep, AnnouncedStep, LastStep, SentStep,
     SwitchStep DEF UiInv
<1> QED
  BY UiInitInv, <1>1, PTL DEF UiSpec

\* Leds, switches and messages keep their types.
THEOREM UiTypeCorrect == UiSpec => []UiTypeOK
<1>1. UiInv => UiTypeOK
  BY DEF UiInv
<1> QED
  BY UiInvariant, <1>1, PTL

\* For any number of pages and leds: a led that will not come to show a pin that
\* has changed since the page was opened is about to be told.
THEOREM LedsAreAnnounced == UiSpec => []LedIsAnnounced
<1>1. UiInv => LedIsAnnounced
  BY DEF UiInv
<1> QED
  BY UiInvariant, <1>1, PTL

\* For any number of pages, switches and clicks under way: the switch of the
\* page that was the last to change a pin shows what the pin is or takes next.
THEOREM SwitchesOfLastAreRight == UiSpec => []SwitchOfLastIsRight
<1>1. UiInv => SwitchOfLastIsRight
  BY DEF UiInv
<1> QED
  BY UiInvariant, <1>1, PTL

\* What the pages do with the board is no more than the feed allows: they join,
\* leave and are told, and their clicks change pins as the design does.  So the
\* feed that VirtualBoard implements is the one that the pages rely on.
THEOREM PagesUseTheFeed == UiSpec => FeedSpec
<1>1. UiInit => FeedInit
  BY DEF UiInit
<1>2. [UiNext]_<<feedVars, uiVars>> => [FeedNext]_feedVars
  <2> SUFFICES ASSUME [UiNext]_<<feedVars, uiVars>> PROVE [FeedNext]_feedVars
    OBVIOUS
  <2> USE DEF FeedNext
  <2>1. ASSUME NEW c \in Viewer, OpenPage(c) PROVE FeedNext
    BY <2>1 DEF OpenPage
  <2>2. CASE ClosePages \/ BoardRuns \/ BoardRests \/ BoardTells
    BY <2>2 DEF ClosePages, BoardRuns, BoardRests, BoardTells
  <2>3. ASSUME NEW p \in Pin, BoardReads(p) PROVE FeedNext
    BY <2>3 DEF BoardReads
  <2>4. ASSUME NEW c \in Viewer,
               BoardTakes(c) \/ OnMessage(c) \/ \E s \in Switch : Click(c, s)
        PROVE  UNCHANGED feedVars
    BY <2>4 DEF BoardTakes, OnMessage, Click
  <2>5. CASE UNCHANGED <<feedVars, uiVars>>
    BY <2>5
  <2> QED  BY <2>1, <2>2, <2>3, <2>4, <2>5 DEF UiNext
<1> QED  BY <1>1, <1>2, PTL DEF UiSpec, FeedSpec
=============================================================================
