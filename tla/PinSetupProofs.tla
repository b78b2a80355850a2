--------------------------- MODULE PinSetupProofs ---------------------------
(***************************************************************************)
(* Whatever board.json, assignments.cfg and the top entity hold, the pin   *)
(* set the board runs with is sound and complete.                          *)
(***************************************************************************)
EXTENDS PinSetup, SequenceTheorems, TLAPS

\* What the loop over the assignments has established: the ones before asg,
\* or all once it ended, are pins of the board and leave the UsbPort alone.
GoodLine(a) == /\ PinExists(config[a].pin)
               /\ config[a].signal \notin {InPort, OutPort}

CheckInv ==
  /\ at \in {"check", "scan", "link", "init", "running"} =>
       config \in Seq(Assignment)
  /\ at = "check" => /\ pins = <<>>
                     /\ \A a \in DOMAIN config : a < asg => GoodLine(a)
  /\ at \in {"scan", "link", "init", "running"} =>
       \A a \in DOMAIN config : GoodLine(a)
  /\ at = "board" => pins = <<>>
  /\ at = "link" => net \in DOMAIN top /\ IsPort(net)

\* What the loop over the nets has linked so far.
LinkInv ==
  \A a \in DOMAIN config, n \in DOMAIN top :
    IsPort(n) /\ config[a].signal = top[n].name =>
      /\ at \in {"scan", "link"} /\ n < net => LinkedTo(a, n)
      /\ at = "link" /\ n = net /\ a < asg => LinkedTo(a, n)
      /\ at \in {"init", "running"} => LinkedTo(a, n)

SetupInv == SetupTypeOK /\ CheckInv /\ LinkInv /\ PinSetIsSound
-----------------------------------------------------------------------------
LEMMA SectionLength == Len(Section) = 4 /\ DOMAIN Section = 1 .. 4
  BY DEF Section

LEMMA InitSetupInv == SetupInit => SetupInv
<1> SUFFICES ASSUME SetupInit PROVE SetupInv
  OBVIOUS
<1>1. SetupTypeOK
  <2>1. InputOK(board, config, top)
    BY InputAssumption DEF SetupInit
  <2>2. boardPins \in Seq(BoardPin)
    BY EmptySeq DEF SetupInit
  <2>3. pins \in Seq(PinRecord) /\ Len(pins) = 0
    BY EmptySeq DEF SetupInit
  <2>4. section \in 1 .. Len(Section) + 1
    BY SectionLength DEF SetupInit
  <2>5. warned \in BOOLEAN /\ http \in BOOLEAN
    BY DEF SetupInit
  <2> QED  BY <2>1, <2>2, <2>3, <2>4, <2>5 DEF SetupInit, SetupTypeOK
<1>2. CheckInv /\ LinkInv /\ PinSetIsSound
  BY DEF SetupInit, CheckInv, LinkInv, PinSetIsSound
<1> QED  BY <1>1, <1>2 DEF SetupInv

\* The inputs never change, so only the pins read and linked matter.
LEMMA InputsKept == SetupInv /\ [SetupNext]_setupVars => UNCHANGED inputs
  BY DEF SetupNext, ReadSection, ParseAssignments, CheckAssignment,
         GetPinsSignals, ScanNet, LinkPin, PassAssignment, NextNet,
         CompareTotals, CbInit, Stopped, setupVars, inputs

LEMMA TypeStep == SetupInv /\ [SetupNext]_setupVars => SetupTypeOK'
<1> SUFFICES ASSUME SetupInv, [SetupNext]_setupVars PROVE SetupTypeOK'
  OBVIOUS
<1> USE DEF SetupInv, SetupTypeOK
<1>0. InputOK(board, config, top)'
  BY InputsKept DEF inputs, InputOK
<1>1. CASE ReadSection
  <2>1. section \in DOMAIN Section
    BY <1>1, SectionLength DEF ReadSection
  <2>2. CASE board[Section[section]] = Absent
    BY <1>0, <1>1, <2>2 DEF ReadSection, Exit
  <2>3. CASE board[Section[section]] # Absent
    <3>1. board[Section[section]] \in Seq(BoardPin)
      BY <2>1, <2>3 DEF InputOK
    <3>2. boardPins' \in Seq(BoardPin)
      <4>1. boardPins \o board[Section[section]] \in Seq(BoardPin)
        BY <3>1, ConcatProperties
      <4> QED  BY <1>1, <2>3, <4>1 DEF ReadSection
    <3> QED  BY <1>0, <1>1, <2>1, <2>3, <3>2, SectionLength DEF ReadSection
  <2> QED  BY <2>2, <2>3
<1>2. CASE ParseAssignments
  BY <1>0, <1>2 DEF ParseAssignments, Exit, inputs
<1>3. CASE CheckAssignment
  BY <1>0, <1>3 DEF CheckAssignment, Exit, inputs
<1>4. CASE GetPinsSignals \/ ScanNet \/ PassAssignment \/ NextNet
  BY <1>0, <1>4 DEF GetPinsSignals, ScanNet, PassAssignment, NextNet, inputs
<1>5. CASE LinkPin
  <2>1. config[asg] \in Assignment
    BY <1>5 DEF LinkPin, CheckInv
  <2>2. NewPin \in PinRecord
    BY <2>1 DEF NewPin, Assignment, PinRecord
  <2>3. CASE Exit /\ UNCHANGED <<asg, pins, found>>
    BY <1>0, <1>5, <2>3 DEF LinkPin, Exit
  <2>4. CASE /\ pins' = Append(pins, NewPin) /\ found' = found + 1
             /\ asg' = asg + 1 /\ UNCHANGED at
    <3>1. /\ pins' \in Seq(PinRecord)
          /\ Len(pins') = Len(pins) + 1
      BY <2>2, <2>4
    <3> QED  BY <1>0, <1>5, <2>4, <3>1 DEF LinkPin
  <2> QED  BY <1>5, <2>3, <2>4 DEF LinkPin
<1>6. CASE CompareTotals \/ CbInit \/ Stopped \/ UNCHANGED setupVars
  BY <1>0, <1>6 DEF CompareTotals, CbInit, Stopped, setupVars, Exit, inputs
<1> QED
  BY <1>1, <1>2, <1>3, <1>4, <1>5, <1>6 DEF SetupNext

LEMMA CheckStep == SetupInv /\ [SetupNext]_setupVars => CheckInv'
<1> SUFFICES ASSUME SetupInv, [SetupNext]_setupVars PROVE CheckInv'
  OBVIOUS
<1> USE DEF SetupInv, SetupTypeOK, CheckInv
<1>0. UNCHANGED <<board, config, top>>
  BY InputsKept DEF inputs
<1>1. CASE ReadSection
  BY <1>0, <1>1 DEF ReadSection, Exit
<1>2. CASE ParseAssignments
  <2>1. CASE config = Absent
    BY <1>2, <2>1 DEF ParseAssignments, Exit
  <2>2. CASE config # Absent
    <3>1. config \in Seq(Assignment) /\ \A a \in DOMAIN config : ~ (a < 1)
      BY <2>2 DEF InputOK
    <3> QED  BY <1>0, <1>2, <2>2, <3>1 DEF ParseAssignments
  <2> QED  BY <2>1, <2>2
<1>3. CASE CheckAssignment
  BY <1>0, <1>3 DEF CheckAssignment, Exit, GoodLine, PinExists
<1>4. CASE GetPinsSignals
  <2>1. \A a \in DOMAIN config : GoodLine(a)
    <3>1. config \in Seq(Assignment) /\ asg > Len(config) /\ at = "check"
      BY <1>4 DEF GetPinsSignals
    <3>2. \A a \in DOMAIN config : a < asg
      BY <3>1
    <3> QED  BY <3>1, <3>2
  <2> QED  BY <1>0, <1>4, <2>1 DEF GetPinsSignals, GoodLine, PinExists
<1>7. CASE ScanNet
  <2>1. at = "scan" /\ at' \in {"scan", "link"} /\ UNCHANGED boardPins
    BY <1>7 DEF ScanNet
  <2>2. at' = "link" => net' \in DOMAIN top /\ IsPort(net')
    BY <1>7, <2>1 DEF ScanNet, InputOK
  <2> QED  BY <1>0, <2>1, <2>2 DEF GoodLine, PinExists, IsPort
<1>8. CASE PassAssignment \/ NextNet
  <2>1. /\ at = "link" /\ at' \in {"scan", "link"} /\ UNCHANGED boardPins
        /\ at' = "link" => net' = net
    BY <1>8 DEF PassAssignment, NextNet
  <2> QED  BY <1>0, <2>1 DEF GoodLine, PinExists, IsPort
<1>5. CASE LinkPin
  <2>1. at = "link" /\ at' \in {"link", "exit"} /\ UNCHANGED <<net, boardPins>>
    BY <1>5 DEF LinkPin, Exit
  <2> QED  BY <1>0, <2>1 DEF GoodLine, PinExists, IsPort
<1>6. CASE CompareTotals \/ CbInit
  <2>1. at \in {"scan", "init"} /\ at' \in {"init", "running", "exit"} /\ UNCHANGED boardPins
    BY <1>6 DEF CompareTotals, CbInit, Exit
  <2> QED  BY <1>0, <2>1 DEF GoodLine, PinExists
<1>9. CASE Stopped \/ UNCHANGED setupVars
  BY <1>9 DEF Stopped, setupVars, GoodLine, PinExists, IsPort
<1> QED
  BY <1>1, <1>2, <1>3, <1>4, <1>5, <1>6, <1>7, <1>8, <1>9 DEF SetupNext

\* Pins are only added, and by LinkPin alone.
LEMMA PinsGrow ==
  ASSUME SetupInv, [SetupNext]_setupVars
  PROVE  /\ \/ pins' = pins
            \/ /\ LinkPin /\ pins' = Append(pins, NewPin)
               /\ ~ Linked(NewPin) /\ config[asg].index < top[net].width
         /\ \A a \in DOMAIN config, n \in DOMAIN top :
              LinkedTo(a, n) => LinkedTo(a, n)'
<1>1. \/ pins' = pins
      \/ /\ LinkPin /\ pins' = Append(pins, NewPin)
         /\ ~ Linked(NewPin) /\ config[asg].index < top[net].width
  <2>1. CASE LinkPin
    <3>1. config \in Seq(Assignment) /\ net \in DOMAIN top /\ top \in Seq(NetInfo)
      BY <2>1 DEF LinkPin, SetupInv, CheckInv, SetupTypeOK, InputOK
    <3>2. config[asg] \in Assignment /\ top[net] \in NetInfo
      BY <2>1, <3>1 DEF LinkPin, SetupInv, SetupTypeOK
    <3>3. config[asg].index \in Nat /\ top[net].width \in Nat
      BY <3>2 DEF Assignment, NetInfo
    <3> QED  BY <2>1, <3>3 DEF LinkPin
  <2>2. CASE ~ LinkPin
    BY <2>2 DEF SetupNext, ReadSection, ParseAssignments, CheckAssignment,
         GetPinsSignals, ScanNet, PassAssignment, NextNet, CompareTotals, CbInit,
         Stopped, setupVars
  <2> QED  BY <2>1, <2>2
<1>2. pins \in Seq(PinRecord)
  BY DEF SetupInv, SetupTypeOK
<1>3. DOMAIN pins \subseteq DOMAIN pins' /\ \A k \in DOMAIN pins : pins'[k] = pins[k]
  <2>1. DOMAIN pins = 1 .. Len(pins) /\ Len(pins) \in Nat
    BY <1>2
  <2>2. CASE pins' = Append(pins, NewPin)
    BY <2>1, <2>2
  <2> QED  BY <1>1, <2>2
<1>4. config' = config
  BY InputsKept DEF inputs
<1> QED
  BY <1>1, <1>3, <1>4 DEF LinkedTo

LEMMA LinkStep == SetupInv /\ [SetupNext]_setupVars => LinkInv'
<1> SUFFICES ASSUME SetupInv, [SetupNext]_setupVars,
                    NEW a \in DOMAIN config, NEW n \in DOMAIN top,
                    IsPort(n), config[a].signal = top[n].name
             PROVE  /\ at' \in {"scan", "link"} /\ n < net' => LinkedTo(a, n)'
                    /\ at' = "link" /\ n = net' /\ a < asg' => LinkedTo(a, n)'
                    /\ at' \in {"init", "running"} => LinkedTo(a, n)'
  BY InputsKept DEF inputs, LinkInv, IsPort
<1> USE DEF SetupInv, SetupTypeOK, CheckInv
<1>0. LinkedTo(a, n) => LinkedTo(a, n)'
  BY PinsGrow
<1>i. /\ at \in {"scan", "link"} /\ n < net => LinkedTo(a, n)
      /\ at = "link" /\ n = net /\ a < asg => LinkedTo(a, n)
      /\ at \in {"init", "running"} => LinkedTo(a, n)
  BY DEF LinkInv
<1>t. /\ n \in Nat \ {0} /\ net \in Nat \ {0} /\ asg \in Nat \ {0}
      /\ top \in Seq(NetInfo) /\ n <= Len(top)
      /\ at \notin {"board", "exit"} =>
           a \in Nat \ {0} /\ a <= Len(config) /\ config \in Seq(Assignment)
  BY DEF InputOK
<1>1. CASE ReadSection \/ ParseAssignments \/ CheckAssignment
  <2>1. at' \in {"board", "check", "exit"}
    BY <1>1 DEF ReadSection, ParseAssignments, CheckAssignment, Exit
  <2> QED  BY <2>1
<1>2. CASE GetPinsSignals
  BY <1>2, <1>t DEF GetPinsSignals
<1>3. CASE ScanNet
  BY <1>0, <1>i, <1>t, <1>3 DEF ScanNet
<1>4. CASE LinkPin
  <2>1. CASE n = net /\ a = asg /\ at' = "link"
    <3>1. pins' = Append(pins, NewPin) /\ UNCHANGED <<config, top>>
      BY <1>4, <2>1 DEF LinkPin, Exit, inputs
    <3>2. pins'[Len(pins) + 1] = NewPin /\ Len(pins) + 1 \in DOMAIN pins'
      BY <3>1
    <3>3. LinkedTo(a, n)'
      BY <2>1, <3>1, <3>2 DEF LinkedTo, NewPin
    <3> QED  BY <3>3
  <2>2. CASE ~ (n = net /\ a = asg) /\ at' = "link"
    BY <1>0, <1>i, <1>t, <1>4, <2>2 DEF LinkPin, Exit
  <2>3. CASE at' = "exit"
    BY <2>3
  <2> QED  BY <1>4, <2>1, <2>2, <2>3 DEF LinkPin, Exit
<1>5. CASE PassAssignment
  BY <1>0, <1>i, <1>t, <1>5 DEF PassAssignment
<1>6. CASE NextNet
  BY <1>0, <1>i, <1>t, <1>6 DEF NextNet
<1>7. CASE CompareTotals
  BY <1>0, <1>i, <1>t, <1>7 DEF CompareTotals
<1>8. CASE CbInit \/ Stopped \/ UNCHANGED setupVars
  BY <1>0, <1>i, <1>8 DEF CbInit, Stopped, setupVars, Exit
<1> QED
  BY <1>1, <1>2, <1>3, <1>4, <1>5, <1>6, <1>7, <1>8 DEF SetupNext

LEMMA SoundStep == SetupInv /\ [SetupNext]_setupVars => PinSetIsSound'
<1> SUFFICES ASSUME SetupInv, [SetupNext]_setupVars PROVE PinSetIsSound'
  OBVIOUS
<1>0. UNCHANGED <<config, top>>
  BY InputsKept DEF inputs
<1>1. \A l \in Label : PinExists(l) => PinExists(l)'
  <2>1. boardPins \in Seq(BoardPin) /\ InputOK(board, config, top)
    BY DEF SetupInv, SetupTypeOK
  <2>2. CASE ReadSection
    BY <2>1, <2>2 DEF ReadSection, InputOK, PinExists
  <2>3. CASE ~ ReadSection
    BY <2>3 DEF SetupNext, ParseAssignments, CheckAssignment, GetPinsSignals,
         ScanNet, LinkPin, PassAssignment, NextNet, CompareTotals, CbInit,
         Stopped, setupVars, PinExists
  <2> QED  BY <2>2, <2>3
<1>2. pins \in Seq(PinRecord)
  BY DEF SetupInv, SetupTypeOK
<1>3. CASE pins' = pins
  <2>1. \A k \in DOMAIN pins : pins[k].id \in Label
    <3>1. \A k \in DOMAIN pins : pins[k] \in PinRecord
      BY <1>2, ElementOfSeq, LenProperties
    <3> QED  BY <3>1 DEF PinRecord
  <2>2. \A k \in DOMAIN pins : PinExists(pins[k].id)'
    BY <1>1, <1>3, <2>1 DEF SetupInv, PinSetIsSound
  <2> QED  BY <1>0, <1>3, <2>2 DEF SetupInv, PinSetIsSound, IsPort
<1>4. CASE LinkPin /\ pins' = Append(pins, NewPin) /\ ~ Linked(NewPin)
           /\ config[asg].index < top[net].width
  <2>1. /\ NewPin.net \in DOMAIN top /\ IsPort(NewPin.net)
        /\ NewPin.index < top[NewPin.net].width
        /\ top[NewPin.net].name \notin {InPort, OutPort}
        /\ PinExists(NewPin.id)
    <3>1. asg \in DOMAIN config /\ config[asg].signal = top[net].name
      BY <1>4 DEF LinkPin, SetupInv, SetupTypeOK, CheckInv
    <3>2. GoodLine(asg) /\ net \in DOMAIN top /\ IsPort(net)
      BY <1>4, <3>1 DEF LinkPin, SetupInv, CheckInv
    <3> QED  BY <1>4, <3>1, <3>2 DEF NewPin, GoodLine
  <2>2. boardPins' = boardPins
    BY <1>4 DEF LinkPin
  <2>3. \A k \in DOMAIN pins' :
          \/ k \in DOMAIN pins /\ pins'[k] = pins[k]
          \/ k = Len(pins) + 1 /\ pins'[k] = NewPin
    BY <1>2, <1>4
  <2>4. \A k \in DOMAIN pins : pins[k].id # NewPin.id
    BY <1>4 DEF Linked
  <2> QED
    BY <1>0, <1>2, <2>1, <2>2, <2>3, <2>4
    DEF SetupInv, PinSetIsSound, IsPort, PinExists
<1> QED
  BY <1>3, <1>4, PinsGrow
-----------------------------------------------------------------------------
\* The inductive invariant of start-up.
THEOREM SetupInvariant == SetupSpec => []SetupInv
<1>1. SetupInv /\ [SetupNext]_setupVars => SetupInv'
  BY TypeStep, CheckStep, LinkStep, SoundStep DEF SetupInv
<1> QED
  BY InitSetupInv, <1>1, PTL DEF SetupSpec

\* Whatever the inputs, the variables of start-up keep their types.
THEOREM SetupTypeCorrect == SetupSpec => []SetupTypeOK
<1>1. SetupInv => SetupTypeOK
  BY DEF SetupInv
<1> QED
  BY SetupInvariant, <1>1, PTL

\* get_pins_signals() only ever links bits that exist, under ids of the board
\* that are used once, and leaves the UsbPort signals to the HTTP server.
THEOREM PinSetSoundness == SetupSpec => []PinSetIsSound
<1>1. SetupInv => PinSetIsSound
  BY DEF SetupInv
<1> QED
  BY SetupInvariant, <1>1, PTL

\* A board that runs has a pin for every assignment to one of its ports.
THEOREM PinSetCompleteness == SetupSpec => []PinSetIsComplete
<1>1. SetupInv => PinSetIsComplete
  BY DEF SetupInv, LinkInv, PinSetIsComplete
<1> QED
  BY SetupInvariant, <1>1, PTL

-----------------------------------------------------------------------------
(* The board that starts to run, in the terms of VirtualBoard               *)

PortWidth == [n \in DOMAIN top |-> top[n].width]
PinPort   == [k \in DOMAIN pins |-> pins[k].net]
PinBit    == [k \in DOMAIN pins |-> pins[k].index]

\* What VirtualBoard assumes of its pins and nets is what start-up has made
\* sure of: each pin is a bit of a net, and no index leaves its net.
IsABoard ==
  /\ PortWidth \in [DOMAIN top -> Nat \ {0}]
  /\ PinPort \in [DOMAIN pins -> DOMAIN top] /\ PinBit \in [DOMAIN pins -> Nat]
  /\ \A k \in DOMAIN pins : PinBit[k] < PortWidth[PinPort[k]]

\* A simulation that goes on after cb_init() has a board as VirtualBoard takes
\* it for granted.
THEOREM SetupMakesABoard == SetupSpec => [](at = "running" => IsABoard)
<1>1. SetupInv => IsABoard
  <2> SUFFICES ASSUME SetupInv PROVE IsABoard
    OBVIOUS
  <2>1. pins \in Seq(PinRecord) /\ top \in Seq(NetInfo) /\ PinSetIsSound
    BY DEF SetupInv, SetupTypeOK, InputOK
  <2>2. \A n \in DOMAIN top : top[n].width \in Nat \ {0}
    <3> TAKE n \in DOMAIN top
    <3>1. top[n] \in NetInfo
      BY <2>1
    <3> QED  BY <3>1 DEF NetInfo
  <2>4. \A k \in DOMAIN pins : pins[k].index \in Nat
    <3> TAKE k \in DOMAIN pins
    <3>1. pins[k] \in PinRecord
      BY <2>1
    <3> QED  BY <3>1 DEF PinRecord
  <2>3. \A k \in DOMAIN pins : /\ pins[k].net \in DOMAIN top
                               /\ pins[k].index < top[pins[k].net].width
    BY <2>1 DEF PinSetIsSound
  <2> QED  BY <2>2, <2>3, <2>4 DEF IsABoard, PortWidth, PinPort, PinBit
<1> QED
  BY SetupInvariant, <1>1, PTL
=============================================================================
