------------------------------ MODULE PinSetup ------------------------------
(***************************************************************************)
(* The start of the plug-in, up to the running board: cb_simulation_start  *)
(* reads board.json, checks the pin assignments against it and links them  *)
(* to the nets of the top entity; cb_init opens the servers.               *)
(*                                                                         *)
(* The three inputs stay as they are: the pins of each section of          *)
(* board.json, the assignments parsed from assignments.cfg, and the nets   *)
(* of the top entity in the order vpi_scan() yields them.                  *)
(***************************************************************************)
EXTENDS Naturals, Sequences

CONSTANTS Label,      \* pin ids and pin names
          Signal,     \* names of signals
          InPort, OutPort,      \* inputport_sw and outputport_sw
          Absent,     \* a file or a section that is not there or does not parse
          Boards, Configs, Tops  \* the inputs to consider

Section == <<"leds", "switches", "buttons", "otherPins">>
BoardPin   == [id : Label, name : Label]
Assignment == [pin : Label, signal : Signal, index : Nat]
PinRecord  == [id : Label, net : Nat \ {0}, index : Nat]
NetInfo    == [name : Signal, width : Nat \ {0}, dir : {"in", "out", "other"}]

InputOK(b, c, t) ==
  /\ \A s \in DOMAIN Section :
       b[Section[s]] = Absent \/ b[Section[s]] \in Seq(BoardPin)
  /\ c = Absent \/ c \in Seq(Assignment)
  /\ t \in Seq(NetInfo)

ASSUME InputAssumption ==
  \A b \in Boards, c \in Configs, t \in Tops : InputOK(b, c, t)

VARIABLES
  board, config, top,  \* the inputs
  at,       \* where start-up is
  section,  \* the next section to read
  boardPins,\* board_pins: what was read from board.json
  asg,      \* the next assignment to check, or to link to the net
  net,      \* the next net of the top entity
  pins,     \* pin_set::pins; net is the position of the net in top
  found, total,  \* total_pins_found, total_signals
  warned,   \* the warning that some signals have no pin was printed
  http      \* the HTTP server was opened

inputs == <<board, config, top>>
setupVars == <<board, config, top, at, section, boardPins, asg, net, pins,
               found, total, warned, http>>

\* board_config::pin_exists(): by id or by name.
PinExists(label) ==
  \E i \in DOMAIN boardPins : label \in {boardPins[i].id, boardPins[i].name}

IsPort(n) == top[n].dir # "other"
InTop(signal) == \E n \in DOMAIN top : top[n].name = signal
Exit == at' = "exit"
-----------------------------------------------------------------------------
\* add_pins_to_list(): data.at() throws when the section is missing.
ReadSection ==
  /\ at = "board" /\ section <= Len(Section)
  /\ IF board[Section[section]] = Absent
       THEN Exit /\ UNCHANGED <<section, boardPins>>
       ELSE /\ boardPins' = boardPins \o board[Section[section]]
            /\ section' = section + 1
            /\ UNCHANGED at
  /\ UNCHANGED <<inputs, asg, net, pins, found, total, warned, http>>

\* assignments.cfg is opened, lexed and parsed; parse() exits on an error.
ParseAssignments ==
  /\ at = "board" /\ section > Len(Section)
  /\ IF config = Absent THEN Exit /\ UNCHANGED asg
                        ELSE at' = "check" /\ asg' = 1
  /\ UNCHANGED <<inputs, section, boardPins, net, pins, found, total, warned, http>>

\* One round of the loop that checks if the assignments are valid.
CheckAssignment ==
  /\ at = "check" /\ asg <= Len(config)
  /\ IF PinExists(config[asg].pin) /\ config[asg].signal \notin {InPort, OutPort}
       THEN asg' = asg + 1 /\ UNCHANGED at
       ELSE Exit /\ UNCHANGED asg
  /\ UNCHANGED <<inputs, section, boardPins, net, pins, found, total, warned, http>>

\* get_pins_signals(): returns early, without a warning, from a top entity
\* that has no nets.
GetPinsSignals ==
  /\ at = "check" /\ asg > Len(config)
  /\ at' = IF top = <<>> THEN "init" ELSE "scan"
  /\ net' = 1
  /\ UNCHANGED <<inputs, section, boardPins, asg, pins, found, total, warned, http>>

\* vpi_scan(): internal signals are passed over, a port is linked.
ScanNet ==
  /\ at = "scan" /\ net <= Len(top)
  /\ IF IsPort(net)
       THEN at' = "link" /\ asg' = 1 /\ total' = total + 1 /\ UNCHANGED net
       ELSE net' = net + 1 /\ UNCHANGED <<at, asg, total>>
  /\ UNCHANGED <<inputs, section, boardPins, pins, found, warned, http>>

\* Mutant: the fields of the assignment are swapped.
NewPinSwapped ==
  [id |-> config[asg].signal, net |-> net, index |-> config[asg].index]

\* The pin an assignment makes with the net being linked.
NewPin == [id |-> config[asg].pin, net |-> net, index |-> config[asg].index]

\* Mutant: a pin is new unless its net is the same as well.
LinkedToNet(p) == \E k \in DOMAIN pins : pins[k].id = p.id /\ pins[k].net = p.net

\* pin_set::pin_exists(pin): by id alone.
Linked(p) == \E k \in DOMAIN pins : pins[k].id = p.id

\* get_pin(pin_info), which serves the CHANGE commands: the first pin that has
\* this id or whose net has this name, 0 for none.
GetPin(info) ==
  LET fitting == {k \in DOMAIN pins : info \in {pins[k].id, top[pins[k].net].name}}
  IN  IF fitting = {} THEN 0
      ELSE CHOOSE k \in fitting : \A j \in fitting : k <= j

\* Mutant: an index equal to the width is let through.
LinkPinOffByOne ==
  /\ at = "link" /\ asg <= Len(config) /\ config[asg].signal = top[net].name
  /\ IF config[asg].index > top[net].width \/ Linked(NewPin)
       THEN Exit /\ UNCHANGED <<asg, pins, found>>
       ELSE /\ pins' = Append(pins, NewPin)
            /\ found' = found + 1 /\ asg' = asg + 1
            /\ UNCHANGED at
  /\ UNCHANGED <<inputs, section, boardPins, net, total, warned, http>>

\* An assignment to the net: the index must fit and the pin be free.
LinkPin ==
  /\ at = "link" /\ asg <= Len(config) /\ config[asg].signal = top[net].name
  /\ IF config[asg].index >= top[net].width \/ Linked(NewPin)
       THEN Exit /\ UNCHANGED <<asg, pins, found>>
       ELSE /\ pins' = Append(pins, NewPin)
            /\ found' = found + 1 /\ asg' = asg + 1
            /\ UNCHANGED at
  /\ UNCHANGED <<inputs, section, boardPins, net, total, warned, http>>

\* An assignment to another net.
PassAssignment ==
  /\ at = "link" /\ asg <= Len(config) /\ config[asg].signal # top[net].name
  /\ asg' = asg + 1
  /\ UNCHANGED <<inputs, at, section, boardPins, net, pins, found, total, warned, http>>

\* Mutant: the loop over the assignments ends one too early.
NextNetEarly ==
  /\ at = "link" /\ asg >= Len(config)
  /\ at' = "scan" /\ net' = net + 1
  /\ UNCHANGED <<inputs, section, boardPins, asg, pins, found, total, warned, http>>

NextNet ==
  /\ at = "link" /\ asg > Len(config)
  /\ at' = "scan" /\ net' = net + 1
  /\ UNCHANGED <<inputs, section, boardPins, asg, pins, found, total, warned, http>>

\* All nets were scanned: the warning that signals are left without a pin.
CompareTotals ==
  /\ at = "scan" /\ net > Len(top)
  /\ warned' = (found # total)
  /\ at' = "init"
  /\ UNCHANGED <<inputs, section, boardPins, asg, net, pins, found, total, http>>

\* register_cb_after() may fail before and after cb_init(); cb_init() opens
\* the web socket server, and the HTTP server for a top entity with both
\* UsbPort signals.
CbInit ==
  /\ at = "init"
  /\ \/ Exit /\ UNCHANGED http
     \/ at' \in {"running", "exit"} /\ http' = (InTop(InPort) /\ InTop(OutPort))
  /\ UNCHANGED <<inputs, section, boardPins, asg, net, pins, found, total, warned>>

Stopped == at \in {"running", "exit"} /\ UNCHANGED setupVars
-----------------------------------------------------------------------------
SetupInit ==
  /\ board \in Boards /\ config \in Configs /\ top \in Tops
  /\ at = "board" /\ section = 1 /\ boardPins = <<>>
  /\ asg = 1 /\ net = 1 /\ pins = <<>>
  /\ found = 0 /\ total = 0 /\ warned = FALSE /\ http = FALSE

SetupNext ==
  \/ ReadSection \/ ParseAssignments \/ CheckAssignment
  \/ GetPinsSignals \/ ScanNet \/ LinkPin \/ PassAssignment \/ NextNet
  \/ CompareTotals \/ CbInit \/ Stopped

SetupSpec == SetupInit /\ [][SetupNext]_setupVars
-----------------------------------------------------------------------------
SetupTypeOK ==
  /\ InputOK(board, config, top)
  /\ at \in {"board", "check", "scan", "link", "init", "running", "exit"}
  /\ section \in 1 .. Len(Section) + 1
  /\ boardPins \in Seq(BoardPin)
  /\ asg \in Nat \ {0} /\ net \in Nat \ {0}
  /\ pins \in Seq(PinRecord)
  /\ found = Len(pins) /\ total \in Nat
  /\ warned \in BOOLEAN /\ http \in BOOLEAN

\* What the running board relies on: each pin is one bit inside a port of the
\* top entity and has a place on the board, an id names one pin only, and no
\* pin drives or shows the UsbPort signals, which belong to the HTTP server.
PinSetIsSound ==
  \A k \in DOMAIN pins :
    /\ pins[k].net \in DOMAIN top /\ IsPort(pins[k].net)
    /\ pins[k].index < top[pins[k].net].width
    /\ top[pins[k].net].name \notin {InPort, OutPort}
    /\ PinExists(pins[k].id)
    /\ \A j \in DOMAIN pins : pins[j].id = pins[k].id => j = k

\* Every assignment to a port has its pin when the servers are opened; what
\* cannot be linked stops the simulation, it is not left out.
LinkedTo(a, n) ==
  \E k \in DOMAIN pins :
    pins[k] = [id |-> config[a].pin, net |-> n, index |-> config[a].index]

PinSetIsComplete ==
  at \in {"init", "running"} =>
    \A a \in DOMAIN config, n \in DOMAIN top :
      IsPort(n) /\ config[a].signal = top[n].name => LinkedTo(a, n)

\* get_pin() "returns pointer to pin by his identifier": a CHANGE that names a
\* pin by its id reaches that pin, as the usage message "CHANGE pinId VALUE" says.
IdsReachTheirPin ==
  at = "running" => \A k \in DOMAIN pins : GetPin(pins[k].id) = k
=============================================================================
