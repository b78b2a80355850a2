----------------------------- MODULE MCPinSetup -----------------------------
(* Small boards, assignment files and top entities for TLC.                *)
EXTENDS PinSetup, TLC

CONSTANTS A0, LED0, S0, SW0, Other,       \* labels; Other is on no board;
                                          \* a pin may also be called enable
          cout, enable, state, nosuch     \* signals; nosuch is in no entity

led0 == [id |-> A0, name |-> LED0]
sw0  == [id |-> S0, name |-> SW0]

Board(leds, switches, buttons, others) ==
  [leds |-> leds, switches |-> switches, buttons |-> buttons, otherPins |-> others]

MCBoards == {Board(<<led0>>, <<sw0>>, <<>>, <<>>),
             Board(<<>>, <<led0>>, <<sw0>>, <<>>),
             Board(<<led0>>, <<sw0>>, Absent, Absent),
             Board(<<led0>>, Absent, <<>>, <<sw0>>),
             Board(<<led0>>, <<[id |-> enable, name |-> SW0]>>, <<>>, <<>>)}

Lines == {[pin |-> p, signal |-> s, index |-> i] :
            p \in {A0, LED0, S0, Other}, s \in {cout, enable, nosuch}, i \in {0, 1, 2}}
         \cup [pin : {A0}, signal : {InPort, OutPort, state}, index : {0}]
         \cup [pin : {enable}, signal : {cout, enable}, index : {0, 1}]

MCConfigs == {Absent, <<>>}
             \cup {<<x>> : x \in Lines} \cup {<<x, y>> : x, y \in Lines}

Net(name, width, dir) == [name |-> name, width |-> width, dir |-> dir]
counter == <<Net(cout, 2, "out"), Net(state, 2, "other"), Net(enable, 1, "in")>>
MCTops == {<<>>, counter,
           counter \o <<Net(InPort, 8, "out"), Net(OutPort, 8, "in")>>}
=============================================================================
