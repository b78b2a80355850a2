--------------------------- MODULE MCVirtualBoard ---------------------------
(* Small boards for TLC.                                                   *)
EXTENDS VirtualBoard, TLC

CONSTANTS p1, p2, clk, led, sw

Symmetry == Permutations(Conn)

\* One pin, an output: LEDs driven by the design.
LedPinNet == (p1 :> led)
LedPinIndex == (p1 :> 0)
LedWidth == (led :> 1)

\* The liveness properties speak of servers that could add their event
\* descriptor to the epoll set.
WakeableInit == Init /\ wakeable
WakeableSpec ==
  WakeableInit /\ [][Next]_vars /\ WF_vars(SimProgress) /\ WF_vars(WsProgress)

\* Two pins on one two-bit input.
SwitchPinNet == (p1 :> sw) @@ (p2 :> sw)
SwitchPinIndex == (p1 :> 0) @@ (p2 :> 1)
SwitchWidth == (sw :> 2)

\* up_counter in small: the clock and a two-bit output, a pin on the first and
\* on the high bit of the second.
CounterPinNet == (p1 :> clk) @@ (p2 :> led)
CounterPinIndex == (p1 :> 0) @@ (p2 :> 1)
CounterWidth == (clk :> 1) @@ (led :> 2)
=============================================================================
