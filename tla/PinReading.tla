----------------------------- MODULE PinReading -----------------------------
(***************************************************************************)
(* One pin::get_value() of the web socket thread, step by step, beside the *)
(* readings of the two other threads: get_net_val() of up_counter.cout in  *)
(* main_callback(), and that of inputport_sw in a GET.                     *)
(*                                                                         *)
(* Nothing locks the simulator.  GHDL's vpi_get_value() empties one buffer *)
(* for all, adds the bits of the net and an end mark, and returns a        *)
(* pointer to it; an emptied buffer keeps its characters until others are  *)
(* written over them.                                                      *)
(***************************************************************************)
EXTENDS Integers, Sequences, FiniteSetsExt

CONSTANTS PinSize, Index,   \* bits of the pin's net, and the pin's one of them
          CoutSize,         \* bits of up_counter.cout
          PortSize          \* bits of inputport_sw

VARIABLES
  nets,   \* the nets, one for each thread that reads
  text,   \* the characters in GHDL's buffer
  len,    \* how many were added since it was emptied
  at,     \* where each thread is
  n,      \* bits it has added
  got,    \* what get_value() returned
  had     \* history: values of the pin's bit since get_value() was called

readVars == <<nets, text, len, at, n, got, had>>

Bit    == {0, 1}
End    == 2                        \* the end mark, no bit
Size   == [ws |-> PinSize, sim |-> CoutSize, http |-> PortSize]
Thread == DOMAIN Size
Nets   == [ws   : [0 .. PinSize - 1 -> Bit],
           sim  : [0 .. CoutSize - 1 -> Bit],
           http : [0 .. PortSize - 1 -> Bit]]

Reading == at["ws"] \in {"add", "take"}
-----------------------------------------------------------------------------
\* vpi_get_value() is called.
Empty(t) ==
  /\ at[t] = "idle"
  /\ at' = [at EXCEPT ![t] = "add"] /\ n' = [n EXCEPT ![t] = 0]
  /\ len' = 0
  /\ had' = IF t = "ws" THEN {nets["ws"][Index]} ELSE had
  /\ UNCHANGED <<nets, text, got>>

AddChar(c) ==
  /\ text' = IF len < Len(text) THEN [text EXCEPT ![len + 1] = c] ELSE Append(text, c)
  /\ len' = len + 1

\* The highest bit first.
AddBit(t) ==
  /\ at[t] = "add" /\ n[t] < Size[t]
  /\ AddChar(nets[t][Size[t] - 1 - n[t]])
  /\ n' = [n EXCEPT ![t] = @ + 1]
  /\ UNCHANGED <<nets, at, got, had>>

\* It returns: to get_value(), or to another reader.
AddEnd(t) ==
  /\ at[t] = "add" /\ n[t] = Size[t]
  /\ AddChar(End)
  /\ at' = [at EXCEPT ![t] = IF t = "ws" THEN "take" ELSE "idle"]
  /\ UNCHANGED <<nets, n, got, had>>

\* str[index] of the reversed string: the string's own end mark right behind it,
\* and anything further on.
CharAt ==
  LET ends == {i \in DOMAIN text : text[i] = End}
      k    == Min(ends) - 1 - Index
  IN  IF ends = {} \/ k < 0 THEN Bit ELSE IF k = 0 THEN {0} ELSE {text[k]}

\* The string is copied out of the buffer and its character taken.
Take ==
  /\ at["ws"] = "take"
  /\ got' \in CharAt
  /\ at' = [at EXCEPT !["ws"] = "got"]
  /\ UNCHANGED <<nets, text, len, n, had>>

\* The message "id = got" is sent.
Announce ==
  /\ at["ws"] = "got"
  /\ at' = [at EXCEPT !["ws"] = "idle"]
  /\ got' = 0 /\ had' = {}
  /\ UNCHANGED <<nets, text, len, n>>

\* A cycle of the simulator, in the thread of main_callback().
Cycle ==
  /\ at["sim"] = "idle"
  /\ nets' \in Nets
  /\ had' = IF Reading THEN had \cup {nets'["ws"][Index]} ELSE had
  /\ UNCHANGED <<text, len, at, n, got>>

ReadInit ==
  /\ nets \in Nets
  /\ text = <<>> /\ len = 0
  /\ at = [t \in Thread |-> "idle"] /\ n = [t \in Thread |-> 0]
  /\ got = 0 /\ had = {}

ReadNext ==
  \/ \E t \in Thread : Empty(t) \/ AddBit(t) \/ AddEnd(t)
  \/ Take \/ Announce \/ Cycle

ReadSpec == ReadInit /\ [][ReadNext]_readVars
-----------------------------------------------------------------------------
\* "returns signal's bit value at index": get_value() returns a value that the
\* pin's bit had while it was read, whatever the other threads read meanwhile.
PinReadsItsNet == at["ws"] = "got" => got \in had
=============================================================================
