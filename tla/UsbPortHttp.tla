---------------------------- MODULE UsbPortHttp ----------------------------
(***************************************************************************)
(* UsbPort over HTTP: the handlers of GET and PUT, each in a thread of the *)
(* HTTP server's pool, beside the simulation and the other threads that    *)
(* read nets; and the Kotlin library's read() and write().                 *)
(*                                                                         *)
(* Nothing locks the simulator: vpi_put_value() is taken bit by bit, and   *)
(* vpi_get_value() as GHDL does it, which resets one buffer for all, adds  *)
(* the bits one by one and returns a pointer to it.                        *)
(***************************************************************************)
EXTENDS Integers, Sequences

CONSTANTS Request,    \* requests that may be answered at one time
          Width,      \* bits of inputport_sw and of outputport_sw, 8 in UsbPort
          Value,      \* the numbers sent
          Missing,    \* a PUT without the parameter "value"
          NoPut       \* nothing waits to be put on a bit

ASSUME UsbPortAssumption ==
  /\ Width \in Nat \ {0}
  /\ Value \subseteq Int /\ Missing \notin Int
  /\ NoPut \notin {0, 1}
  /\ 2 ^ 0 = 1                                   \* the prover knows no powers
  /\ \A b \in 0 .. Width - 1 : 2 ^ (b + 1) = 2 * 2 ^ b

VARIABLES
  inPort, outPort,  \* the nets, functions from bit numbers to bits
  put,      \* what the next simulation cycle puts on outPort
  text,     \* GHDL's buffer, the highest bit first; of its characters only the
            \* first Width are ever read
  at,       \* where each request is
  n,        \* bits it has worked off
  val,      \* the number it builds, or puts and echoes
  alone,    \* history: no other thread got in its way
  had,      \* history: values each bit of inPort had during a GET
  returned  \* history: the last write() that returned, unless a PUT ran beside
            \* it or came after

httpVars == <<inPort, outPort, put, text, at, n, val, alone, had, returned>>

Bit     == {0, 1}
Bits    == 0 .. Width - 1
Word    == [Bits -> Bit]
Limit   == 2 ^ (Width - 1) - 1          \* 0b1111111
Nobody  == [b \in Bits |-> {}]

\* Mutant: the bits above are not masked out.
BitOfUnmasked(v, b) == v \div 2 ^ b

\* Bit b of a number, in two's complement: vpi_put_value() drops what does not
\* fit, a negative number is cut like any other.
BitOf(v, b) == (v \div 2 ^ b) % 2

Getting(r) == at[r] \in {"append", "take"}
Putting(r) == at[r] = "put"
Added(c) == IF Len(text) < Width THEN Append(text, c) ELSE text
Interrupt(others) == [r \in Request |-> alone[r] /\ r \notin others]
-----------------------------------------------------------------------------
\* GET: get_net_val() calls vpi_get_value(), which resets the buffer.
Get(r) ==
  /\ at[r] = "idle"
  /\ at' = [at EXCEPT ![r] = "append"]
  /\ n' = [n EXCEPT ![r] = 0] /\ val' = [val EXCEPT ![r] = 0]
  /\ text' = <<>>
  /\ LET others == {q \in Request \ {r} : Getting(q)}
     IN  alone' = [Interrupt(others) EXCEPT ![r] = (others = {})]
  /\ had' = [had EXCEPT ![r] = [b \in Bits |-> {inPort[b]}]]
  /\ UNCHANGED <<inPort, outPort, put, returned>>

AppendBit(r) ==
  /\ at[r] = "append"
  /\ text' = Added(inPort[Width - 1 - n[r]])
  /\ IF n[r] = Width - 1
       THEN at' = [at EXCEPT ![r] = "take"] /\ n' = [n EXCEPT ![r] = 0]
       ELSE n' = [n EXCEPT ![r] = @ + 1] /\ UNCHANGED at
  /\ UNCHANGED <<inPort, outPort, put, val, alone, had, returned>>

\* str[i]: behind the end of the buffer stands what was left there.
CharAt(i) == IF i <= Len(text) THEN {text[i]} ELSE Bit

\* Mutant: the number is shifted after the bit was added.
TakeBitThenShift(r) ==
  /\ at[r] = "take"
  /\ \E c \in CharAt(n[r] + 1) : val' = [val EXCEPT ![r] = 2 * (@ + c)]
  /\ IF n[r] = Width - 1
       THEN at' = [at EXCEPT ![r] = "got"] /\ n' = [n EXCEPT ![r] = 0]
       ELSE n' = [n EXCEPT ![r] = @ + 1] /\ UNCHANGED at
  /\ UNCHANGED <<inPort, outPort, put, text, alone, had, returned>>

\* A round of the loop in get_net_val().
TakeBit(r) ==
  /\ at[r] = "take"
  /\ \E c \in CharAt(n[r] + 1) : val' = [val EXCEPT ![r] = 2 * @ + c]
  /\ IF n[r] = Width - 1
       THEN at' = [at EXCEPT ![r] = "got"] /\ n' = [n EXCEPT ![r] = 0]
       ELSE n' = [n EXCEPT ![r] = @ + 1] /\ UNCHANGED at
  /\ UNCHANGED <<inPort, outPort, put, text, alone, had, returned>>

\* UsbPort.read() makes an Int of the answer.
ReadReturns(r) ==
  /\ at[r] = "got"
  /\ at' = [at EXCEPT ![r] = "idle"]
  /\ val' = [val EXCEPT ![r] = 0]
  /\ had' = [had EXCEPT ![r] = Nobody] /\ alone' = [alone EXCEPT ![r] = FALSE]
  /\ UNCHANGED <<inPort, outPort, put, text, n, returned>>

\* Another thread reads a net: pin::get_value() in the web socket thread,
\* get_net_val() of up_counter.cout in main_callback().  It makes a difference
\* only to a GET.
BoardReads ==
  /\ \E r \in Request : Getting(r)
  /\ \/ text' = <<>>
     \/ \E c \in Bit : text' = Added(c)
  /\ alone' = Interrupt({r \in Request : Getting(r)})
  /\ UNCHANGED <<inPort, outPort, put, at, n, val, had, returned>>
-----------------------------------------------------------------------------
\* A request without the parameter, or with a value above 7 bits, is answered
\* with a text and status 200.
PutRefused(r, v) ==
  /\ at[r] = "idle" /\ (v # Missing => v > Limit)
  /\ at' = [at EXCEPT ![r] = "refused"]
  /\ UNCHANGED <<inPort, outPort, put, text, n, val, alone, had, returned>>

\* Mutant: a value the port has already is not put again.
PutUnlessSame(r, v) ==
  /\ at[r] = "idle" /\ v # Missing /\ v <= Limit
  /\ at' = [at EXCEPT ![r] = IF \A b \in Bits : outPort[b] = BitOf(v, b)
                               THEN "echo" ELSE "put"]
  /\ n' = [n EXCEPT ![r] = 0] /\ val' = [val EXCEPT ![r] = v]
  /\ LET others == {q \in Request : at[q] \in {"put", "echo"}}
     IN  alone' = [Interrupt(others) EXCEPT ![r] = (others = {})]
  /\ returned' = Missing
  /\ UNCHANGED <<inPort, outPort, put, text, had>>

\* Any other value is handed to set_net_val().
Put(r, v) ==
  /\ at[r] = "idle" /\ v # Missing /\ v <= Limit
  /\ at' = [at EXCEPT ![r] = "put"]
  /\ n' = [n EXCEPT ![r] = 0] /\ val' = [val EXCEPT ![r] = v]
  /\ LET others == {q \in Request : at[q] \in {"put", "echo"}}
     IN  alone' = [Interrupt(others) EXCEPT ![r] = (others = {})]
  /\ returned' = Missing
  /\ UNCHANGED <<inPort, outPort, put, text, had>>

PutBit(r) ==
  /\ Putting(r)
  /\ put' = [put EXCEPT ![n[r]] = BitOf(val[r], n[r])]
  /\ IF n[r] = Width - 1
       THEN at' = [at EXCEPT ![r] = "echo"] /\ n' = [n EXCEPT ![r] = 0]
       ELSE n' = [n EXCEPT ![r] = @ + 1] /\ UNCHANGED at
  /\ UNCHANGED <<inPort, outPort, text, val, alone, had, returned>>

\* UsbPort.write() returns if the number comes back as it was sent.
WriteReturns(r) ==
  /\ at[r] = "echo"
  /\ at' = [at EXCEPT ![r] = "idle"]
  /\ val' = [val EXCEPT ![r] = 0]
  /\ returned' = IF alone[r] THEN val[r] ELSE returned
  /\ alone' = [alone EXCEPT ![r] = FALSE]
  /\ UNCHANGED <<inPort, outPort, put, text, n, had>>

\* It throws when a text comes back, which is no Int.
WriteThrows(r) ==
  /\ at[r] = "refused"
  /\ at' = [at EXCEPT ![r] = "idle"]
  /\ UNCHANGED <<inPort, outPort, put, text, n, val, alone, had, returned>>

\* A cycle of the simulator takes over what was put; the design drives inPort.
Cycle ==
  /\ outPort' = [b \in Bits |-> IF put[b] = NoPut THEN outPort[b] ELSE put[b]]
  /\ put' = [b \in Bits |-> NoPut]
  /\ inPort' \in Word
  /\ had' = [r \in Request |->
       IF Getting(r) THEN [b \in Bits |-> had[r][b] \cup {inPort'[b]}] ELSE had[r]]
  /\ UNCHANGED <<text, at, n, val, alone, returned>>
-----------------------------------------------------------------------------
HttpInit ==
  /\ inPort \in Word /\ outPort \in Word
  /\ put = [b \in Bits |-> NoPut] /\ text = <<>>
  /\ at = [r \in Request |-> "idle"]
  /\ n = [r \in Request |-> 0] /\ val = [r \in Request |-> 0]
  /\ alone = [r \in Request |-> FALSE]
  /\ had = [r \in Request |-> Nobody]
  /\ returned = Missing

HttpNext ==
  \/ \E r \in Request :
       \/ Get(r) \/ AppendBit(r) \/ TakeBit(r) \/ ReadReturns(r)
       \/ PutBit(r) \/ WriteReturns(r) \/ WriteThrows(r)
       \/ \E v \in Value \cup {Missing} : PutRefused(r, v) \/ Put(r, v)
  \/ BoardReads \/ Cycle

HttpSpec == HttpInit /\ [][HttpNext]_httpVars
-----------------------------------------------------------------------------
HttpTypeOK ==
  /\ inPort \in Word /\ outPort \in Word
  /\ put \in [Bits -> Bit \cup {NoPut}]
  /\ text \in Seq(Bit)
  /\ at \in [Request -> {"idle", "append", "take", "got", "put", "echo", "refused"}]
  /\ n \in [Request -> Bits]
  /\ val \in [Request -> Int] /\ alone \in [Request -> BOOLEAN]
  /\ had \in [Request -> [Bits -> SUBSET Bit]]
  /\ returned \in Int \cup {Missing}

\* A read() during which no other thread called vpi_get_value() returns, bit by
\* bit, what inputport_sw was at some moment since the request: get_net_val()
\* makes the number of the net out of a text that the simulation may be half
\* way through changing.
ReadIsOfThePort ==
  \A r \in Request :
    at[r] = "got" /\ alone[r] =>
      /\ val[r] \in 0 .. 2 ^ Width - 1
      /\ \A b \in Bits : BitOf(val[r], b) \in had[r][b]

\* What outputport_sw is about to be.
Coming(b) == IF put[b] = NoPut THEN outPort[b] ELSE put[b]

\* When the last write() has returned and no PUT ran beside it or came after,
\* the port has that value, or takes it in the next cycle, whatever the cycles
\* took over while its bits were put.
WriteIsKept ==
  returned # Missing => \A b \in Bits : Coming(b) = BitOf(returned, b)
=============================================================================
