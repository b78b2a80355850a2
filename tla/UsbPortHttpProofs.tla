------------------------- MODULE UsbPortHttpProofs -------------------------
(***************************************************************************)
(* Ports of any width and any number of requests: what a write() that      *)
(* returned says, and what number a GET that is alone makes of the port.   *)
(***************************************************************************)
EXTENDS UsbPortHttp, SequenceTheorems, WellFoundedInduction, TLAPS

Writing(r) == at[r] \in {"put", "echo"}

\* A PUT is alone only if no other is under way, and no PUT is under way when
\* the last write() counts.
AloneInv ==
  /\ \A r, q \in Request : alone[r] /\ Writing(r) /\ Writing(q) => r = q
  /\ returned # Missing => \A r \in Request : ~ Writing(r)

\* The bits that a PUT alone has handed over so far.
PutInv ==
  \A r \in Request : alone[r] =>
    /\ Putting(r) => \A b \in Bits : b < n[r] => Coming(b) = BitOf(val[r], b)
    /\ at[r] = "echo" => \A b \in Bits : Coming(b) = BitOf(val[r], b)

\* A GET that is alone finds in the buffer, behind each other and from the
\* highest on, bits that the port had since the request.
TextIsOfThePort ==
  \A r \in Request : alone[r] =>
    /\ at[r] = "append" => Len(text) = n[r]
    /\ at[r] = "take" => Len(text) = Width
    /\ Getting(r) => \A i \in DOMAIN text : text[i] \in had[r][Width - i]

ReadersInv ==
  \A r, q \in Request : alone[r] /\ Getting(r) /\ Getting(q) => r = q

\* What the port is now, a GET under way counts as seen.
PortIsHad ==
  \A r \in Request : Getting(r) => \A b \in Bits : inPort[b] \in had[r][b]

\* The number of request r has k bits, which the highest k bits of the port had.
NumberOfHighest(r, k) ==
  /\ val[r] \in 0 .. 2 ^ k - 1
  /\ \A b \in 0 .. k - 1 : BitOf(val[r], b) \in had[r][Width - k + b]

\* After every round of get_net_val(), the number of a GET that is alone is that
\* of the bits it has gone through.
NumberIsRead(r) ==
  alone[r] => /\ at[r] = "append" => val[r] = 0
              /\ at[r] = "take" => NumberOfHighest(r, n[r])
              /\ at[r] = "got" => NumberOfHighest(r, Width)

NumberInv == \A r \in Request : NumberIsRead(r)

HttpInv == /\ HttpTypeOK /\ AloneInv /\ PutInv /\ WriteIsKept
           /\ ReadersInv /\ TextIsOfThePort /\ PortIsHad /\ NumberInv
-----------------------------------------------------------------------------
LEMMA LeastElement ==
  ASSUME NEW S \in SUBSET Nat, S # {}
  PROVE  \E k \in S : \A j \in S : k <= j
<1>1. PICK k \in S : \A j \in S : <<j, k>> \notin OpToRel(<, Nat)
  BY NatLessThanWellFounded, WFMin
<1>2. \A j \in S : ~ (j < k)
  BY <1>1 DEF OpToRel
<1>3. \A j \in S : j \in Nat
  OBVIOUS
<1> QED  BY <1>2, <1>3

LEMMA PowersArePositive == \A b \in 0 .. Width : 2 ^ b \in Nat \ {0}
<1> DEFINE S == {b \in 0 .. Width : 2 ^ b \notin Nat \ {0}}
<1> SUFFICES ASSUME S # {} PROVE FALSE
  OBVIOUS
<1>1. S \in SUBSET Nat
  BY UsbPortAssumption
<1>2. PICK k \in S : \A j \in S : k <= j
  <2> HIDE DEF S
  <2> QED  BY <1>1, LeastElement
<1>3. k # 0
  <2>1. 0 \notin S
    BY UsbPortAssumption
  <2> QED  BY <2>1
<1>4. k - 1 \in 0 .. Width - 1 /\ (k - 1) + 1 = k
  BY <1>3, UsbPortAssumption
<1>5. 2 ^ (k - 1) \in Nat \ {0}
  <2>1. k - 1 \notin S
    BY <1>1, <1>2
  <2> QED  BY <1>4, <2>1, UsbPortAssumption
<1>6. 2 ^ k = 2 * 2 ^ (k - 1)
  BY <1>4, UsbPortAssumption
<1>7. 2 ^ k \in Nat \ {0}
  <2> DEFINE d == 2 ^ (k - 1)
  <2> HIDE DEF d
  <2>1. d \in Nat \ {0} => 2 * d \in Nat \ {0}
    OBVIOUS
  <2> QED  BY <1>5, <1>6, <2>1 DEF d
<1> QED  BY <1>7

LEMMA BitOfIsBit == \A v \in Int, b \in Bits : BitOf(v, b) \in Bit
<1> SUFFICES ASSUME NEW v \in Int, NEW b \in Bits PROVE BitOf(v, b) \in Bit
  OBVIOUS
<1>1. 2 ^ b \in Nat \ {0}
  BY UsbPortAssumption, PowersArePositive DEF Bits
<1> DEFINE d == 2 ^ b
<1>2. v \div d \in Int
  <2> HIDE DEF d
  <2>1. d \in Nat \ {0}
    BY <1>1 DEF d
  <2> QED  BY <2>1
<1>3. (v \div d) % 2 \in {0, 1}
  <2> HIDE DEF d
  <2> QED  BY <1>2
<1> QED  BY <1>3 DEF BitOf, Bit

LEMMA InitHttpInv == HttpInit => HttpInv
<1> SUFFICES ASSUME HttpInit PROVE HttpInv
  OBVIOUS
<1>1. HttpTypeOK
  <2>1. 0 \in Bits
    BY UsbPortAssumption DEF Bits
  <2>2. text \in Seq(Bit)
    BY EmptySeq DEF HttpInit
  <2> QED  BY <2>1, <2>2 DEF HttpInit, HttpTypeOK, Nobody
<1>2. /\ AloneInv /\ PutInv /\ WriteIsKept /\ ReadersInv /\ TextIsOfThePort /\ PortIsHad
      /\ NumberInv
  BY DEF HttpInit, AloneInv, PutInv, WriteIsKept, ReadersInv, TextIsOfThePort, PortIsHad,
         NumberInv, NumberIsRead, Writing, Getting, Putting
<1> QED  BY <1>1, <1>2 DEF HttpInv

LEMMA TextGrows ==
  ASSUME NEW c \in Bit, text \in Seq(Bit)
  PROVE  /\ Added(c) \in Seq(Bit)
         /\ Len(text) < Width =>
              /\ Len(Added(c)) = Len(text) + 1
              /\ \A i \in DOMAIN Added(c) :
                   \/ i \in DOMAIN text /\ Added(c)[i] = text[i]
                   \/ i = Len(text) + 1 /\ Added(c)[i] = c
  BY UsbPortAssumption DEF Added

LEMMA NextBit == \A i \in Bits : i # Width - 1 => i + 1 \in Bits
  BY UsbPortAssumption DEF Bits

LEMMA HttpTypeStep == HttpTypeOK /\ [HttpNext]_httpVars => HttpTypeOK'
<1> SUFFICES ASSUME HttpTypeOK, [HttpNext]_httpVars PROVE HttpTypeOK'
  OBVIOUS
<1> USE DEF HttpTypeOK
<1>b. Width \in Nat \ {0} /\ 0 \in Bits /\ Bit = {0, 1} /\ Bit \subseteq Int
  BY UsbPortAssumption DEF Bits, Bit
<1>1. ASSUME NEW r \in Request, Get(r) PROVE HttpTypeOK'
  <2>1. [b \in Bits |-> {inPort[b]}] \in [Bits -> SUBSET Bit]
    BY DEF Word
  <2>2. alone' \in [Request -> BOOLEAN]
    BY <1>1 DEF Get, Interrupt
  <2>3. text' \in Seq(Bit)
    BY <1>1, EmptySeq DEF Get
  <2> QED  BY <1>1, <1>b, <2>1, <2>2, <2>3 DEF Get
<1>2. ASSUME NEW r \in Request, AppendBit(r) PROVE HttpTypeOK'
  <2>1. n[r] \in Bits /\ Width - 1 - n[r] \in Bits
    BY <1>b DEF Bits
  <2>2. text' \in Seq(Bit)
    BY <1>2, <2>1, TextGrows DEF AppendBit, Word
  <2>3. n' \in [Request -> Bits]
    <3>1. n[r] # Width - 1 => n[r] + 1 \in Bits
      BY <2>1, NextBit
    <3> QED  BY <1>2, <1>b, <3>1 DEF AppendBit
  <2> QED  BY <1>2, <2>2, <2>3 DEF AppendBit
<1>3. ASSUME NEW r \in Request, TakeBit(r) PROVE HttpTypeOK'
  <2>1. PICK c \in CharAt(n[r] + 1) : val' = [val EXCEPT ![r] = 2 * @ + c]
    BY <1>3 DEF TakeBit
  <2>2. c \in Int
    <3>1. n[r] \in Bits /\ n[r] + 1 \in Nat \ {0}
      BY <1>b DEF Bits
    <3>2. CASE n[r] + 1 <= Len(text)
      <4>1. n[r] + 1 \in DOMAIN text
        BY <3>1, <3>2
      <4> QED  BY <1>b, <2>1, <3>2, <4>1 DEF CharAt
    <3>3. CASE ~ (n[r] + 1 <= Len(text))
      BY <1>b, <2>1, <3>3 DEF CharAt
    <3> QED  BY <3>2, <3>3
  <2>3. val' \in [Request -> Int]
    BY <2>1, <2>2
  <2>4. n' \in [Request -> Bits]
    <3>1. n[r] \in Bits /\ (n[r] # Width - 1 => n[r] + 1 \in Bits)
      BY NextBit
    <3> QED  BY <1>3, <1>b, <3>1 DEF TakeBit
  <2> QED  BY <1>3, <2>3, <2>4 DEF TakeBit
<1>4. ASSUME NEW r \in Request, ReadReturns(r) PROVE HttpTypeOK'
  BY <1>4 DEF ReadReturns, Nobody
<1>5. ASSUME NEW r \in Request, PutBit(r) PROVE HttpTypeOK'
  <2>1. put' \in [Bits -> Bit \cup {NoPut}]
    BY <1>5, BitOfIsBit DEF PutBit
  <2>2. n' \in [Request -> Bits]
    <3>1. n[r] \in Bits /\ (n[r] # Width - 1 => n[r] + 1 \in Bits)
      BY NextBit
    <3> QED  BY <1>5, <1>b, <3>1 DEF PutBit
  <2> QED  BY <1>5, <2>1, <2>2 DEF PutBit
<1>6. ASSUME NEW r \in Request, WriteReturns(r) \/ WriteThrows(r) PROVE HttpTypeOK'
  <2>1. CASE WriteThrows(r)
    BY <2>1 DEF WriteThrows
  <2>2. CASE WriteReturns(r)
    <3>1. returned' \in Int \cup {Missing}
      BY <2>2 DEF WriteReturns
    <3>2. alone' \in [Request -> BOOLEAN] /\ val' \in [Request -> Int]
      BY <2>2 DEF WriteReturns
    <3> QED  BY <2>2, <3>1, <3>2 DEF WriteReturns
  <2> QED  BY <1>6, <2>1, <2>2
<1>7. ASSUME NEW r \in Request, NEW v \in Value \cup {Missing}, PutRefused(r, v)
      PROVE  HttpTypeOK'
  BY <1>7 DEF PutRefused
<1>8. ASSUME NEW r \in Request, NEW v \in Value \cup {Missing}, Put(r, v)
      PROVE  HttpTypeOK'
  <2>1. v \in Int
    BY <1>8, UsbPortAssumption DEF Put
  <2>2. alone' \in [Request -> BOOLEAN]
    BY <1>8 DEF Put, Interrupt
  <2> QED  BY <1>8, <1>b, <2>1, <2>2 DEF Put
<1>9. CASE BoardReads
  <2>1. text' \in Seq(Bit)
    <3>1. CASE text' = <<>>
      BY <3>1, EmptySeq
    <3>2. CASE \E c \in Bit : text' = Added(c)
      BY <3>2, TextGrows
    <3> QED  BY <1>9, <3>1, <3>2 DEF BoardReads
  <2>2. alone' \in [Request -> BOOLEAN]
    BY <1>9 DEF BoardReads, Interrupt
  <2> QED  BY <1>9, <2>1, <2>2 DEF BoardReads
<1>10. CASE Cycle
  <2>1. outPort' \in Word
    BY <1>10 DEF Cycle, Word
  <2>2. had' \in [Request -> [Bits -> SUBSET Bit]]
    BY <1>10 DEF Cycle, Word
  <2> QED  BY <1>10, <2>1, <2>2 DEF Cycle
<1>11. CASE UNCHANGED httpVars
  BY <1>11 DEF httpVars
<1> QED
  BY <1>1, <1>2, <1>3, <1>4, <1>5, <1>6, <1>7, <1>8, <1>9, <1>10, <1>11 DEF HttpNext

LEMMA ComingKept == HttpTypeOK /\ Cycle => \A b \in Bits : Coming(b)' = Coming(b)
  BY UsbPortAssumption DEF HttpTypeOK, Cycle, Coming

\* Actions that touch neither a PUT nor what it put.
LEMMA WriteStep ==
  HttpInv /\ [HttpNext]_httpVars => AloneInv' /\ PutInv' /\ WriteIsKept'
<1> SUFFICES ASSUME HttpInv, [HttpNext]_httpVars
             PROVE  AloneInv' /\ PutInv' /\ WriteIsKept'
  OBVIOUS
<1> USE DEF HttpInv
<1>t. /\ at \in [Request -> {"idle", "append", "take", "got", "put", "echo", "refused"}]
      /\ n \in [Request -> Bits] /\ val \in [Request -> Int]
      /\ alone \in [Request -> BOOLEAN] /\ put \in [Bits -> Bit \cup {NoPut}]
  BY DEF HttpTypeOK
<1>1. ASSUME NEW r \in Request, Get(r) \/ AppendBit(r) \/ TakeBit(r) \/ ReadReturns(r)
      PROVE  AloneInv' /\ PutInv' /\ WriteIsKept'
  <2>1. /\ UNCHANGED <<put, outPort, returned>>
        /\ ~ Writing(r) /\ ~ Writing(r)'
        /\ \A q \in Request \ {r} : at'[q] = at[q] /\ n'[q] = n[q] /\ val'[q] = val[q]
        /\ \A q \in Request \ {r} : alone'[q] => alone[q]
    BY <1>1, <1>t DEF Get, AppendBit, TakeBit, ReadReturns, Writing, Interrupt
  <2>2. \A b \in Bits : Coming(b)' = Coming(b)
    BY <2>1 DEF Coming
  <2>3. AloneInv'
    BY <2>1 DEF AloneInv, Writing
  <2>4. PutInv'
    BY <2>1, <2>2 DEF PutInv, Writing, Putting
  <2>5. WriteIsKept'
    BY <2>1, <2>2 DEF WriteIsKept
  <2> QED  BY <2>3, <2>4, <2>5
<1>2. ASSUME NEW r \in Request, NEW v \in Value \cup {Missing}, PutRefused(r, v)
      PROVE  AloneInv' /\ PutInv' /\ WriteIsKept'
  BY <1>2, <1>t DEF PutRefused, AloneInv, PutInv, WriteIsKept, Writing, Putting, Coming
<1>3. ASSUME NEW r \in Request, WriteThrows(r)
      PROVE  AloneInv' /\ PutInv' /\ WriteIsKept'
  BY <1>3, <1>t DEF WriteThrows, AloneInv, PutInv, WriteIsKept, Writing, Putting, Coming
<1>4. ASSUME NEW r \in Request, NEW v \in Value \cup {Missing}, Put(r, v)
      PROVE  AloneInv' /\ PutInv' /\ WriteIsKept'
  <2>1. /\ returned' = Missing /\ UNCHANGED <<put, outPort>>
        /\ at[r] = "idle" /\ at'[r] = "put" /\ n'[r] = 0
        /\ \A q \in Request \ {r} : at'[q] = at[q] /\ n'[q] = n[q] /\ val'[q] = val[q]
    BY <1>4, <1>t DEF Put
  <2>2. /\ alone'[r] => \A q \in Request \ {r} : ~ Writing(q)
        /\ \A q \in Request \ {r} : alone'[q] => alone[q] /\ ~ Writing(q)
    BY <1>4, <1>t DEF Put, Interrupt, Writing
  <2>3. AloneInv'
    BY <2>1, <2>2 DEF AloneInv, Writing
  <2>4. \A b \in Bits : ~ (b < 0)
    BY DEF Bits
  <2>5. PutInv'
    BY <2>1, <2>2, <2>4 DEF PutInv, Writing, Putting
  <2> QED  BY <2>1, <2>3, <2>5 DEF WriteIsKept
<1>5. ASSUME NEW r \in Request, PutBit(r)
      PROVE  AloneInv' /\ PutInv' /\ WriteIsKept'
  <2>1. /\ Writing(r) /\ at'[r] \in {"put", "echo"}
        /\ UNCHANGED <<outPort, returned, alone, val>>
        /\ put' = [put EXCEPT ![n[r]] = BitOf(val[r], n[r])]
        /\ at'[r] = "put" => n'[r] = n[r] + 1
        /\ at'[r] = "echo" => n[r] = Width - 1
        /\ \A q \in Request \ {r} : at'[q] = at[q] /\ n'[q] = n[q]
    BY <1>5, <1>t DEF PutBit, Putting, Writing
  <2>2. returned = Missing
    BY <2>1 DEF AloneInv
  <2>3. AloneInv'
    BY <2>1, <2>2 DEF AloneInv, Writing
  <2>4. ASSUME NEW q \in Request, alone[q], Writing(q)' PROVE q = r
    BY <2>1, <2>4 DEF AloneInv, Writing
  <2>5. BitOf(val[r], n[r]) # NoPut /\ n[r] \in Bits
    BY <1>t, BitOfIsBit, UsbPortAssumption DEF Bit
  <2>6. \A b \in Bits : Coming(b)' = IF b = n[r] THEN BitOf(val[r], b) ELSE Coming(b)
    BY <1>t, <2>1, <2>5 DEF Coming
  <2>7. alone[r] => \A b \in Bits : b <= n[r] => Coming(b)' = BitOf(val[r], b)
    <3> SUFFICES ASSUME alone[r], NEW b \in Bits, b <= n[r]
                 PROVE  Coming(b)' = BitOf(val[r], b)
      OBVIOUS
    <3>1. CASE b = n[r]
      BY <2>6, <3>1
    <3>2. CASE b # n[r]
      <4>1. b < n[r]
        BY <2>5, <3>2 DEF Bits
      <4>2. Coming(b) = BitOf(val[r], b)
        BY <1>5, <4>1 DEF PutInv, PutBit
      <4> QED  BY <2>6, <3>2, <4>2
    <3> QED  BY <3>1, <3>2
  <2>8. \A b \in Bits : /\ b < n[r] + 1 => b <= n[r]
                        /\ n[r] = Width - 1 => b <= n[r]
    BY <2>5, UsbPortAssumption DEF Bits
  <2>9. ASSUME NEW q \in Request, alone'[q]
        PROVE  /\ Putting(q)' => \A b \in Bits : b < n'[q] => Coming(b)' = BitOf(val[q], b)
               /\ at'[q] = "echo" => \A b \in Bits : Coming(b)' = BitOf(val[q], b)
    <3>1. CASE q = r
      BY <2>1, <2>7, <2>8, <2>9, <3>1 DEF Putting
    <3>2. CASE q # r
      BY <2>1, <2>4, <2>9, <3>2 DEF Putting, Writing
    <3> QED  BY <3>1, <3>2
  <2>10. PutInv'
    <3>1. \A q \in Request, b \in Bits : BitOf(val[q], b)' = BitOf(val[q], b)
      BY <2>1 DEF BitOf
    <3> QED  BY <2>9, <3>1 DEF PutInv
  <2> QED  BY <2>1, <2>2, <2>3, <2>10 DEF WriteIsKept
<1>6. ASSUME NEW r \in Request, WriteReturns(r)
      PROVE  AloneInv' /\ PutInv' /\ WriteIsKept'
  <2>1. /\ at[r] = "echo" /\ Writing(r) /\ ~ Writing(r)' /\ ~ Putting(r)' /\ at'[r] # "echo"
        /\ UNCHANGED <<put, outPort>> /\ ~ alone'[r]
        /\ returned' = IF alone[r] THEN val[r] ELSE returned
        /\ \A q \in Request \ {r} : /\ at'[q] = at[q] /\ n'[q] = n[q]
                                    /\ val'[q] = val[q] /\ alone'[q] = alone[q]
    BY <1>6, <1>t DEF WriteReturns, Writing, Putting
  <2>2. \A b \in Bits : Coming(b)' = Coming(b)
    BY <2>1 DEF Coming
  <2>3. returned = Missing
    BY <2>1 DEF AloneInv
  <2>4. AloneInv'
    BY <2>1, <2>3 DEF AloneInv, Writing
  <2>5. PutInv'
    BY <2>1, <2>2 DEF PutInv, Putting
  <2>6. WriteIsKept'
    <3>1. CASE alone[r]
      BY <2>1, <2>2, <3>1 DEF WriteIsKept, PutInv
    <3>2. CASE ~ alone[r]
      BY <2>1, <2>3, <3>2 DEF WriteIsKept
    <3> QED  BY <3>1, <3>2
  <2> QED  BY <2>4, <2>5, <2>6
<1>7. CASE BoardReads
  <2>1. /\ UNCHANGED <<put, outPort, returned, at, n, val>>
        /\ \A q \in Request : alone'[q] => alone[q]
    BY <1>7, <1>t DEF BoardReads, Interrupt
  <2> QED  BY <2>1 DEF AloneInv, PutInv, WriteIsKept, Writing, Putting, Coming
<1>8. CASE Cycle
  <2>1. UNCHANGED <<returned, at, n, val, alone>> /\ \A b \in Bits : Coming(b)' = Coming(b)
    BY <1>8, ComingKept DEF Cycle
  <2>2. AloneInv'
    BY <2>1 DEF AloneInv, Writing
  <2>3. PutInv'
    BY <2>1 DEF PutInv, Putting
  <2>4. WriteIsKept'
    BY <2>1 DEF WriteIsKept
  <2> QED  BY <2>2, <2>3, <2>4
<1>9. CASE UNCHANGED httpVars
  BY <1>9 DEF httpVars, AloneInv, PutInv, WriteIsKept, Writing, Putting, Coming
<1> QED
  BY <1>1, <1>2, <1>3, <1>4, <1>5, <1>6, <1>7, <1>8, <1>9 DEF HttpNext
\* A cycle adds to what a bit had and takes nothing away.
LEMMA HadGrows ==
  HttpTypeOK /\ Cycle => \A r \in Request, b \in Bits : had[r][b] \subseteq had'[r][b]
<1> SUFFICES ASSUME HttpTypeOK, Cycle, NEW r \in Request, NEW b \in Bits
             PROVE  had[r][b] \subseteq had'[r][b]
  OBVIOUS
<1>1. CASE Getting(r)
  <2>1. had'[r] = [c \in Bits |-> had[r][c] \cup {inPort'[c]}]
    BY <1>1 DEF Cycle
  <2> QED  BY <2>1
<1>2. CASE ~ Getting(r)
  BY <1>2 DEF Cycle
<1> QED  BY <1>1, <1>2

\* What a step of another thread may not do to a GET that stays alone.
LEMMA ReadersKept ==
  ASSUME HttpInv, UNCHANGED text,
         \A q \in Request : alone'[q] /\ Getting(q)' =>
           /\ alone[q] /\ at'[q] = at[q] /\ n'[q] = n[q]
           /\ \A b \in Bits : had[q][b] \subseteq had'[q][b],
         \A q \in Request : Getting(q)' => Getting(q)
  PROVE  ReadersInv' /\ TextIsOfThePort'
<1>1. ReadersInv'
  BY DEF HttpInv, ReadersInv
<1>2. ASSUME NEW q \in Request, alone'[q], Getting(q)', NEW i \in DOMAIN text
      PROVE  text[i] \in had'[q][Width - i]
  <2>1. alone[q] /\ Getting(q)
    BY <1>2
  <2>2. text \in Seq(Bit) /\ Len(text) <= Width
    <3>1. n[q] \in Bits
      BY DEF HttpInv, HttpTypeOK
    <3>2. text \in Seq(Bit)
      BY DEF HttpInv, HttpTypeOK
    <3>3. Len(text) = n[q] \/ Len(text) = Width
      BY <2>1 DEF HttpInv, TextIsOfThePort, Getting
    <3> QED  BY <3>1, <3>2, <3>3, UsbPortAssumption DEF Bits
  <2>3. Width - i \in Bits
    BY <2>2, UsbPortAssumption DEF Bits
  <2>4. text[i] \in had[q][Width - i]
    BY <1>2, <2>1 DEF HttpInv, TextIsOfThePort
  <2> QED  BY <1>2, <2>3, <2>4
<1>3. TextIsOfThePort'
  <2>1. ASSUME NEW q \in Request, alone'[q]
        PROVE  /\ at'[q] = "append" => Len(text') = n'[q]
               /\ at'[q] = "take" => Len(text') = Width
    BY <2>1 DEF HttpInv, TextIsOfThePort, Getting
  <2> QED  BY <1>2, <2>1 DEF TextIsOfThePort
<1> QED  BY <1>1, <1>3

LEMMA ReadersStep == HttpInv /\ [HttpNext]_httpVars => ReadersInv' /\ TextIsOfThePort'
<1> SUFFICES ASSUME HttpInv, [HttpNext]_httpVars
             PROVE  ReadersInv' /\ TextIsOfThePort'
  OBVIOUS
<1>t. /\ at \in [Request -> {"idle", "append", "take", "got", "put", "echo", "refused"}]
      /\ n \in [Request -> Bits] /\ had \in [Request -> [Bits -> SUBSET Bit]]
      /\ alone \in [Request -> BOOLEAN] /\ text \in Seq(Bit) /\ inPort \in Word
  BY DEF HttpInv, HttpTypeOK
<1>1. ASSUME NEW r \in Request, Get(r) PROVE ReadersInv' /\ TextIsOfThePort'
  <2>1. /\ text' = <<>> /\ at'[r] = "append" /\ n'[r] = 0
        /\ \A q \in Request \ {r} : at'[q] = at[q]
    BY <1>1, <1>t DEF Get
  <2>2. /\ alone'[r] => \A q \in Request \ {r} : ~ Getting(q)
        /\ \A q \in Request \ {r} : ~ (alone'[q] /\ Getting(q))
    BY <1>1, <1>t DEF Get, Interrupt
  <2>3. ReadersInv'
    BY <2>1, <2>2 DEF ReadersInv, Getting
  <2>4. Len(text') = 0 /\ DOMAIN text' = {}
    BY <2>1
  <2>5. ASSUME NEW q \in Request, alone'[q], Getting(q)' PROVE q = r
    BY <2>1, <2>2, <2>5 DEF Getting
  <2>6. TextIsOfThePort'
    BY <2>1, <2>4, <2>5 DEF TextIsOfThePort, Getting
  <2> QED  BY <2>3, <2>6
<1>2. ASSUME NEW r \in Request, AppendBit(r) PROVE ReadersInv' /\ TextIsOfThePort'
  <2>1. /\ Getting(r) /\ at[r] = "append" /\ UNCHANGED <<alone, had>>
        /\ text' = Added(inPort[Width - 1 - n[r]])
        /\ at'[r] \in {"append", "take"}
        /\ at'[r] = "append" => n'[r] = n[r] + 1
        /\ at'[r] = "take" => n[r] = Width - 1
        /\ \A q \in Request \ {r} : at'[q] = at[q]
    BY <1>2, <1>t DEF AppendBit, Getting
  <2>2. \A q \in Request : Getting(q)' => Getting(q)
    BY <2>1 DEF Getting
  <2>3. ReadersInv'
    BY <2>1, <2>2 DEF HttpInv, ReadersInv
  <2>4. ASSUME NEW q \in Request, alone'[q], Getting(q)' PROVE q = r
    BY <2>1, <2>2, <2>4 DEF HttpInv, ReadersInv
  <2>5. ASSUME alone[r]
        PROVE  /\ Len(text') = n[r] + 1
               /\ \A i \in DOMAIN text' : text'[i] \in had[r][Width - i]
    <3>1. Len(text) = n[r] /\ \A i \in DOMAIN text : text[i] \in had[r][Width - i]
      BY <2>1, <2>5 DEF HttpInv, TextIsOfThePort
    <3>2. n[r] \in Bits /\ n[r] < Width /\ Width - 1 - n[r] \in Bits
      BY <1>t, UsbPortAssumption DEF Bits
    <3> DEFINE c == inPort[Width - 1 - n[r]]
    <3>3. c \in Bit /\ c \in had[r][Width - 1 - n[r]]
      BY <1>2, <1>t, <2>5, <3>2 DEF Word, PortIsHad, HttpInv, Getting, AppendBit
    <3>4. /\ Len(Added(c)) = Len(text) + 1
          /\ \A i \in DOMAIN Added(c) :
               \/ i \in DOMAIN text /\ Added(c)[i] = text[i]
               \/ i = Len(text) + 1 /\ Added(c)[i] = c
      BY <1>t, <3>1, <3>2, <3>3, TextGrows
    <3>5. Width - (n[r] + 1) = Width - 1 - n[r]
      BY <3>2, UsbPortAssumption DEF Bits
    <3>6. text' = Added(c)
      BY <2>1
    <3> QED  BY <3>1, <3>3, <3>4, <3>5, <3>6
  <2>6. n[r] = Width - 1 => n[r] + 1 = Width
    BY <1>t, UsbPortAssumption DEF Bits
  <2>7. TextIsOfThePort'
    BY <2>1, <2>4, <2>5, <2>6 DEF TextIsOfThePort, Getting
  <2> QED  BY <2>3, <2>7
<1>3. ASSUME NEW r \in Request, TakeBit(r) PROVE ReadersInv' /\ TextIsOfThePort'
  <2>1. /\ UNCHANGED <<text, alone, had>> /\ Getting(r)
        /\ at'[r] \in {"take", "got"} /\ at[r] = "take"
        /\ \A q \in Request \ {r} : at'[q] = at[q] /\ n'[q] = n[q]
    BY <1>3, <1>t DEF TakeBit, Getting
  <2>2. \A q \in Request : Getting(q)' => Getting(q)
    BY <2>1 DEF Getting
  <2>3. ReadersInv'
    BY <2>1, <2>2 DEF HttpInv, ReadersInv
  <2>4. ASSUME NEW q \in Request, alone'[q]
        PROVE  /\ at'[q] = "append" => Len(text') = n'[q]
               /\ at'[q] = "take" => Len(text') = Width
               /\ Getting(q)' => \A i \in DOMAIN text' : text'[i] \in had'[q][Width - i]
    BY <2>1, <2>2, <2>4 DEF HttpInv, TextIsOfThePort
  <2> QED  BY <2>3, <2>4 DEF TextIsOfThePort
<1>4. ASSUME NEW r \in Request,
             ReadReturns(r) \/ PutBit(r) \/ WriteReturns(r) \/ WriteThrows(r)
      PROVE  ReadersInv' /\ TextIsOfThePort'
  <2>1. /\ UNCHANGED text /\ ~ Getting(r)'
        /\ \A q \in Request \ {r} : /\ at'[q] = at[q] /\ n'[q] = n[q]
                                    /\ alone'[q] = alone[q] /\ had'[q] = had[q]
    BY <1>4, <1>t DEF ReadReturns, PutBit, WriteReturns, WriteThrows, Getting, Putting
  <2>2. \A q \in Request : Getting(q)' => q # r /\ Getting(q)
    BY <2>1 DEF Getting
  <2>3. \A q \in Request : alone'[q] /\ Getting(q)' =>
           /\ alone[q] /\ at'[q] = at[q] /\ n'[q] = n[q]
           /\ \A b \in Bits : had[q][b] \subseteq had'[q][b]
    BY <2>1, <2>2
  <2> QED  BY <2>1, <2>2, <2>3, ReadersKept
<1>5. ASSUME NEW r \in Request, NEW v \in Value \cup {Missing},
             PutRefused(r, v) \/ Put(r, v)
      PROVE  ReadersInv' /\ TextIsOfThePort'
  <2>1. /\ UNCHANGED <<text, had>> /\ ~ Getting(r)'
        /\ \A q \in Request \ {r} : /\ at'[q] = at[q] /\ n'[q] = n[q]
                                    /\ alone'[q] => alone[q]
    BY <1>5, <1>t DEF PutRefused, Put, Interrupt, Getting
  <2>2. \A q \in Request : Getting(q)' => q # r /\ Getting(q)
    BY <2>1 DEF Getting
  <2>3. \A q \in Request : alone'[q] /\ Getting(q)' =>
           /\ alone[q] /\ at'[q] = at[q] /\ n'[q] = n[q]
           /\ \A b \in Bits : had[q][b] \subseteq had'[q][b]
    BY <2>1, <2>2
  <2> QED  BY <2>1, <2>2, <2>3, ReadersKept
<1>6. CASE BoardReads
  <2>1. UNCHANGED at /\ \A q \in Request : ~ (alone'[q] /\ Getting(q))
    BY <1>6, <1>t DEF BoardReads, Interrupt
  <2> QED  BY <2>1 DEF ReadersInv, TextIsOfThePort, Getting
<1>7. CASE Cycle
  <2>1. UNCHANGED <<text, at, n, alone>>
    BY <1>7 DEF Cycle
  <2>2. \A q \in Request, b \in Bits : had[q][b] \subseteq had'[q][b]
    BY <1>7, HadGrows DEF HttpInv
  <2>3. \A q \in Request : Getting(q)' => Getting(q)
    BY <2>1 DEF Getting
  <2>4. \A q \in Request : alone'[q] /\ Getting(q)' =>
           /\ alone[q] /\ at'[q] = at[q] /\ n'[q] = n[q]
           /\ \A b \in Bits : had[q][b] \subseteq had'[q][b]
    BY <2>1, <2>2
  <2> QED  BY <2>1, <2>3, <2>4, ReadersKept
<1>8. CASE UNCHANGED httpVars
  BY <1>8 DEF httpVars, HttpInv, ReadersInv, TextIsOfThePort, Getting
<1> QED
  BY <1>1, <1>2, <1>3, <1>4, <1>5, <1>6, <1>7, <1>8 DEF HttpNext

\* The port is among what a GET counts as seen.
LEMMA PortStep == HttpInv /\ [HttpNext]_httpVars => PortIsHad'
<1> SUFFICES ASSUME HttpInv, [HttpNext]_httpVars PROVE PortIsHad'
  OBVIOUS
<1>t. /\ at \in [Request -> {"idle", "append", "take", "got", "put", "echo", "refused"}]
      /\ had \in [Request -> [Bits -> SUBSET Bit]]
  BY DEF HttpInv, HttpTypeOK
<1>1. ASSUME NEW r \in Request, Get(r) PROVE PortIsHad'
  <2>1. /\ had'[r] = [b \in Bits |-> {inPort[b]}] /\ inPort' = inPort
        /\ \A q \in Request \ {r} : at'[q] = at[q] /\ had'[q] = had[q]
    BY <1>1, <1>t DEF Get
  <2>2. ASSUME NEW q \in Request, Getting(q)', NEW b \in Bits PROVE inPort[b] \in had'[q][b]
    BY <2>1, <2>2 DEF HttpInv, PortIsHad, Getting
  <2> QED  BY <2>1, <2>2 DEF PortIsHad
<1>2. ASSUME NEW r \in Request,
             \/ AppendBit(r) \/ TakeBit(r) \/ ReadReturns(r)
             \/ PutBit(r) \/ WriteReturns(r) \/ WriteThrows(r)
             \/ \E v \in Value \cup {Missing} : PutRefused(r, v) \/ Put(r, v)
      PROVE  PortIsHad'
  <2>1. /\ inPort' = inPort /\ Getting(r)' => Getting(r) /\ had'[r] = had[r]
        /\ \A q \in Request \ {r} : at'[q] = at[q] /\ had'[q] = had[q]
    BY <1>2, <1>t DEF AppendBit, TakeBit, ReadReturns, PutBit, WriteReturns,
         WriteThrows, PutRefused, Put, Getting, Putting
  <2>2. inPort' = inPort
    BY <1>2 DEF AppendBit, TakeBit, ReadReturns, PutBit, WriteReturns,
         WriteThrows, PutRefused, Put
  <2>3. ASSUME NEW q \in Request, Getting(q)' PROVE Getting(q) /\ had'[q] = had[q]
    BY <2>1, <2>2, <2>3 DEF Getting
  <2> QED  BY <2>2, <2>3 DEF HttpInv, PortIsHad
<1>3. CASE BoardReads
  BY <1>3 DEF BoardReads, HttpInv, PortIsHad, Getting
<1>4. CASE Cycle
  <2>1. ASSUME NEW q \in Request, Getting(q)', NEW b \in Bits PROVE inPort'[b] \in had'[q][b]
    <3>1. Getting(q)
      BY <1>4, <2>1 DEF Cycle, Getting
    <3>2. had'[q] = [c \in Bits |-> had[q][c] \cup {inPort'[c]}]
      BY <1>4, <3>1 DEF Cycle
    <3> QED  BY <3>2
  <2> QED  BY <2>1 DEF PortIsHad
<1>5. CASE UNCHANGED httpVars
  BY <1>5 DEF httpVars, HttpInv, PortIsHad, Getting
<1> QED  BY <1>1, <1>2, <1>3, <1>4, <1>5 DEF HttpNext
-----------------------------------------------------------------------------
(* The number that get_net_val() makes of the text.                        *)

LEMMA DivMod ==
  ASSUME NEW v \in Nat, NEW d \in Nat \ {0}
  PROVE  /\ v \div d \in Nat /\ v % d \in 0 .. d - 1
         /\ v = (d * (v \div d)) + (v % d)
  OBVIOUS

LEMMA QuotientIsUnique ==
  ASSUME NEW x \in Nat, NEW d \in Nat \ {0}, NEW q \in Nat, NEW s \in 0 .. d - 1,
         x = d * q + s
  PROVE  x \div d = q
  OBVIOUS

LEMMA QuotientOfShifted ==
  ASSUME NEW v \in Nat, NEW d \in Nat \ {0}, NEW c \in Bit
  PROVE  (2 * v + c) \div (2 * d) = v \div d
<1> DEFINE q == v \div d
           s == v % d
<1>1. v = d * q + s /\ s \in 0 .. d - 1 /\ q \in Nat
  BY DivMod
<1> HIDE DEF q, s
<1>2. 2 * v + c = (2 * d) * q + (2 * s + c) /\ 2 * s + c \in 0 .. 2 * d - 1
  BY <1>1 DEF Bit
<1>3. (2 * v + c) \div (2 * d) = q
  BY <1>1, <1>2, QuotientIsUnique DEF Bit
<1> QED  BY <1>3 DEF q

\* A round shifts the number by one bit and sets the lowest.
LEMMA BitsOfShifted ==
  ASSUME NEW v \in Nat, NEW c \in Bit
  PROVE  /\ BitOf(2 * v + c, 0) = c
         /\ \A b \in 0 .. Width - 1 : BitOf(2 * v + c, b + 1) = BitOf(v, b)
<1>1. BitOf(2 * v + c, 0) = c
  <2>1. 2 ^ 0 = 1
    BY UsbPortAssumption
  <2>2. (2 * v + c) \div 1 = 2 * v + c /\ (2 * v + c) % 2 = c
    BY DEF Bit
  <2> QED  BY <2>1, <2>2 DEF BitOf
<1>2. ASSUME NEW b \in 0 .. Width - 1 PROVE BitOf(2 * v + c, b + 1) = BitOf(v, b)
  <2> DEFINE d == 2 ^ b
  <2>1. d \in Nat \ {0}
    BY PowersArePositive, UsbPortAssumption
  <2>2. 2 ^ (b + 1) = 2 * d
    BY UsbPortAssumption
  <2> HIDE DEF d
  <2>3. (2 * v + c) \div (2 * d) = v \div d
    BY <2>1, QuotientOfShifted
  <2> QED  BY <2>2, <2>3 DEF BitOf, d
<1> QED  BY <1>1, <1>2

\* What a round does to the number, when the character it takes is one that the
\* next lower bit had.
LEMMA NumberGrows ==
  ASSUME NEW r \in Request, HttpTypeOK, NEW k \in 0 .. Width - 1,
         NumberOfHighest(r, k), NEW c \in had[r][Width - 1 - k],
         val' = [val EXCEPT ![r] = 2 * @ + c], UNCHANGED had
  PROVE  NumberOfHighest(r, k + 1)'
<1> DEFINE v == val[r]
<1>1. /\ Width \in Nat \ {0} /\ k \in Nat /\ Width - 1 - k \in Bits
  BY UsbPortAssumption DEF Bits
<1>2. c \in Bit
  BY <1>1 DEF HttpTypeOK
<1>3. val'[r] = 2 * v + c
  BY DEF HttpTypeOK
<1>4. v \in 0 .. 2 ^ k - 1 /\ 2 ^ k \in Nat \ {0} /\ 2 ^ (k + 1) = 2 * 2 ^ k
  BY PowersArePositive, UsbPortAssumption DEF NumberOfHighest
<1>5. val'[r] \in 0 .. 2 ^ (k + 1) - 1 /\ v \in Nat
  <2> DEFINE d == 2 ^ k
  <2>1. v \in 0 .. d - 1 /\ d \in Nat \ {0} /\ 2 ^ (k + 1) = 2 * d
    BY <1>4
  <2> HIDE DEF d, v
  <2>2. 2 * v + c \in 0 .. 2 * d - 1 /\ v \in Nat
    BY <1>2, <2>1 DEF Bit
  <2> QED  BY <1>3, <2>1, <2>2
<1>6. ASSUME NEW b \in 0 .. k PROVE BitOf(val'[r], b) \in had[r][Width - (k + 1) + b]
  <2>1. CASE b = 0
    <3>1. BitOf(val'[r], 0) = c
      BY <1>2, <1>3, <1>5, BitsOfShifted
    <3>2. Width - (k + 1) + 0 = Width - 1 - k
      BY <1>1
    <3> QED  BY <2>1, <3>1, <3>2
  <2>2. CASE b # 0
    <3> DEFINE j == b - 1
    <3>1. j \in 0 .. k - 1 /\ j \in 0 .. Width - 1 /\ b = j + 1
      BY <1>1, <2>2
    <3>2. Width - (k + 1) + b = Width - k + j
      BY <1>1, <3>1
    <3> HIDE DEF j
    <3>3. BitOf(2 * v + c, j + 1) = BitOf(v, j)
      BY <1>2, <1>5, <3>1, BitsOfShifted
    <3>4. BitOf(v, j) \in had[r][Width - k + j]
      BY <3>1 DEF NumberOfHighest
    <3> QED  BY <1>3, <3>1, <3>2, <3>3, <3>4
  <2> QED  BY <2>1, <2>2
<1>7. (k + 1) - 1 = k
  BY <1>1
<1>8. ASSUME NEW b \in 0 .. (k + 1) - 1
      PROVE  BitOf(val'[r], b) \in had'[r][Width - (k + 1) + b]
  BY <1>6, <1>7
<1> QED  BY <1>5, <1>8 DEF NumberOfHighest, BitOf

\* What a step may not do to the number of a GET that stays alone.
NumberStays(q) ==
  alone'[q] /\ at'[q] \in {"append", "take", "got"} =>
    /\ alone[q] /\ at'[q] = at[q] /\ n'[q] = n[q] /\ val'[q] = val[q]
    /\ \A b \in Bits : had[q][b] \subseteq had'[q][b]

LEMMA NumberKept ==
  ASSUME HttpInv, NEW q \in Request, NumberStays(q) PROVE NumberIsRead(q)'
<1> SUFFICES ASSUME alone'[q] PROVE NumberIsRead(q)'
  BY DEF NumberIsRead
<1>1. NumberIsRead(q)
  BY DEF HttpInv, NumberInv
<1>2. ASSUME NEW k \in 0 .. Width, NumberOfHighest(q, k),
             val'[q] = val[q], \A b \in Bits : had[q][b] \subseteq had'[q][b]
      PROVE  NumberOfHighest(q, k)'
  <2>1. ASSUME NEW b \in 0 .. k - 1 PROVE BitOf(val'[q], b) \in had'[q][Width - k + b]
    <3>1. Width - k + b \in Bits
      BY UsbPortAssumption DEF Bits
    <3>2. BitOf(val[q], b) \in had[q][Width - k + b]
      BY <1>2 DEF NumberOfHighest
    <3> QED  BY <1>2, <3>1, <3>2
  <2> QED  BY <1>2, <2>1 DEF NumberOfHighest, BitOf
<1>3. CASE at'[q] = "append"
  BY <1>1, <1>3 DEF NumberStays, NumberIsRead
<1>4. CASE at'[q] = "take"
  <2>1. PICK k \in 0 .. Width : k = n[q]
    BY UsbPortAssumption DEF HttpInv, HttpTypeOK, Bits
  <2>2. NumberOfHighest(q, k)'
    BY <1>1, <1>2, <1>4, <2>1 DEF NumberStays, NumberIsRead
  <2>3. n'[q] = k
    BY <1>4, <2>1 DEF NumberStays
  <2> QED  BY <1>4, <2>2, <2>3 DEF NumberIsRead, NumberOfHighest
<1>5. CASE at'[q] = "got"
  <2>1. Width \in 0 .. Width
    BY UsbPortAssumption
  <2> QED  BY <1>1, <1>2, <1>5, <2>1 DEF NumberStays, NumberIsRead
<1> QED  BY <1>3, <1>4, <1>5 DEF NumberIsRead

LEMMA NumberStep == HttpInv /\ [HttpNext]_httpVars => NumberInv'
<1> SUFFICES ASSUME HttpInv, [HttpNext]_httpVars PROVE NumberInv'
  OBVIOUS
<1>t. /\ at \in [Request -> {"idle", "append", "take", "got", "put", "echo", "refused"}]
      /\ n \in [Request -> Bits] /\ had \in [Request -> [Bits -> SUBSET Bit]]
      /\ alone \in [Request -> BOOLEAN] /\ text \in Seq(Bit) /\ val \in [Request -> Int]
  BY DEF HttpInv, HttpTypeOK
<1>k. (\A q \in Request : NumberStays(q) \/ NumberIsRead(q)') => NumberInv'
  BY NumberKept DEF NumberInv
<1>1. ASSUME NEW r \in Request, Get(r) PROVE NumberInv'
  <2>1. /\ at'[r] = "append" /\ val'[r] = 0
        /\ \A q \in Request \ {r} : /\ at'[q] = at[q] /\ n'[q] = n[q] /\ val'[q] = val[q]
                                    /\ had'[q] = had[q]
                                    /\ alone'[q] => alone[q]
    BY <1>1, <1>t DEF Get, Interrupt
  <2>2. NumberIsRead(r)'
    BY <2>1 DEF NumberIsRead
  <2> QED  BY <1>k, <2>1, <2>2 DEF NumberStays
<1>2. ASSUME NEW r \in Request, AppendBit(r) PROVE NumberInv'
  <2>1. /\ at[r] = "append" /\ at'[r] \in {"append", "take"}
        /\ at'[r] = "take" => n'[r] = 0
        /\ UNCHANGED <<val, had, alone>>
        /\ \A q \in Request \ {r} : at'[q] = at[q] /\ n'[q] = n[q]
    BY <1>2, <1>t DEF AppendBit
  <2>2. alone[r] => val'[r] = 0
    BY <2>1 DEF HttpInv, NumberInv, NumberIsRead
  <2>3. ASSUME alone[r], at'[r] = "take" PROVE NumberOfHighest(r, n[r])'
    <3>1. val'[r] \in 0 .. 2 ^ 0 - 1
      BY <2>2, <2>3, UsbPortAssumption
    <3>2. \A b \in 0 .. 0 - 1 : FALSE
      OBVIOUS
    <3> QED  BY <2>1, <2>3, <3>1, <3>2 DEF NumberOfHighest
  <2>4. NumberIsRead(r)'
    BY <2>1, <2>2, <2>3 DEF NumberIsRead
  <2>5. \A q \in Request \ {r} : NumberStays(q)
    BY <2>1 DEF NumberStays
  <2> QED  BY <1>k, <2>4, <2>5
<1>3. ASSUME NEW r \in Request, TakeBit(r) PROVE NumberInv'
  <2>1. /\ at[r] = "take" /\ at'[r] \in {"take", "got"}
        /\ at'[r] = "take" => n'[r] = n[r] + 1
        /\ at'[r] = "got" => n[r] = Width - 1
        /\ UNCHANGED <<had, alone>>
        /\ \A q \in Request \ {r} : at'[q] = at[q] /\ n'[q] = n[q] /\ val'[q] = val[q]
    BY <1>3, <1>t DEF TakeBit
  <2>2. ASSUME alone[r]
        PROVE  /\ at'[r] = "take" => NumberOfHighest(r, n[r])'
               /\ at'[r] = "got" => NumberOfHighest(r, Width)'
    <3>1. PICK k \in Bits : k = n[r]
      BY <1>t
    <3>2. PICK c \in CharAt(k + 1) : val' = [val EXCEPT ![r] = 2 * @ + c]
      BY <1>3, <3>1 DEF TakeBit
    <3>3. /\ k \in 0 .. Width - 1 /\ k + 1 <= Width /\ Width - (k + 1) = Width - 1 - k
          /\ k = Width - 1 => k + 1 = Width
      BY UsbPortAssumption DEF Bits
    <3>4. Len(text) = Width /\ \A i \in DOMAIN text : text[i] \in had[r][Width - i]
      BY <2>1, <2>2 DEF HttpInv, TextIsOfThePort, Getting
    <3>5. k + 1 \in DOMAIN text
      BY <1>t, <3>3, <3>4, UsbPortAssumption
    <3>6. c \in had[r][Width - 1 - k]
      BY <3>2, <3>3, <3>4, <3>5 DEF CharAt
    <3>7. NumberOfHighest(r, k)
      BY <2>1, <2>2, <3>1 DEF HttpInv, NumberInv, NumberIsRead
    <3>8. NumberOfHighest(r, k + 1)'
      BY <2>1, <3>2, <3>3, <3>6, <3>7, NumberGrows DEF HttpInv
    <3> QED  BY <2>1, <3>1, <3>3, <3>8 DEF NumberOfHighest
  <2>3. NumberIsRead(r)'
    BY <2>1, <2>2 DEF NumberIsRead
  <2> QED  BY <1>k, <2>1, <2>3 DEF NumberStays
<1>4. ASSUME NEW r \in Request,
             ReadReturns(r) \/ PutBit(r) \/ WriteReturns(r) \/ WriteThrows(r)
      PROVE  NumberInv'
  <2>1. /\ at'[r] \notin {"append", "take", "got"}
        /\ \A q \in Request \ {r} : /\ at'[q] = at[q] /\ n'[q] = n[q] /\ val'[q] = val[q]
                                    /\ alone'[q] = alone[q] /\ had'[q] = had[q]
    BY <1>4, <1>t DEF ReadReturns, PutBit, WriteReturns, WriteThrows, Putting
  <2> QED  BY <1>k, <2>1 DEF NumberStays
<1>5. ASSUME NEW r \in Request, NEW v \in Value \cup {Missing},
             PutRefused(r, v) \/ Put(r, v)
      PROVE  NumberInv'
  <2>1. /\ at'[r] \notin {"append", "take", "got"} /\ had' = had
        /\ \A q \in Request \ {r} : /\ at'[q] = at[q] /\ n'[q] = n[q] /\ val'[q] = val[q]
                                    /\ alone'[q] => alone[q]
    BY <1>5, <1>t DEF PutRefused, Put, Interrupt
  <2> QED  BY <1>k, <2>1 DEF NumberStays
<1>6. CASE BoardReads
  <2>1. UNCHANGED <<at, n, val, had>> /\ \A q \in Request : alone'[q] => alone[q]
    BY <1>6, <1>t DEF BoardReads, Interrupt
  <2> QED  BY <1>k, <2>1 DEF NumberStays
<1>7. CASE Cycle
  <2>1. UNCHANGED <<at, n, val, alone>>
    BY <1>7 DEF Cycle
  <2>2. \A q \in Request, b \in Bits : had[q][b] \subseteq had'[q][b]
    BY <1>7, HadGrows DEF HttpInv
  <2> QED  BY <1>k, <2>1, <2>2 DEF NumberStays
<1>8. CASE UNCHANGED httpVars
  BY <1>8, <1>k DEF httpVars, NumberStays
<1> QED
  BY <1>1, <1>2, <1>3, <1>4, <1>5, <1>6, <1>7, <1>8 DEF HttpNext
-----------------------------------------------------------------------------
LEMMA HttpInvariant == HttpSpec => []HttpInv
<1>1. HttpInv /\ [HttpNext]_httpVars => HttpInv'
  BY HttpTypeStep, WriteStep, ReadersStep, PortStep, NumberStep DEF HttpInv
<1> QED  BY <1>1, InitHttpInv, PTL DEF HttpSpec

\* The buffers, numbers and nets of the HTTP handlers keep their types.
THEOREM HttpTypeCorrect == HttpSpec => []HttpTypeOK
<1>1. HttpInv => HttpTypeOK
  BY DEF HttpInv
<1> QED  BY <1>1, HttpInvariant, PTL

\* On ports of any width: a value that write() has returned for is on the port
\* or put on it by the next cycle, unless another PUT ran beside it or came
\* after.
THEOREM WritesAreKept == HttpSpec => []WriteIsKept
<1>1. HttpInv => WriteIsKept
  BY DEF HttpInv
<1> QED  BY <1>1, HttpInvariant, PTL

\* On ports of any width: the number that get_net_val() makes for a read()
\* during which no other thread called vpi_get_value() has only bits that the
\* port had since the request, each at its place, and fits the port.
THEOREM NumbersReadAreOfThePort == HttpSpec => []ReadIsOfThePort
<1>1. HttpInv => ReadIsOfThePort
  <2> SUFFICES ASSUME HttpInv, NEW r \in Request, at[r] = "got", alone[r]
               PROVE  /\ val[r] \in 0 .. 2 ^ Width - 1
                      /\ \A b \in Bits : BitOf(val[r], b) \in had[r][b]
    BY DEF ReadIsOfThePort
  <2>1. NumberOfHighest(r, Width)
    BY DEF HttpInv, NumberInv, NumberIsRead
  <2>2. \A b \in Bits : Width - Width + b = b
    BY UsbPortAssumption DEF Bits
  <2> QED  BY <2>1, <2>2 DEF NumberOfHighest, Bits
<1> QED  BY <1>1, HttpInvariant, PTL

\* While no other thread calls vpi_get_value(), the text that get_net_val()
\* walks over is the port's: every bit was on it since the request.
THEOREM TextsAreOfThePort == HttpSpec => []TextIsOfThePort
<1>1. HttpInv => TextIsOfThePort
  BY DEF HttpInv
<1> QED  BY <1>1, HttpInvariant, PTL
=============================================================================
