-------------------------- MODULE QsfParserProofs --------------------------
(***************************************************************************)
(* Files of any length and any number of lines: what the lexer makes of a  *)
(* line, and that both parsers read a file as it is written.               *)
(***************************************************************************)
EXTENDS QsfParser, SequenceTheorems, WellFoundedInduction, TLAPS

\* A set of numbers has a least one.
LEMMA LeastPlace ==
  ASSUME NEW S \in SUBSET Nat, S # {}
  PROVE  \E k \in S : \A j \in S : k <= j
<1>1. PICK k \in S : \A j \in S : <<j, k>> \notin OpToRel(<, Nat)
  BY NatLessThanWellFounded, WFMin
<1>2. \A j \in S : ~ (j < k) /\ j \in Nat
  BY <1>1 DEF OpToRel
<1> QED  BY <1>2

(* Places in a text                                                        *)

IsPlace(s, i, stop, k) ==
  /\ k \in i .. Len(s) + 1
  /\ k = Len(s) + 1 \/ s[k] \in stop
  /\ \A j \in i .. k - 1 : s[j] \notin stop

\* There always is a place: the end of the text when nothing of stop comes before.
LEMMA PlaceFound ==
  ASSUME NEW D, NEW s \in Seq(D), NEW i \in 1 .. Len(s) + 1, NEW stop
  PROVE  /\ IsPlace(s, i, stop, Place(s, i, stop))
         /\ Place(s, i, stop) \in Nat
<1> DEFINE S == {k \in i .. Len(s) + 1 : k = Len(s) + 1 \/ s[k] \in stop}
<1>1. S \in SUBSET Nat /\ Len(s) + 1 \in S
  OBVIOUS
<1>2. PICK k \in S : \A j \in S : k <= j
  <2> HIDE DEF S
  <2> QED  BY <1>1, LeastPlace
<1>3. IsPlace(s, i, stop, k)
  BY <1>2 DEF IsPlace
<1>4. IsPlace(s, i, stop, Place(s, i, stop))
  BY <1>3 DEF Place, IsPlace
<1> QED  BY <1>4 DEF IsPlace

LEMMA PlaceIs ==
  ASSUME NEW D, NEW s \in Seq(D), NEW i \in 1 .. Len(s) + 1, NEW stop,
         NEW k, IsPlace(s, i, stop, k)
  PROVE  Place(s, i, stop) = k
<1>1. IsPlace(s, i, stop, Place(s, i, stop))
  BY PlaceFound
<1> QED  BY <1>1 DEF IsPlace

\* A place moves with the end of the text until a character of stop is there.
Moved(k, s, c, stop) ==
  IF k <= Len(s) THEN k ELSE IF c \in stop THEN Len(s) + 1 ELSE Len(s) + 2

\* Where a place is in a text that has one more character.
LEMMA PlaceMoves ==
  ASSUME NEW D, NEW s \in Seq(D), NEW i \in 1 .. Len(s) + 1, NEW stop, NEW c \in D
  PROVE  Place(Append(s, c), i, stop) = Moved(Place(s, i, stop), s, c, stop)
<1> DEFINE t == Append(s, c)
           k == Place(s, i, stop)
           m == Moved(k, s, c, stop)
<1>1. t \in Seq(D) /\ Len(t) = Len(s) + 1 /\ t[Len(s) + 1] = c
      /\ \A j \in 1 .. Len(s) : t[j] = s[j]
  OBVIOUS
<1>2. IsPlace(s, i, stop, k)
  BY PlaceFound
<1>3. IsPlace(t, i, stop, m)
  <2> HIDE DEF t, k
  <2> QED  BY <1>1, <1>2 DEF IsPlace, Moved
<1>4. i \in 1 .. Len(t) + 1
  BY <1>1
<1> QED
  <2> HIDE DEF t, m
  <2> QED  BY <1>1, <1>3, <1>4, PlaceIs DEF m, t
-----------------------------------------------------------------------------
(* The tokens, and what a character makes of them                          *)

Mark  == {"#", "\""}
Plain == Char \ ({" ", "\n"} \cup Mark)
Named == {"IDENTIFIER", "ARGUMENT"}

Token == [type : {"IDENTIFIER", "INTEGER", "ARGUMENT"}, text : Seq(Plain)]
         \cup [type : {"STRING", "COMMENT"}, text : Seq(Char \ {"\n", "\""})]

\* The type of the token that a character begins.
Kind(c) ==
  CASE c = "1"  -> "INTEGER"
    [] c = "\"" -> "STRING"
    [] c = "#"  -> "COMMENT"
    [] c = "-"  -> "ARGUMENT"
    [] OTHER    -> "IDENTIFIER"

Lexer == [curr : Token \cup {NoToken}, tokens : Seq(Seq(Token)) \ {<<>>}]

LastLine(s) == s.tokens[Len(s.tokens)]

LEMMA TokenTypes ==
  /\ \A k \in Token : /\ k.type # "WHITESPACE" /\ k # NoToken
                      /\ k = [type |-> k.type, text |-> k.text]
  /\ NoToken.type = "WHITESPACE" /\ NoToken.text = <<>>
<1>1. NoToken.type = "WHITESPACE" /\ NoToken.text = <<>>
  BY DEF NoToken
<1>2. ASSUME NEW k \in Token
      PROVE  k.type # "WHITESPACE" /\ k = [type |-> k.type, text |-> k.text]
  <2>1. CASE k \in [type : {"IDENTIFIER", "INTEGER", "ARGUMENT"}, text : Seq(Plain)]
    BY <2>1
  <2>2. CASE k \in [type : {"STRING", "COMMENT"}, text : Seq(Char \ {"\n", "\""})]
    BY <2>2
  <2> QED  BY <2>1, <2>2 DEF Token
<1> QED  BY <1>1, <1>2

\* end_token() closes the token that is being read, if there is one.
LEMMA TokenEnds ==
  ASSUME NEW s \in Lexer
  PROVE  LET e == EndToken(s) IN
         /\ e \in Lexer /\ e.curr = NoToken
         /\ Len(e.tokens) = Len(s.tokens)
         /\ \A n \in 1 .. Len(s.tokens) - 1 : e.tokens[n] = s.tokens[n]
         /\ LastLine(e) = IF s.curr = NoToken THEN LastLine(s)
                          ELSE Append(LastLine(s), s.curr)
<1>1. s.tokens \in Seq(Seq(Token)) /\ Len(s.tokens) \in Nat \ {0}
      /\ s.curr \in Token \cup {NoToken}
  BY DEF Lexer
<1>2. LastLine(s) \in Seq(Token)
  BY <1>1 DEF LastLine
<1>3. CASE s.curr = NoToken
  <2>1. EndToken(s) = [curr |-> NoToken, tokens |-> s.tokens]
    BY <1>3, TokenTypes DEF EndToken
  <2> QED  BY <2>1, <1>1, <1>3 DEF Lexer, LastLine
<1>4. CASE s.curr \in Token
  <2> DEFINE more == [s.tokens EXCEPT ![Len(s.tokens)] = Append(@, s.curr)]
  <2>1. EndToken(s) = [curr |-> NoToken, tokens |-> more]
    BY <1>4, TokenTypes DEF EndToken
  <2>2. /\ more \in Seq(Seq(Token)) /\ Len(more) = Len(s.tokens)
        /\ \A n \in 1 .. Len(s.tokens) - 1 : more[n] = s.tokens[n]
        /\ more[Len(s.tokens)] = Append(LastLine(s), s.curr)
    BY <1>1, <1>2, <1>4 DEF LastLine
  <2>3. s.curr # NoToken
    BY <1>4, TokenTypes
  <2> HIDE DEF more
  <2> QED  BY <2>1, <2>2, <2>3, <1>1 DEF Lexer, LastLine
<1> QED  BY <1>1, <1>3, <1>4

\* What a character within a line may do to the line's tokens and curr.
Reads(toks, curr0, c, toks1, curr1) ==
  \/ curr0 = NoToken /\ c = " " /\ toks1 = toks /\ curr1 = NoToken
  \/ /\ curr0 = NoToken /\ c # " " /\ toks1 = toks
     /\ curr1.type = Kind(c) /\ (Kind(c) \in Named => curr1.text = <<c>>)
  \/ /\ curr0.type \in Named /\ c = " "
     /\ toks1 = Append(toks, curr0) /\ curr1 = NoToken
  \/ /\ curr0.type \in Named /\ c \in Mark
     /\ toks1 = Append(toks, curr0) /\ curr1.type = Kind(c)
  \/ /\ curr0.type \in Named /\ c \notin Mark /\ c # " " /\ toks1 = toks
     /\ curr1.type = curr0.type /\ curr1.text = Append(curr0.text, c)
  \/ /\ curr0 # NoToken /\ curr0.type \notin Named
     /\ \/ toks1 = toks /\ curr1.type = curr0.type
        \/ toks1 = Append(toks, curr0)

\* Read() keeps the lines that are over, and of the last one what Reads says.
LEMMA CharacterRead ==
  ASSUME NEW s \in Lexer, NEW c \in Char \ {"\n"}
  PROVE  LET r == Read(s, c) IN
         /\ r \in Lexer
         /\ Len(r.tokens) = Len(s.tokens)
         /\ \A n \in 1 .. Len(s.tokens) - 1 : r.tokens[n] = s.tokens[n]
         /\ Reads(LastLine(s), s.curr, c, LastLine(r), r.curr)
<1> DEFINE e == EndToken(s)
<1>1. /\ s.tokens \in Seq(Seq(Token)) \ {<<>>} /\ s.curr \in Token \cup {NoToken}
      /\ s = [curr |-> s.curr, tokens |-> s.tokens]
  BY DEF Lexer
<1>2. /\ e.tokens \in Seq(Seq(Token)) \ {<<>>} /\ e.curr = NoToken
      /\ e = [curr |-> e.curr, tokens |-> e.tokens]
      /\ Len(e.tokens) = Len(s.tokens)
      /\ \A n \in 1 .. Len(s.tokens) - 1 : e.tokens[n] = s.tokens[n]
      /\ LastLine(e) = IF s.curr = NoToken THEN LastLine(s)
                       ELSE Append(LastLine(s), s.curr)
  BY TokenEnds DEF Lexer
<1>3. ASSUME NEW type, NEW text, [type |-> type, text |-> text] \in Token
      PROVE  /\ Begin(e, type, text) = [curr |-> [type |-> type, text |-> text],
                                        tokens |-> e.tokens]
             /\ Begin(s, type, text) = [curr |-> [type |-> type, text |-> text],
                                        tokens |-> s.tokens]
  BY <1>1, <1>2 DEF Begin
<1>4. Extend(s, c) = [curr |-> [type |-> s.curr.type, text |-> Append(s.curr.text, c)],
                      tokens |-> s.tokens]
  <2>1. s.curr = [type |-> s.curr.type, text |-> s.curr.text]
    <3>1. NoToken = [type |-> NoToken.type, text |-> NoToken.text]
      BY DEF NoToken
    <3> QED  BY <1>1, TokenTypes, <3>1
  <2>2. Extend(s, c) = [s EXCEPT !.curr = [s.curr EXCEPT !.text = Append(s.curr.text, c)]]
    BY DEF Extend
  <2>3. [s.curr EXCEPT !.text = Append(s.curr.text, c)]
          = [type |-> s.curr.type, text |-> Append(s.curr.text, c)]
    BY <2>1
  <2> QED  BY <1>1, <2>2, <2>3
<1> DEFINE r == Read(s, c)
<1> SUFFICES /\ r \in Lexer /\ Len(r.tokens) = Len(s.tokens)
             /\ \A n \in 1 .. Len(s.tokens) - 1 : r.tokens[n] = s.tokens[n]
             /\ Reads(LastLine(s), s.curr, c, LastLine(r), r.curr)
  OBVIOUS
<1>5. ASSUME NEW l \in {s, e}, NEW k \in Token \cup {NoToken},
             r.curr = k, r = [curr |-> k, tokens |-> l.tokens]
      PROVE  /\ r \in Lexer /\ Len(r.tokens) = Len(s.tokens)
             /\ \A n \in 1 .. Len(s.tokens) - 1 : r.tokens[n] = s.tokens[n]
             /\ LastLine(r) = IF l = s \/ s.curr = NoToken THEN LastLine(s)
                              ELSE Append(LastLine(s), s.curr)
  <2>1. r.tokens = l.tokens /\ l.tokens \in Seq(Seq(Token)) \ {<<>>}
    BY <1>1, <1>2, <1>5
  <2>2. r \in Lexer
    BY <1>5, <2>1 DEF Lexer
  <2> QED  BY <1>1, <1>2, <1>5, <2>1, <2>2 DEF LastLine
<1>6. c \in Plain \cup Mark \cup {" "} /\ c \in Char
  BY DEF Plain, Mark
<1>7. \A x \in Plain : /\ x # " " /\ x # "\n" /\ x \notin Mark /\ x \in Char
  BY DEF Plain, Mark
<1>8. CASE s.curr = NoToken
  <2>1. CASE c = " "
    <3>1. r = e
      BY <1>8, <2>1, TokenTypes DEF Read, Blank, In
    <3>2. r = [curr |-> NoToken, tokens |-> e.tokens]
      BY <1>2, <3>1
    <3> HIDE DEF r, e
    <3> QED  BY <1>2, <1>5, <1>8, <2>1, <3>1, <3>2 DEF Reads
  <2>2. CASE c # " "
    <3> DEFINE k == [type |-> Kind(c), text |-> IF c \in Mark THEN <<>> ELSE <<c>>]
    <3>1. k \in Token
      <4>1. CASE c \in Mark
        <5>1. Kind(c) \in {"STRING", "COMMENT"}
          BY <4>1 DEF Kind, Mark
        <5>2. k = [type |-> Kind(c), text |-> <<>>] /\ <<>> \in Seq(Char \ {"\n", "\""})
          BY <4>1
        <5> HIDE DEF k
        <5> QED  BY <5>1, <5>2 DEF Token
      <4>2. CASE c \in Plain
        <5>1. c \notin Mark
          BY <4>2, <1>7
        <5>3. <<c>> \in Seq(Plain)
          BY <4>2
        <5>2. Kind(c) \in {"IDENTIFIER", "INTEGER", "ARGUMENT"}
          BY <5>1 DEF Kind, Mark
        <5> QED  BY <5>1, <5>2, <5>3 DEF Token
      <4> QED  BY <4>1, <4>2, <2>2, <1>6
    <3>2. \E l \in {s, e} : r = Begin(l, k.type, k.text)
      BY <1>8, <2>2, <1>6, TokenTypes
      DEF Read, Digit, Quote, Hash, Dash, Other, In, Kind, Mark
    <3>3. PICK l \in {s, e} : r = [curr |-> k, tokens |-> l.tokens]
      <4> HIDE DEF r, e
      <4> QED  BY <3>1, <3>2, <1>3
    <3>4. r.curr = k
      BY <3>3
    <3>5. /\ r \in Lexer /\ Len(r.tokens) = Len(s.tokens)
          /\ \A n \in 1 .. Len(s.tokens) - 1 : r.tokens[n] = s.tokens[n]
          /\ LastLine(r) = LastLine(s)
      <4> HIDE DEF r, e, k
      <4> QED  BY <3>1, <3>3, <3>4, <1>5, <1>8
    <3>6. r.curr.type = Kind(c) /\ (Kind(c) \in Named => r.curr.text = <<c>>)
      <4>1. r.curr.type = Kind(c) /\ (c \notin Mark => r.curr.text = <<c>>)
        <5> HIDE DEF r
        <5> QED  BY <3>4
      <4>2. c \in Mark => Kind(c) \notin Named
        BY DEF Kind, Mark, Named
      <4> QED  BY <4>1, <4>2
    <3> QED
      <4> HIDE DEF r, e, k
      <4> QED  BY <1>8, <2>2, <3>5, <3>6 DEF Reads
  <2> QED  BY <2>1, <2>2
<1> DEFINE longer == [type |-> s.curr.type, text |-> Append(s.curr.text, c)]
           Kept == /\ r \in Lexer /\ Len(r.tokens) = Len(s.tokens)
                   /\ \A n \in 1 .. Len(s.tokens) - 1 : r.tokens[n] = s.tokens[n]
<1>9. ASSUME r = e, s.curr \in Token
      PROVE  Kept /\ r.curr = NoToken /\ LastLine(r) = Append(LastLine(s), s.curr)
  <2>1. r = [curr |-> NoToken, tokens |-> e.tokens] /\ r.curr = NoToken
    BY <1>2, <1>9
  <2>2. s.curr # NoToken
    BY <1>9, TokenTypes
  <2> HIDE DEF r, e
  <2>3. r.tokens = e.tokens /\ r \in Lexer
    BY <1>2, <2>1 DEF Lexer
  <2> QED  BY <1>2, <2>1, <2>2, <2>3 DEF LastLine
<1>10. ASSUME NEW k \in Token, r = Begin(e, k.type, k.text), s.curr \in Token
       PROVE  Kept /\ r.curr = k /\ LastLine(r) = Append(LastLine(s), s.curr)
  <2>1. s.curr # NoToken /\ k = [type |-> k.type, text |-> k.text]
    BY <1>10, TokenTypes
  <2>2. r = [curr |-> k, tokens |-> e.tokens]
    <3> HIDE DEF r, e
    <3> QED  BY <1>3, <1>10, <2>1
  <2>3. r.curr = k /\ r.tokens = e.tokens
    BY <2>2
  <2> HIDE DEF r, e
  <2> QED  BY <1>2, <2>1, <2>2, <2>3 DEF Lexer, LastLine
<1>11. ASSUME r = Extend(s, c), longer \in Token
       PROVE  Kept /\ r.curr = longer /\ LastLine(r) = LastLine(s)
  <2>1. r.curr = longer /\ r.tokens = s.tokens /\ r = [curr |-> longer, tokens |-> s.tokens]
    BY <1>4, <1>11
  <2> HIDE DEF r, longer
  <2> QED  BY <1>1, <1>11, <2>1 DEF Lexer, LastLine
<1>12. ASSUME s.curr \in Token, s.curr.type \in Named \cup {"INTEGER"}, c \in Plain
       PROVE  longer \in Token
  <2>1. s.curr.text \in Seq(Plain)
    BY <1>12 DEF Token, Named
  <2>2. Append(s.curr.text, c) \in Seq(Plain)
    BY <2>1, <1>12
  <2> QED  BY <2>2, <1>12 DEF Token, Named
<1>13. ASSUME s.curr \in Token, s.curr.type \in {"STRING", "COMMENT"}, c # "\""
       PROVE  longer \in Token
  <2>1. s.curr.text \in Seq(Char \ {"\n", "\""})
    BY <1>13 DEF Token
  <2>3. c \in Char \ {"\n", "\""}
    BY <1>13
  <2>2. Append(s.curr.text, c) \in Seq(Char \ {"\n", "\""})
    BY <2>1, <2>3, AppendProperties
  <2> QED  BY <2>2, <1>13 DEF Token
<1>14. c \in Mark => [type |-> Kind(c), text |-> <<>>] \in Token
  <2>1. c \in Mark => Kind(c) \in {"STRING", "COMMENT"}
    BY DEF Kind, Mark
  <2>2. <<>> \in Seq(Char \ {"\n", "\""})
    OBVIOUS
  <2> QED  BY <2>1, <2>2 DEF Token
<1>15. CASE s.curr \in Token /\ s.curr.type \in Named
  <2>1. CASE c = " "
    <3>1. r = e
      BY <1>15, <2>1 DEF Read, Blank, In, Named
    <3> HIDE DEF r, e
    <3> QED  BY <1>9, <1>15, <2>1, <3>1 DEF Reads
  <2>2. CASE c \in Mark
    <3> DEFINE k == [type |-> Kind(c), text |-> <<>>]
    <3>1. r = Begin(e, Kind(c), <<>>)
      BY <1>15, <2>2 DEF Read, Quote, Hash, In, Named, Mark, Kind
    <3>2. k \in Token /\ k.type = Kind(c) /\ k.text = <<>>
      BY <1>14, <2>2
    <3> HIDE DEF r, e, k
    <3>3. Kept /\ r.curr = k /\ LastLine(r) = Append(LastLine(s), s.curr)
      BY <1>10, <1>15, <3>1, <3>2
    <3> QED  BY <1>15, <2>2, <3>2, <3>3 DEF Reads
  <2>3. CASE c \in Plain
    <3>1. r = Extend(s, c)
      BY <1>15, <1>7, <2>3 DEF Read, Digit, Dash, Other, In, Named, Mark
    <3>2. longer \in Token /\ c \notin Mark \cup {" "}
      BY <1>7, <1>12, <1>15, <2>3
    <3>3. Kept /\ r.curr = longer /\ LastLine(r) = LastLine(s)
      <4> HIDE DEF r, longer
      <4> QED  BY <1>11, <3>1, <3>2
    <3>4. longer.type = s.curr.type /\ longer.text = Append(s.curr.text, c)
      OBVIOUS
    <3> HIDE DEF r, longer
    <3> QED  BY <1>15, <3>2, <3>3, <3>4 DEF Reads
  <2> QED  BY <1>6, <2>1, <2>2, <2>3
<1>16. CASE s.curr \in Token /\ s.curr.type \notin Named
  <2>1. s.curr.type \in {"INTEGER", "STRING", "COMMENT"} /\ s.curr # NoToken
    BY <1>16, TokenTypes DEF Token, Named
  <2>2. \/ r = e
        \/ r = Extend(s, c) /\ longer \in Token
        \/ \E k \in Token : r = Begin(e, k.type, k.text)
    <3>1. CASE s.curr.type = "INTEGER"
      <4>1. CASE c = " "
        BY <3>1, <4>1 DEF Read, Blank, In
      <4>2. CASE c \in Mark
        <5>1. r = Begin(e, Kind(c), <<>>)
          BY <3>1, <4>2 DEF Read, Quote, Hash, In, Mark, Kind
        <5> QED
          <6> HIDE DEF r, e
          <6> QED  BY <5>1, <1>14, <4>2
      <4>3. CASE c \in {"1", "-"}
        <5>1. r = Extend(s, c) /\ c \in Plain
          BY <3>1, <4>3 DEF Read, Digit, Dash, In, Plain, Char, Mark
        <5> QED
          <6> HIDE DEF r, longer
          <6> QED  BY <5>1, <1>12, <1>16, <3>1
      <4>4. CASE c \in Plain \ {"1", "-"}
        <5> DEFINE k == [type |-> "IDENTIFIER", text |-> <<c>>]
        <5>1. r = Begin(e, "IDENTIFIER", <<c>>)
          BY <3>1, <4>4, <1>7 DEF Read, Other, In, Mark
        <5>2. <<c>> \in Seq(Plain)
          BY <4>4
        <5>3. k \in Token
          BY <5>2 DEF Token
        <5> QED  BY <5>1, <5>3
      <4> QED  BY <1>6, <4>1, <4>2, <4>3, <4>4
    <3>2. CASE s.curr.type = "STRING"
      <4>1. CASE c = "\""
        BY <3>2, <4>1 DEF Read, Quote, In
      <4>2. CASE c # "\""
        <5>1. r = Extend(s, c)
          BY <3>2, <4>2 DEF Read, Digit, Hash, Dash, Blank, Other, In
        <5> HIDE DEF r, longer
        <5> QED  BY <5>1, <1>13, <1>16, <3>2, <4>2
      <4> QED  BY <4>1, <4>2
    <3>3. CASE s.curr.type = "COMMENT"
      <4>1. CASE c \in Mark
        <5>1. r = Begin(e, Kind(c), <<>>)
          BY <3>3, <4>1 DEF Read, Quote, Hash, In, Mark, Kind
        <5> QED
          <6> HIDE DEF r, e
          <6> QED  BY <5>1, <1>14, <4>1
      <4>2. CASE c \notin Mark
        <5>1. r = Extend(s, c) /\ c # "\""
          BY <3>3, <4>2 DEF Read, Digit, Dash, Blank, Other, In, Mark
        <5> HIDE DEF r, longer
        <5> QED  BY <5>1, <1>13, <1>16, <3>3
      <4> QED  BY <4>1, <4>2
    <3> QED  BY <2>1, <3>1, <3>2, <3>3
  <2>3. longer.type = s.curr.type
    OBVIOUS
  <2> HIDE DEF r, e, longer
  <2>4. CASE r = e
    BY <1>9, <1>16, <2>1, <2>4 DEF Reads
  <2>5. CASE r = Extend(s, c) /\ longer \in Token
    BY <1>11, <1>16, <2>1, <2>3, <2>5 DEF Reads
  <2>6. CASE \E k \in Token : r = Begin(e, k.type, k.text)
    BY <1>10, <1>16, <2>1, <2>6 DEF Reads
  <2> QED  BY <2>2, <2>4, <2>5, <2>6
<1> QED
  BY <1>1, <1>8, <1>15, <1>16
-----------------------------------------------------------------------------
(* The words of a line, and its tokens: t is what was read of the line,    *)
(* toks its tokens and cur the one being read.                             *)

AllTokens(toks, cur) == IF cur = NoToken THEN toks ELSE Append(toks, cur)

\* Where a name or an argument that begins at i ends.
Break == {" "} \cup Mark

PieceEnd(t, i) == Place(t, i, Break)

\* The k-th word of the line, which is at i, is its k-th token: of its kind,
\* and as long as the word is plain.
WordRead(k, t, i, toks, cur) ==
  LET all == AllTokens(toks, cur)
      e   == PieceEnd(t, i)
  IN  /\ i > Len(t) => Len(all) = k - 1 /\ cur = NoToken
      /\ i <= Len(t) =>
           /\ Len(all) >= k /\ all[k].type = Kind(t[i])
           /\ Kind(t[i]) \in Named =>
                /\ all[k].text = SubSeq(t, i, e - 1)
                /\ e > Len(t) => Len(all) = k /\ cur # NoToken
                /\ e <= Len(t) => k <= Len(toks)
                /\ e <= Len(t) /\ t[e] \in Mark =>
                     Len(all) > k /\ all[k + 1].type \notin Named

\* The word at i is plain to its end, and the line goes on.
Ended(t, i) ==
  /\ i <= Len(t) /\ Kind(t[i]) \in Named
  /\ PieceEnd(t, i) <= Len(t) /\ t[PieceEnd(t, i)] = " "

\* The first four words, each as long as those before it are plain.
LineRead(t, toks, cur) ==
  LET w == WordStarts(t)
  IN  /\ WordRead(1, t, w[1], toks, cur)
      /\ Ended(t, w[1]) =>
           /\ WordRead(2, t, w[2], toks, cur)
           /\ Ended(t, w[2]) =>
                /\ WordRead(3, t, w[3], toks, cur)
                /\ Ended(t, w[3]) => WordRead(4, t, w[4], toks, cur)

\* The tokens of a line with the one that is being read.
LEMMA AllTokensAre ==
  ASSUME NEW toks \in Seq(Token), NEW cur \in Token \cup {NoToken}
  PROVE  /\ AllTokens(toks, cur) \in Seq(Token) /\ Len(toks) \in Nat
         /\ \A k \in 1 .. Len(toks) : AllTokens(toks, cur)[k] = toks[k]
         /\ cur = NoToken => Len(AllTokens(toks, cur)) = Len(toks)
         /\ cur # NoToken => /\ Len(AllTokens(toks, cur)) = Len(toks) + 1
                             /\ AllTokens(toks, cur)[Len(toks) + 1] = cur
<1>1. CASE cur = NoToken
  BY <1>1 DEF AllTokens
<1>2. CASE cur # NoToken
  <2>1. cur \in Token /\ AllTokens(toks, cur) = Append(toks, cur)
    BY <1>2 DEF AllTokens
  <2> QED  BY <1>2, <2>1, AppendProperties
<1> QED  BY <1>1, <1>2

\* A character adds to the tokens of a line and changes no type.
Grown(toks, all, toks1, all1) ==
  /\ Len(all1) >= Len(all) /\ Len(toks1) >= Len(toks)
  /\ \A k \in 1 .. Len(all) : all1[k].type = all[k].type
  /\ \A k \in 1 .. Len(toks) : toks1[k] = toks[k] /\ all1[k] = toks[k]

\* A character takes no token back and changes no token's type.
LEMMA TokensGrow ==
  ASSUME NEW toks \in Seq(Token), NEW cur \in Token \cup {NoToken}, NEW c,
         NEW toks1 \in Seq(Token), NEW cur1 \in Token \cup {NoToken},
         Reads(toks, cur, c, toks1, cur1)
  PROVE  Grown(toks, AllTokens(toks, cur), toks1, AllTokens(toks1, cur1))
<1> DEFINE all  == AllTokens(toks, cur)
           all1 == AllTokens(toks1, cur1)
<1> SUFFICES Grown(toks, all, toks1, all1)
  OBVIOUS
<1>1. toks1 = toks \/ (cur # NoToken /\ toks1 = Append(toks, cur))
  BY TokenTypes DEF Reads, Named
<1>2. cur # NoToken /\ toks1 = toks => cur1 # NoToken /\ cur1.type = cur.type
  <2>1. cur # NoToken => Append(toks, cur) # toks
    OBVIOUS
  <2> QED  BY <2>1, TokenTypes DEF Reads, Named
<1>3. /\ all \in Seq(Token) /\ Len(toks) \in Nat
      /\ \A k \in 1 .. Len(toks) : all[k] = toks[k]
      /\ cur = NoToken => Len(all) = Len(toks)
      /\ cur # NoToken => Len(all) = Len(toks) + 1 /\ all[Len(toks) + 1] = cur
  BY AllTokensAre
<1>4. /\ all1 \in Seq(Token) /\ Len(toks1) \in Nat
      /\ \A k \in 1 .. Len(toks1) : all1[k] = toks1[k]
      /\ cur1 = NoToken => Len(all1) = Len(toks1)
      /\ cur1 # NoToken => Len(all1) = Len(toks1) + 1 /\ all1[Len(toks1) + 1] = cur1
  BY AllTokensAre
<1> HIDE DEF all, all1
<1>5. CASE toks1 = toks /\ cur = NoToken
  <2>1. Len(all) = Len(toks) /\ Len(all1) >= Len(all)
    BY <1>3, <1>4, <1>5
  <2> QED  BY <1>3, <1>4, <1>5, <2>1 DEF Grown
<1>6. CASE toks1 = toks /\ cur # NoToken
  <2>1. /\ Len(all) = Len(toks) + 1 /\ Len(all1) = Len(toks) + 1
        /\ all1[Len(toks) + 1].type = all[Len(toks) + 1].type
    BY <1>2, <1>3, <1>4, <1>6
  <2>2. \A k \in 1 .. Len(all) : k \in 1 .. Len(toks) \/ k = Len(toks) + 1
    BY <1>3, <2>1
  <2> QED  BY <1>3, <1>4, <1>6, <2>1, <2>2 DEF Grown
<1>7. CASE cur # NoToken /\ toks1 = Append(toks, cur)
  <2>1. /\ Len(toks1) = Len(toks) + 1 /\ toks1[Len(toks) + 1] = cur
        /\ \A k \in 1 .. Len(toks) : toks1[k] = toks[k]
    BY <1>7, AppendProperties
  <2>2. Len(all) = Len(toks) + 1 /\ all[Len(toks) + 1] = cur
    BY <1>3, <1>7
  <2>3. Len(all1) >= Len(all)
    BY <1>3, <1>4, <2>1, <2>2
  <2>4. \A k \in 1 .. Len(all) : all1[k] = all[k]
    <3> TAKE k \in 1 .. Len(all)
    <3>1. k \in 1 .. Len(toks1) /\ (k \in 1 .. Len(toks) \/ k = Len(toks) + 1)
      BY <1>3, <2>1, <2>2
    <3> QED  BY <1>3, <1>4, <2>1, <2>2, <3>1
  <2>5. \A k \in 1 .. Len(toks) : all1[k] = toks[k]
    BY <1>3, <2>2, <2>4
  <2> QED  BY <1>3, <2>1, <2>3, <2>4, <2>5 DEF Grown
<1> QED  BY <1>1, <1>5, <1>6, <1>7

\* What a line is made of.
Glyph == Char \ {"\n"}

LEMMA GlyphIs ==
  ASSUME NEW c \in Glyph
  PROVE  /\ c \in Char \ {"\n"} /\ c \in Plain \cup Break
         /\ c \in Plain => c \notin Break
         /\ c \in Solid <=> c # " "
  BY DEF Glyph, Plain, Mark, Solid, Break

LEMMA KindIs ==
  ASSUME NEW c
  PROVE  /\ Kind(c) # "WHITESPACE" /\ (c \in Mark => Kind(c) \notin Named /\ c # " ")
         /\ c \in Break <=> c = " " \/ c \in Mark
  BY DEF Mark, Kind, Named, Break

\* A text with one more character, and its pieces.
LEMMA TextGrows ==
  ASSUME NEW D, NEW t \in Seq(D), NEW c \in D
  PROVE  /\ Append(t, c) \in Seq(D) /\ Len(Append(t, c)) = Len(t) + 1
         /\ Append(t, c)[Len(t) + 1] = c
         /\ \A j \in 1 .. Len(t) : Append(t, c)[j] = t[j]
         /\ \A i \in 1 .. Len(t) + 1 : \A e \in i - 1 .. Len(t) :
              SubSeq(Append(t, c), i, e) = SubSeq(t, i, e)
         /\ \A i \in 1 .. Len(t) + 1 :
              SubSeq(Append(t, c), i, Len(t) + 1) = Append(SubSeq(t, i, Len(t)), c)
<1> DEFINE t1 == Append(t, c)
<1>1. /\ t1 \in Seq(D) /\ Len(t1) = Len(t) + 1 /\ t1[Len(t) + 1] = c
      /\ \A j \in 1 .. Len(t) : t1[j] = t[j]
  OBVIOUS
<1> HIDE DEF t1
<1>2. ASSUME NEW i \in 1 .. Len(t) + 1, NEW e \in i - 1 .. Len(t)
      PROVE  SubSeq(t1, i, e) = SubSeq(t, i, e)
  <2>1. /\ SubSeq(t1, i, e) \in Seq(D) /\ SubSeq(t, i, e) \in Seq(D)
        /\ Len(SubSeq(t1, i, e)) = e - i + 1 /\ Len(SubSeq(t, i, e)) = e - i + 1
        /\ \A j \in 1 .. e - i + 1 : SubSeq(t1, i, e)[j] = t1[i + j - 1]
                                     /\ SubSeq(t, i, e)[j] = t[i + j - 1]
    BY <1>1, SubSeqProperties
  <2> QED  BY <1>1, <2>1, SeqEqual
<1>3. ASSUME NEW i \in 1 .. Len(t) + 1
      PROVE  SubSeq(t1, i, Len(t) + 1) = Append(SubSeq(t, i, Len(t)), c)
  <2> DEFINE u == SubSeq(t1, i, Len(t) + 1)
             v == SubSeq(t, i, Len(t))
             w == Append(v, c)
  <2>1. /\ u \in Seq(D) /\ v \in Seq(D)
        /\ Len(u) = Len(t) + 2 - i /\ Len(v) = Len(t) + 1 - i
        /\ \A j \in 1 .. Len(t) + 2 - i : u[j] = t1[i + j - 1]
        /\ \A j \in 1 .. Len(t) + 1 - i : v[j] = t[i + j - 1]
    BY <1>1, SubSeqProperties
  <2>2. /\ w \in Seq(D) /\ Len(w) = Len(v) + 1 /\ w[Len(v) + 1] = c
        /\ \A j \in 1 .. Len(v) : w[j] = v[j]
    <3> HIDE DEF v
    <3> QED  BY <2>1
  <2> HIDE DEF u, v, w
  <2>3. ASSUME NEW j \in 1 .. Len(u)
        PROVE  u[j] = w[j]
    <3>1. CASE j \in 1 .. Len(v)
      <4>1. i + j - 1 \in 1 .. Len(t)
        BY <2>1, <3>1
      <4> QED  BY <1>1, <2>1, <2>2, <3>1, <4>1
    <3>2. CASE j = Len(v) + 1
      <4>1. i + j - 1 = Len(t) + 1
        BY <2>1, <3>2
      <4> QED  BY <1>1, <2>1, <2>2, <3>2, <4>1
    <3> QED  BY <2>1, <3>1, <3>2
  <2>5. Len(u) = Len(w)
    BY <2>1, <2>2
  <2>4. u = w
    BY <2>1, <2>2, <2>3, <2>5, SeqEqual
  <2> QED  BY <2>4 DEF u, v, w
<1> QED  BY <1>1, <1>2, <1>3 DEF t1

\* A word that was begun.
LEMMA WordGoesOn ==
  ASSUME NEW D, NEW t \in Seq(D), NEW c \in D, NEW k \in Nat, k >= 1, NEW i \in 1 .. Len(t),
         NEW toks \in Seq(Token), NEW cur \in Token \cup {NoToken},
         NEW toks1 \in Seq(Token), NEW cur1 \in Token \cup {NoToken},
         Reads(toks, cur, c, toks1, cur1), WordRead(k, t, i, toks, cur)
  PROVE  WordRead(k, Append(t, c), i, toks1, cur1)
<1> DEFINE t1   == Append(t, c)
           all  == AllTokens(toks, cur)
           all1 == AllTokens(toks1, cur1)
           e    == PieceEnd(t, i)
           e1   == PieceEnd(t1, i)
<1> SUFFICES WordRead(k, t1, i, toks1, cur1)
  OBVIOUS
<1>0. Len(t) \in Nat /\ Len(t1) = Len(t) + 1 /\ i \in Nat /\ i - 1 \in Nat /\ i <= Len(t)
  <2>1. Len(t) \in Nat /\ Len(t1) = Len(t) + 1
    BY AppendProperties
  <2> QED  BY <2>1
<1>1. /\ t1 \in Seq(D) /\ t1[Len(t) + 1] = c
      /\ \A j \in 1 .. Len(t) : t1[j] = t[j]
      /\ \A x \in i - 1 .. Len(t) : SubSeq(t1, i, x) = SubSeq(t, i, x)
      /\ SubSeq(t1, i, Len(t) + 1) = Append(SubSeq(t, i, Len(t)), c)
  BY TextGrows
<1>2. /\ e \in Nat /\ i <= e /\ e <= Len(t) + 1
      /\ e <= Len(t) => e1 = e
      /\ e > Len(t) /\ c \in Break => e1 = Len(t) + 1
      /\ e > Len(t) /\ c \notin Break => e1 = Len(t) + 2
  <2>1. i \in 1 .. Len(t) + 1
    OBVIOUS
  <2>2. Place(t, i, Break) \in i .. Len(t) + 1 /\ Place(t, i, Break) \in Nat
    BY <2>1, PlaceFound DEF IsPlace
  <2>3. Place(t1, i, Break) = Moved(Place(t, i, Break), t, c, Break)
    BY <2>1, PlaceMoves
  <2>4. e = Place(t, i, Break) /\ e1 = Moved(e, t, c, Break)
    BY <2>3 DEF PieceEnd
  <2> HIDE DEF t1
  <2>5. i <= e /\ e <= Len(t) + 1 /\ e \in Nat
    <3> HIDE DEF e
    <3> QED  BY <1>0, <2>2, <2>4
  <2> HIDE DEF e, e1
  <2> QED  BY <1>0, <2>4, <2>5 DEF Moved
<1> HIDE DEF t1
<1>3. Grown(toks, all, toks1, all1)
  BY TokensGrow
<1>8. /\ all \in Seq(Token) /\ Len(toks) \in Nat
      /\ \A j \in 1 .. Len(toks) : all[j] = toks[j]
      /\ cur # NoToken => Len(all) = Len(toks) + 1 /\ all[Len(toks) + 1] = cur
  BY AllTokensAre
<1>9. /\ all1 \in Seq(Token) /\ Len(toks1) \in Nat
      /\ \A j \in 1 .. Len(toks1) : all1[j] = toks1[j]
      /\ cur1 = NoToken => Len(all1) = Len(toks1)
      /\ cur1 # NoToken => Len(all1) = Len(toks1) + 1 /\ all1[Len(toks1) + 1] = cur1
  BY AllTokensAre
<1>4. /\ Len(all) >= k /\ all[k].type = Kind(t[i])
      /\ Kind(t[i]) \in Named =>
           /\ all[k].text = SubSeq(t, i, e - 1)
           /\ e > Len(t) => Len(all) = k /\ cur # NoToken
           /\ e <= Len(t) => k <= Len(toks)
           /\ e <= Len(t) /\ t[e] \in Mark => Len(all) > k /\ all[k + 1].type \notin Named
  BY DEF WordRead
<1>10. e - 1 \in i - 1 .. Len(t)
  <2> HIDE DEF e, e1, all, all1
  <2> QED  BY <1>0, <1>2
<1> DEFINE Goal == /\ all1[k].text = SubSeq(t1, i, e1 - 1)
                   /\ e1 > Len(t1) => Len(all1) = k /\ cur1 # NoToken
                   /\ e1 <= Len(t1) => k <= Len(toks1)
                   /\ e1 <= Len(t1) /\ t1[e1] \in Mark =>
                        Len(all1) > k /\ all1[k + 1].type \notin Named
<1> HIDE DEF all, all1, e, e1
<1>11. Kind(t[i]) \in Named => Goal
  <2> SUFFICES ASSUME Kind(t[i]) \in Named PROVE Goal
    OBVIOUS
  <2>1. /\ all[k].text = SubSeq(t, i, e - 1)
        /\ e > Len(t) => Len(all) = k /\ cur # NoToken
        /\ e <= Len(t) => k <= Len(toks)
        /\ e <= Len(t) /\ t[e] \in Mark => Len(all) > k /\ all[k + 1].type \notin Named
    BY <1>4
  <2>2. CASE e <= Len(t)
    <3>5. e1 = e /\ e1 <= Len(t1) /\ e \in 1 .. Len(t)
      BY <1>0, <1>2, <2>2
    <3>1. t1[e] = t[e] /\ SubSeq(t1, i, e - 1) = SubSeq(t, i, e - 1)
      BY <1>1, <1>10, <3>5
    <3>2. k <= Len(toks) /\ k <= Len(toks1) /\ all1[k] = all[k]
      BY <1>3, <1>8, <1>9, <2>1, <2>2 DEF Grown
    <3>3. t[e] \in Mark => Len(all1) > k /\ all1[k + 1].type \notin Named
      <4> SUFFICES ASSUME t[e] \in Mark PROVE Len(all1) > k /\ all1[k + 1].type \notin Named
        OBVIOUS
      <4>1. k + 1 \in 1 .. Len(all) /\ all[k + 1].type \notin Named
        BY <1>8, <2>1, <2>2
      <4> QED  BY <1>3, <1>8, <1>9, <4>1 DEF Grown
    <3>4. ~ (e1 > Len(t1))
      BY <1>0, <1>2, <3>5
    <3> QED  BY <2>1, <3>1, <3>2, <3>3, <3>4, <3>5
  <2>3. CASE e > Len(t)
    <3>1. e = Len(t) + 1 /\ e - 1 = Len(t)
      BY <1>0, <1>2, <2>3
    <3>2. Len(all) = k /\ cur # NoToken /\ all[k].text = SubSeq(t, i, Len(t))
      BY <2>1, <2>3, <3>1
    <3>3. Len(toks) = k - 1 /\ all[k] = cur /\ cur \in Token
      BY <1>8, <3>2
    <3>4. cur.type \in Named /\ cur.text = SubSeq(t, i, Len(t)) /\ cur.type # "WHITESPACE"
      BY <1>4, <3>2, <3>3, TokenTypes
    <3>8. c \in Break => e1 = Len(t) + 1 /\ e1 - 1 = Len(t) /\ e1 <= Len(t1) /\ ~ (e1 > Len(t1))
      BY <1>0, <1>2, <2>3
    <3>5. CASE c = " "
      <4>1. c \in Break /\ c \notin Mark
        BY <3>5, KindIs
      <4>2. toks1 = Append(toks, cur) /\ cur1 = NoToken
        BY <3>2, <3>4, <3>5, <4>1 DEF Reads
      <4>3. Len(toks1) = k /\ toks1[k] = cur /\ Len(all1) = k /\ all1[k] = cur
        BY <1>9, <3>3, <4>2, AppendProperties
      <4>4. t1[e1] = c /\ SubSeq(t1, i, e1 - 1) = SubSeq(t, i, Len(t))
        BY <1>1, <1>10, <3>1, <3>8, <4>1
      <4>5. k <= Len(toks1)
        BY <4>3
      <4> QED  BY <3>4, <3>8, <4>1, <4>3, <4>4, <4>5
    <3>6. CASE c \in Mark
      <4>1. toks1 = Append(toks, cur) /\ cur1.type = Kind(c)
        BY <3>2, <3>4, <3>6, KindIs DEF Reads
      <4>2. cur1 # NoToken /\ cur1.type \notin Named
        BY <3>6, <4>1, TokenTypes, KindIs
      <4>3. Len(toks1) = k /\ toks1[k] = cur
        BY <3>3, <4>1, AppendProperties
      <4>6. Len(all1) = k + 1 /\ all1[k] = cur /\ all1[k + 1] = cur1
        BY <1>9, <4>2, <4>3
      <4>4. c \in Break
        BY <3>6, KindIs
      <4>5. SubSeq(t1, i, e1 - 1) = SubSeq(t, i, Len(t))
        BY <1>1, <1>10, <3>1, <3>8, <4>4
      <4>7. k <= Len(toks1) /\ Len(all1) > k
        BY <4>3, <4>6
      <4> QED  BY <3>4, <3>8, <4>2, <4>4, <4>5, <4>6, <4>7
    <3>7. CASE c \notin Break
      <4>6. c \notin Mark /\ c # " "
        BY <3>7, KindIs
      <4>1. toks1 = toks /\ cur1.type = cur.type /\ cur1.text = Append(cur.text, c)
        BY <3>2, <3>4, <4>6 DEF Reads
      <4>2. cur1 # NoToken
        BY <3>4, <4>1, TokenTypes
      <4>3. Len(all1) = k /\ all1[k] = cur1
        BY <1>9, <3>3, <4>1, <4>2
      <4>7. e1 = Len(t) + 2
        BY <1>0, <1>2, <2>3, <3>7
      <4>4. e1 - 1 = Len(t) + 1 /\ e1 > Len(t1) /\ ~ (e1 <= Len(t1))
        BY <1>0, <1>2, <4>7
      <4>5. SubSeq(t1, i, e1 - 1) = Append(SubSeq(t, i, Len(t)), c)
        BY <1>1, <4>4
      <4> QED  BY <3>4, <4>1, <4>2, <4>3, <4>4, <4>5
    <3> QED  BY <3>5, <3>6, <3>7, KindIs
  <2> QED  BY <1>0, <1>2, <2>2, <2>3
<1>12. k \in 1 .. Len(all) /\ Len(all1) >= k
  BY <1>3, <1>4, <1>8, <1>9 DEF Grown
<1>13. all1[k].type = Kind(t1[i]) /\ i <= Len(t1) /\ ~ (i > Len(t1)) /\ t1[i] = t[i]
  BY <1>0, <1>1, <1>3, <1>4, <1>12 DEF Grown
<1> QED  BY <1>11, <1>12, <1>13 DEF WordRead, all1, e1

\* A word that is awaited: a character that is not blank begins it.
LEMMA WordBegins ==
  ASSUME NEW D, NEW t \in Seq(D), NEW c \in D, NEW k \in Nat, k >= 1,
         NEW toks \in Seq(Token), NEW cur \in Token \cup {NoToken},
         NEW toks1 \in Seq(Token), NEW cur1 \in Token \cup {NoToken},
         Reads(toks, cur, c, toks1, cur1), WordRead(k, t, Len(t) + 1, toks, cur)
  PROVE  /\ c = " " => WordRead(k, Append(t, c), Len(t) + 2, toks1, cur1)
         /\ c # " " => WordRead(k, Append(t, c), Len(t) + 1, toks1, cur1)
<1> DEFINE t1   == Append(t, c)
           all  == AllTokens(toks, cur)
           all1 == AllTokens(toks1, cur1)
           e1   == PieceEnd(t1, Len(t) + 1)
<1>1. /\ Len(t) \in Nat /\ Len(t1) = Len(t) + 1 /\ t1 \in Seq(D) /\ t1[Len(t) + 1] = c
      /\ ~ (Len(t) + 1 <= Len(t)) /\ Len(t) + 1 > Len(t) /\ Len(t) + 1 <= Len(t1)
      /\ ~ (Len(t) + 1 > Len(t1)) /\ Len(t) + 2 > Len(t1) /\ ~ (Len(t) + 2 <= Len(t1))
  <2>1. Len(t) \in Nat /\ Len(t1) = Len(t) + 1 /\ t1 \in Seq(D) /\ t1[Len(t) + 1] = c
    BY AppendProperties
  <2> HIDE DEF t1
  <2> QED  BY <2>1
<1>2. Len(all) = k - 1 /\ cur = NoToken
  <2> HIDE DEF all
  <2> QED  BY <1>1 DEF WordRead, all
<1>3. Len(toks) = k - 1
  BY <1>2, AllTokensAre
<1>4. /\ Len(toks1) \in Nat
      /\ cur1 = NoToken => Len(all1) = Len(toks1)
      /\ cur1 # NoToken => Len(all1) = Len(toks1) + 1 /\ all1[Len(toks1) + 1] = cur1
  BY AllTokensAre
<1> HIDE DEF all, all1
<1>5. ASSUME c = " "
      PROVE  WordRead(k, t1, Len(t) + 2, toks1, cur1)
  <2>1. toks1 = toks /\ cur1 = NoToken
    BY <1>2, <1>5, TokenTypes DEF Reads, Named
  <2>2. Len(all1) = k - 1
    BY <1>3, <1>4, <2>1
  <2> HIDE DEF t1
  <2> QED  BY <1>1, <2>1, <2>2 DEF WordRead, all1
<1>6. ASSUME c # " "
      PROVE  WordRead(k, t1, Len(t) + 1, toks1, cur1)
  <2>1. toks1 = toks /\ cur1.type = Kind(c) /\ (Kind(c) \in Named => cur1.text = <<c>>)
    BY <1>2, <1>6, TokenTypes DEF Reads, Named
  <2>2. cur1 # NoToken
    BY <2>1, TokenTypes, KindIs
  <2>3. Len(all1) = k /\ all1[k] = cur1 /\ Len(all1) >= k
    BY <1>3, <1>4, <2>1, <2>2
  <2>4. ASSUME Kind(c) \in Named
        PROVE  e1 = Len(t) + 2 /\ SubSeq(t1, Len(t) + 1, e1 - 1) = <<c>>
               /\ e1 > Len(t1) /\ ~ (e1 <= Len(t1))
    <3>1. c \notin Break
      BY <1>6, <2>4, KindIs
    <3>2. IsPlace(t1, Len(t) + 1, Break, Len(t) + 2)
      <4> HIDE DEF t1
      <4> QED  BY <1>1, <3>1 DEF IsPlace
    <3>3. e1 = Len(t) + 2
      <4> HIDE DEF t1
      <4>1. Len(t) + 1 \in 1 .. Len(t1) + 1
        BY <1>1
      <4> QED  BY <1>1, <3>2, <4>1, PlaceIs DEF PieceEnd
    <3>4. SubSeq(t1, Len(t) + 1, Len(t) + 1) = Append(SubSeq(t, Len(t) + 1, Len(t)), c)
      <4>1. Len(t) + 1 \in 1 .. Len(t) + 1
        BY <1>1
      <4> QED  BY <4>1, TextGrows
    <3>5. SubSeq(t, Len(t) + 1, Len(t)) = <<>>
      BY <1>1
    <3>6. Append(<<>>, c) = <<c>>
      OBVIOUS
    <3>7. e1 - 1 = Len(t) + 1 /\ e1 > Len(t1) /\ ~ (e1 <= Len(t1))
      <4> HIDE DEF t1, e1
      <4> QED  BY <1>1, <3>3
    <3> QED  BY <3>3, <3>4, <3>5, <3>6, <3>7
  <2> HIDE DEF t1, e1
  <2> QED  BY <1>1, <2>1, <2>2, <2>3, <2>4 DEF WordRead, all1, e1
<1> QED  BY <1>5, <1>6

\* The blank after a plain word is where the word ends.
LEMMA EndedAt ==
  ASSUME NEW D, NEW t \in Seq(D), NEW i \in 1 .. Len(t), Ended(t, i)
  PROVE  /\ Place(t, i, {" "}) = PieceEnd(t, i)
         /\ PieceEnd(t, i) \in i .. Len(t)
<1> DEFINE e == PieceEnd(t, i)
<1>1. i \in 1 .. Len(t) + 1
  OBVIOUS
<1>2. IsPlace(t, i, Break, e) /\ e \in Nat
  BY <1>1, PlaceFound DEF PieceEnd
<1>8. e <= Len(t)
  BY DEF Ended
<1>3. t[e] = " "
  BY DEF Ended
<1> HIDE DEF e
<1>4. e \in i .. Len(t) + 1 /\ \A j \in i .. e - 1 : t[j] \notin Break
  BY <1>2 DEF IsPlace
<1>5. \A j \in i .. e - 1 : t[j] # " "
  BY <1>4, KindIs
<1>6. IsPlace(t, i, {" "}, e)
  BY <1>3, <1>4, <1>5 DEF IsPlace
<1>7. e \in i .. Len(t)
  BY <1>4, <1>8
<1> QED  BY <1>1, <1>6, <1>7, PlaceIs DEF e

\* A word that ended keeps its end, and the word after it is found as before.
LEMMA EndedStays ==
  ASSUME NEW D, NEW t \in Seq(D), NEW c \in D, NEW i \in 1 .. Len(t), Ended(t, i)
  PROVE  /\ Ended(Append(t, c), i)
         /\ NextWord(t, i) \in 1 .. Len(t) + 1
         /\ NextWord(Append(t, c), i) = Moved(NextWord(t, i), t, c, Solid)
<1> DEFINE t1 == Append(t, c)
           e  == PieceEnd(t, i)
           e1 == PieceEnd(t1, i)
<1>0. Len(t) \in Nat
  OBVIOUS
<1>1. Place(t, i, {" "}) = e
  BY EndedAt
<1>13. e \in i .. Len(t)
  BY EndedAt
<1>2. Kind(t[i]) \in Named /\ t[e] = " "
  BY DEF Ended
<1>3. i \in 1 .. Len(t) + 1 /\ i \in Nat
  OBVIOUS
<1>4. /\ t1 \in Seq(D) /\ Len(t1) = Len(t) + 1 /\ \A j \in 1 .. Len(t) : t1[j] = t[j]
  BY TextGrows
<1>5. e1 = Moved(e, t, c, Break)
  BY <1>3, PlaceMoves DEF PieceEnd
<1>6. Place(t1, i, {" "}) = Moved(Place(t, i, {" "}), t, c, {" "})
  BY <1>3, PlaceMoves
<1> HIDE DEF e, e1
<1>7. e \in Nat /\ e \in 1 .. Len(t) /\ e \in 1 .. Len(t) + 1 /\ e <= Len(t)
  BY <1>0, <1>3, <1>13
<1>8. Moved(e, t, c, Break) = e /\ Moved(e, t, c, {" "}) = e
  BY <1>7 DEF Moved
<1>9. NextWord(t, i) = Place(t, e, Solid) /\ NextWord(t1, i) = Place(t1, e, Solid)
  BY <1>1, <1>6, <1>8 DEF NextWord
<1>10. Place(t1, e, Solid) = Moved(Place(t, e, Solid), t, c, Solid)
  BY <1>7, PlaceMoves
<1>11. Place(t, e, Solid) \in 1 .. Len(t) + 1
  <2>1. Place(t, e, Solid) \in e .. Len(t) + 1
    BY <1>7, PlaceFound DEF IsPlace
  <2> QED  BY <1>0, <1>7, <2>1
<1>12. Ended(t1, i)
  <2>1. e1 = e /\ t1[e] = t[e] /\ t1[i] = t[i]
    BY <1>4, <1>5, <1>7, <1>8
  <2> HIDE DEF t1
  <2>2. i <= Len(t1) /\ e1 <= Len(t1)
    BY <1>0, <1>3, <1>4, <1>7, <2>1
  <2> QED  BY <1>2, <2>1, <2>2 DEF Ended, e1
<1> QED  BY <1>9, <1>10, <1>11, <1>12

\* The blank that ends a plain word ends its token, and another is awaited.
LEMMA WordEnds ==
  ASSUME NEW D, NEW t \in Seq(D), NEW c \in D, NEW k \in Nat, k >= 1, NEW i \in 1 .. Len(t),
         NEW toks \in Seq(Token), NEW cur \in Token \cup {NoToken},
         NEW toks1 \in Seq(Token), NEW cur1 \in Token \cup {NoToken},
         Reads(toks, cur, c, toks1, cur1), WordRead(k, t, i, toks, cur),
         ~ Ended(t, i), Ended(Append(t, c), i)
  PROVE  /\ NextWord(Append(t, c), i) = Len(t) + 2
         /\ WordRead(k + 1, Append(t, c), Len(t) + 2, toks1, cur1)
<1> DEFINE t1   == Append(t, c)
           all  == AllTokens(toks, cur)
           all1 == AllTokens(toks1, cur1)
           e    == PieceEnd(t, i)
           e1   == PieceEnd(t1, i)
<1>0. Len(t) \in Nat /\ i \in Nat /\ i <= Len(t) /\ i \in 1 .. Len(t) + 1
  OBVIOUS
<1>1. /\ t1 \in Seq(D) /\ Len(t1) = Len(t) + 1 /\ t1[Len(t) + 1] = c
      /\ \A j \in 1 .. Len(t) : t1[j] = t[j]
  BY TextGrows
<1>2. i \in 1 .. Len(t1) /\ Ended(t1, i)
  <2> HIDE DEF t1
  <2> QED  BY <1>0, <1>1 DEF t1
<1>3. Place(t1, i, {" "}) = e1
  BY <1>1, <1>2, EndedAt
<1>20. e1 \in i .. Len(t1)
  BY <1>1, <1>2, EndedAt
<1>4. Kind(t1[i]) \in Named /\ t1[e1] = " " /\ t1[i] = t[i]
  BY <1>1, <1>2 DEF Ended
<1>5. e1 = Moved(e, t, c, Break)
  BY <1>0, PlaceMoves DEF PieceEnd
<1>6. e \in i .. Len(t) + 1 /\ e \in Nat
  BY <1>0, PlaceFound DEF PieceEnd, IsPlace
<1> HIDE DEF t1, e, e1
<1>7. ~ (e <= Len(t))
  <2> SUFFICES ASSUME e <= Len(t) PROVE FALSE
    OBVIOUS
  <2>1. e1 = e /\ e \in 1 .. Len(t)
    BY <1>0, <1>5, <1>6 DEF Moved
  <2>2. t[e] = " "
    BY <1>1, <1>4, <2>1
  <2> QED  BY <1>0, <1>4, <2>2 DEF Ended, e
<1>8. e = Len(t) + 1 /\ e > Len(t)
  BY <1>0, <1>6, <1>7
<1>9. e1 = Len(t) + 1
  <2>1. e1 = Len(t) + 1 \/ e1 = Len(t) + 2
    BY <1>5, <1>7 DEF Moved
  <2>2. e1 <= Len(t) + 1
    <3>1. e1 <= Len(t1)
      BY <1>0, <1>1, <1>20
    <3> QED  BY <1>1, <3>1
  <2> QED  BY <1>0, <2>1, <2>2
<1>10. c = " "
  BY <1>1, <1>4, <1>9
<1>11. NextWord(t1, i) = Len(t) + 2
  <2>1. c \notin Solid
    BY <1>10 DEF Solid
  <2>2. IsPlace(t1, Len(t) + 1, Solid, Len(t) + 2)
    BY <1>0, <1>1, <2>1 DEF IsPlace
  <2>3. Len(t) + 1 \in 1 .. Len(t1) + 1
    BY <1>0, <1>1
  <2>4. Place(t1, Len(t) + 1, Solid) = Len(t) + 2
    BY <1>1, <2>2, <2>3, PlaceIs
  <2> QED  BY <1>3, <1>9, <2>4 DEF NextWord
<1>12. /\ Len(all) = k /\ cur # NoToken
       /\ all[k].type \in Named
  <2> HIDE DEF all
  <2> QED  BY <1>0, <1>4, <1>8 DEF WordRead, all, e
<1>13. /\ Len(toks) \in Nat /\ Len(all) = Len(toks) + 1 /\ all[Len(toks) + 1] = cur
  BY <1>12, AllTokensAre
<1>14. Len(toks) = k - 1 /\ all[k] = cur /\ cur \in Token
  <2> HIDE DEF all
  <2> QED  BY <1>12, <1>13
<1>15. cur.type \in Named
  <2> HIDE DEF all
  <2> QED  BY <1>12, <1>14
<1>16. c \notin Mark
  BY <1>10 DEF Mark
<1>17. toks1 = Append(toks, cur) /\ cur1 = NoToken
  BY <1>10, <1>12, <1>15, <1>16 DEF Reads
<1>18. Len(all1) = k
  <2>1. Len(all1) = Len(toks1)
    BY <1>17, AllTokensAre
  <2>2. Len(toks1) = Len(toks) + 1
    BY <1>14, <1>17, AppendProperties
  <2> HIDE DEF all1
  <2> QED  BY <1>14, <2>1, <2>2
<1>19. WordRead(k + 1, t1, Len(t) + 2, toks1, cur1)
  <2>1. ~ (Len(t) + 2 <= Len(t1)) /\ (k + 1) - 1 = k
    BY <1>0, <1>1
  <2> HIDE DEF all1
  <2> QED  BY <1>17, <1>18, <2>1 DEF WordRead, all1
<1> QED  BY <1>11, <1>19 DEF t1

\* What a character makes of a word, and of the next one when the word has ended.
LEMMA WordStep ==
  ASSUME NEW t \in Seq(Glyph), NEW c \in Glyph, NEW k \in Nat, k >= 1, NEW i \in 1 .. Len(t) + 1,
         NEW toks \in Seq(Token), NEW cur \in Token \cup {NoToken},
         NEW toks1 \in Seq(Token), NEW cur1 \in Token \cup {NoToken},
         Reads(toks, cur, c, toks1, cur1), WordRead(k, t, i, toks, cur),
         NEW j, j = Moved(i, t, c, Solid)
  PROVE  /\ WordRead(k, Append(t, c), j, toks1, cur1)
         /\ Ended(Append(t, c), j) =>
              \/ /\ Ended(t, i) /\ NextWord(t, i) \in 1 .. Len(t) + 1
                 /\ NextWord(Append(t, c), j) = Moved(NextWord(t, i), t, c, Solid)
              \/ /\ WordRead(k + 1, Append(t, c), NextWord(Append(t, c), j), toks1, cur1)
                 /\ ~ Ended(Append(t, c), NextWord(Append(t, c), j))
<1> DEFINE t1 == Append(t, c)
<1>1. Len(t) \in Nat /\ Len(t1) = Len(t) + 1 /\ t1 \in Seq(Glyph) /\ t1[Len(t) + 1] = c
  BY TextGrows
<1>2. ~ Ended(t1, Len(t) + 2)
  <2>1. ~ (Len(t) + 2 <= Len(t1))
    BY <1>1
  <2> QED  BY <2>1 DEF Ended
<1>3. CASE i <= Len(t)
  <2>1. j = i /\ i \in 1 .. Len(t)
    BY <1>1, <1>3 DEF Moved
  <2>2. WordRead(k, t1, i, toks1, cur1)
    BY <2>1, WordGoesOn
  <2>3. CASE Ended(t, i)
    BY <2>1, <2>2, <2>3, EndedStays
  <2>4. CASE ~ Ended(t, i) /\ Ended(t1, i)
    <3>1. NextWord(t1, i) = Len(t) + 2 /\ WordRead(k + 1, t1, Len(t) + 2, toks1, cur1)
      BY <2>1, <2>4, WordEnds
    <3> QED  BY <1>2, <2>1, <2>2, <3>1
  <2> QED  BY <2>1, <2>2, <2>3, <2>4
<1>4. CASE ~ (i <= Len(t))
  <2>1. i = Len(t) + 1 /\ WordRead(k, t, Len(t) + 1, toks, cur)
    BY <1>1, <1>4
  <2>2. CASE c = " "
    <3>1. j = Len(t) + 2
      BY <1>4, <2>2, GlyphIs DEF Moved
    <3> QED  BY <1>2, <2>1, <2>2, <3>1, WordBegins
  <2>3. CASE c # " "
    <3>1. j = Len(t) + 1
      BY <1>4, <2>3, GlyphIs DEF Moved
    <3>2. WordRead(k, t1, Len(t) + 1, toks1, cur1)
      BY <2>1, <2>3, WordBegins
    <3>3. ~ Ended(t1, Len(t) + 1)
      <4> SUFFICES ASSUME Ended(t1, Len(t) + 1) PROVE FALSE
        OBVIOUS
      <4> DEFINE e == PieceEnd(t1, Len(t) + 1)
      <4> HIDE DEF t1
      <4>1. Len(t) + 1 \in 1 .. Len(t1)
        BY <1>1
      <4>2. e \in Len(t) + 1 .. Len(t1)
        BY <1>1, <4>1, EndedAt
      <4>3. t1[e] = " "
        BY DEF Ended
      <4>4. e = Len(t) + 1
        <5> HIDE DEF e
        <5> QED  BY <1>1, <4>2
      <4> QED  BY <1>1, <2>3, <4>3, <4>4
    <3> QED  BY <3>1, <3>2, <3>3
  <2> QED  BY <2>2, <2>3
<1> QED  BY <1>3, <1>4

\* The first word of a line that has one more character.
LEMMA FirstWord ==
  ASSUME NEW D, NEW t \in Seq(D), NEW c \in D
  PROVE  /\ Place(t, 1, Solid) \in 1 .. Len(t) + 1
         /\ Place(Append(t, c), 1, Solid) = Moved(Place(t, 1, Solid), t, c, Solid)
<1>1. 1 \in 1 .. Len(t) + 1
  OBVIOUS
<1> QED  BY <1>1, PlaceFound, PlaceMoves DEF IsPlace

LEMMA StartsAre ==
  ASSUME NEW t
  PROVE  LET w == WordStarts(t)
         IN  /\ w[1] = Place(t, 1, Solid) /\ w[2] = NextWord(t, w[1])
             /\ w[3] = NextWord(t, w[2]) /\ w[4] = NextWord(t, w[3])
  BY DEF WordStarts

\* What a character makes of a line.
LEMMA LineGoesOn ==
  ASSUME NEW t \in Seq(Glyph), NEW c \in Glyph,
         NEW toks \in Seq(Token), NEW cur \in Token \cup {NoToken},
         NEW toks1 \in Seq(Token), NEW cur1 \in Token \cup {NoToken},
         Reads(toks, cur, c, toks1, cur1), LineRead(t, toks, cur)
  PROVE  LineRead(Append(t, c), toks1, cur1)
<1> DEFINE t1 == Append(t, c)
           w  == WordStarts(t)
           w1 == WordStarts(t1)
           Goes(k) == w[k] \in 1 .. Len(t) + 1 /\ w1[k] = Moved(w[k], t, c, Solid)
                      /\ WordRead(k, t, w[k], toks, cur)
<1>1. /\ w[1] = Place(t, 1, Solid) /\ w[2] = NextWord(t, w[1])
      /\ w[3] = NextWord(t, w[2]) /\ w[4] = NextWord(t, w[3])
      /\ w1[1] = Place(t1, 1, Solid) /\ w1[2] = NextWord(t1, w1[1])
      /\ w1[3] = NextWord(t1, w1[2]) /\ w1[4] = NextWord(t1, w1[3])
  BY StartsAre
<1>2. /\ WordRead(1, t, w[1], toks, cur)
      /\ Ended(t, w[1]) => WordRead(2, t, w[2], toks, cur)
      /\ Ended(t, w[1]) /\ Ended(t, w[2]) => WordRead(3, t, w[3], toks, cur)
      /\ Ended(t, w[1]) /\ Ended(t, w[2]) /\ Ended(t, w[3]) => WordRead(4, t, w[4], toks, cur)
  BY DEF LineRead
<1>3. w[1] \in 1 .. Len(t) + 1 /\ w1[1] = Moved(w[1], t, c, Solid)
  BY <1>1, FirstWord
<1>4. ASSUME NEW k \in 1 .. 3, Goes(k)
      PROVE  /\ WordRead(k, t1, w1[k], toks1, cur1)
             /\ Ended(t1, w1[k]) =>
                  \/ /\ Ended(t, w[k]) /\ w[k + 1] \in 1 .. Len(t) + 1
                     /\ w1[k + 1] = Moved(w[k + 1], t, c, Solid)
                  \/ WordRead(k + 1, t1, w1[k + 1], toks1, cur1) /\ ~ Ended(t1, w1[k + 1])
  <2>1. k \in Nat /\ k >= 1 /\ w[k + 1] = NextWord(t, w[k]) /\ w1[k + 1] = NextWord(t1, w1[k])
    <3> HIDE DEF w, w1
    <3> QED  BY <1>1
  <2> HIDE DEF w, w1
  <2> QED  BY <1>4, <2>1, WordStep
<1>5. ASSUME Goes(4)
      PROVE  WordRead(4, t1, w1[4], toks1, cur1)
  <2> HIDE DEF w, w1
  <2> QED  BY <1>5, WordStep
<1> HIDE DEF w, w1
<1>6. Goes(1)
  BY <1>2, <1>3
<1>7. /\ WordRead(1, t1, w1[1], toks1, cur1)
      /\ Ended(t1, w1[1]) =>
           \/ Goes(2) /\ Ended(t, w[1])
           \/ WordRead(2, t1, w1[2], toks1, cur1) /\ ~ Ended(t1, w1[2])
  BY <1>2, <1>4, <1>6
<1>8. Goes(2) /\ Ended(t, w[1]) =>
      /\ WordRead(2, t1, w1[2], toks1, cur1)
      /\ Ended(t1, w1[2]) =>
           \/ Goes(3) /\ Ended(t, w[1]) /\ Ended(t, w[2])
           \/ WordRead(3, t1, w1[3], toks1, cur1) /\ ~ Ended(t1, w1[3])
  BY <1>2, <1>4
<1>9. Goes(3) /\ Ended(t, w[1]) /\ Ended(t, w[2]) =>
      /\ WordRead(3, t1, w1[3], toks1, cur1)
      /\ Ended(t1, w1[3]) => Goes(4) \/ WordRead(4, t1, w1[4], toks1, cur1)
  BY <1>2, <1>4
<1> QED  BY <1>5, <1>7, <1>8, <1>9 DEF LineRead, w1
-----------------------------------------------------------------------------
(* The lines that were read to their end                                   *)

WordAt(l, i) == SubSeq(l, i, Place(l, i, {" "}) - 1)
Piece(l, i)  == SubSeq(l, i, PieceEnd(l, i) - 1)
Marked(l, i) == PieceEnd(l, i) <= Len(l) /\ l[PieceEnd(l, i)] \in Mark

\* The k-th word of the line l, which is at i, and its k-th token.
WordLexed(k, l, i, toks) ==
  /\ i > Len(l) => Len(toks) = k - 1
  /\ i <= Len(l) =>
       /\ Len(toks) >= k /\ toks[k].type = Kind(l[i])
       /\ Kind(l[i]) \in Named =>
            /\ toks[k].text = Piece(l, i)
            /\ PieceEnd(l, i) > Len(l) => Len(toks) = k
            /\ Marked(l, i) => Len(toks) > k /\ toks[k + 1].type \notin Named

LineLexed(l, toks) ==
  LET w == WordStarts(l)
  IN  /\ WordLexed(1, l, w[1], toks)
      /\ Ended(l, w[1]) =>
           /\ WordLexed(2, l, w[2], toks)
           /\ Ended(l, w[2]) =>
                /\ WordLexed(3, l, w[3], toks)
                /\ Ended(l, w[3]) => WordLexed(4, l, w[4], toks)

\* A line begins without a character and without a token.
LEMMA LineBegins == LineRead(<<>>, <<>>, NoToken)
<1>1. WordStarts(<<>>)[1] = Place(<<>>, 1, Solid)
  BY StartsAre
<1>2. Place(<<>>, 1, Solid) = 1
  <2>1. <<>> \in Seq(Char) /\ Len(<<>>) = 0 /\ 1 \in 1 .. Len(<<>>) + 1
    OBVIOUS
  <2>2. IsPlace(<<>>, 1, Solid, Place(<<>>, 1, Solid))
    BY <2>1, PlaceFound
  <2> QED  BY <2>1, <2>2 DEF IsPlace
<1>3. ~ Ended(<<>>, 1)
  BY DEF Ended
<1>4. WordRead(1, <<>>, 1, <<>>, NoToken)
  BY DEF WordRead, AllTokens
<1> QED  BY <1>1, <1>2, <1>3, <1>4 DEF LineRead

\* At its end the token that is being read, if there is one, is the last.
LEMMA LineIsLexed ==
  ASSUME NEW t, NEW toks, NEW cur, LineRead(t, toks, cur)
  PROVE  LineLexed(t, AllTokens(toks, cur))
<1>1. ASSUME NEW k, NEW i, WordRead(k, t, i, toks, cur)
      PROVE  WordLexed(k, t, i, AllTokens(toks, cur))
  BY <1>1 DEF WordRead, WordLexed, Piece, Marked
<1> QED  BY <1>1 DEF LineRead, LineLexed

LEMMA PieceIs ==
  ASSUME NEW D, NEW l, NEW i \in Nat, NEW k \in Nat, i <= k,
         \A j \in i .. k - 1 : l[j] \in D
  PROVE  /\ SubSeq(l, i, k - 1) \in Seq(D) /\ Len(SubSeq(l, i, k - 1)) = k - i
         /\ \A j \in 1 .. k - i : SubSeq(l, i, k - 1)[j] = l[i + j - 1]
<1> DEFINE n == k - 1
<1>1. n \in Int /\ n = k - 1 /\ n - i + 1 = k - i
      /\ (IF i <= n THEN n - i + 1 ELSE 0) = k - i
  OBVIOUS
<1> HIDE DEF n
<1>2. \A j \in i .. n : l[j] \in D
  BY <1>1
<1>3. /\ SubSeq(l, i, n) \in Seq(D)
      /\ Len(SubSeq(l, i, n)) = (IF i <= n THEN n - i + 1 ELSE 0)
      /\ \A j \in 1 .. n - i + 1 : SubSeq(l, i, n)[j] = l[i + j - 1]
  BY <1>1, <1>2, SubSeqProperties
<1> QED  BY <1>1, <1>3

LEMMA FrontIs ==
  ASSUME NEW D, NEW l \in Seq(D), NEW n \in 0 .. Len(l)
  PROVE  /\ SubSeq(l, 1, n) \in Seq(D) /\ Len(SubSeq(l, 1, n)) = n
         /\ \A j \in 1 .. n : SubSeq(l, 1, n)[j] = l[j]
  OBVIOUS

\* A line cut at the first blank from i on, and at the first break.
LEMMA Cut ==
  ASSUME NEW l \in Seq(Glyph), NEW i \in 1 .. Len(l), NEW B,
         l[i] \notin B, \A x \in Glyph : x \in Break <=> x \in B \/ x \in Mark,
         \A x \in Glyph : ~ (x \in B /\ x \in Mark),
         \A x \in Glyph : x \in Break \/ x \in Plain, \A x \in Plain : x \in Glyph,
         WordAt(l, i) = SubSeq(l, i, Place(l, i, B) - 1)
  PROVE  /\ WordAt(l, i) # <<>> /\ WordAt(l, i)[1] = l[i]
         /\ Before(WordAt(l, i), Mark) = Piece(l, i)
         /\ (\E j \in 1 .. Len(WordAt(l, i)) : WordAt(l, i)[j] \in Mark) <=> Marked(l, i)
         /\ Piece(l, i) = WordAt(l, i) <=> ~ Marked(l, i)
         /\ Piece(l, i) \in Seq(Plain)
         /\ Piece(l, i) = <<>> <=> l[i] \in Mark
         /\ Piece(l, i) # <<>> => Piece(l, i)[1] = l[i]
<1> DEFINE W == WordAt(l, i)
           P == Piece(l, i)
           marked == Marked(l, i)
           b == Place(l, i, B)
           e == Place(l, i, Break)
<1>16. W = SubSeq(l, i, b - 1) /\ P = SubSeq(l, i, e - 1)
  BY DEF Piece, PieceEnd
<1>0. marked <=> e <= Len(l) /\ l[e] \in Mark
  BY DEF Marked, PieceEnd
<1> HIDE DEF marked, W, P
<1>1. /\ IsPlace(l, i, B, b) /\ IsPlace(l, i, Break, e) /\ i \in Nat /\ i >= 1
      /\ Len(l) \in Nat /\ i <= Len(l)
  BY PlaceFound
<1>2. \A j \in 1 .. Len(l) : l[j] \in Glyph
  OBVIOUS
<1>3. b \in i + 1 .. Len(l) + 1
  BY <1>1, <1>2 DEF IsPlace
<1>4. e \in i .. b
  <2>1. l[b] \in Break \/ b = Len(l) + 1
    <3>1. b = Len(l) + 1 \/ b \in 1 .. Len(l)
      <4> HIDE DEF b
      <4> QED  BY <1>1, <1>3
    <3>2. b = Len(l) + 1 \/ l[b] \in B
      BY <1>1 DEF IsPlace
    <3> HIDE DEF b
    <3> QED  BY <1>2, <3>1, <3>2
  <2> HIDE DEF b, e
  <2> QED  BY <1>1, <1>3, <2>1 DEF IsPlace
<1>5. marked <=> e < b
  <2>1. marked => e # b
    BY <1>0, <1>1, <1>2, <1>3 DEF IsPlace
  <2>2. e < b => l[e] \notin B /\ e \in 1 .. Len(l)
    <3> HIDE DEF b, e
    <3> QED  BY <1>1, <1>3, <1>4 DEF IsPlace
  <2>3. e < b => l[e] \in Mark /\ e <= Len(l)
    <3>1. e < b => e # Len(l) + 1
      BY <1>1, <2>2
    <3> QED  BY <1>1, <1>2, <2>2, <3>1 DEF IsPlace
  <2>4. e < b \/ e = b
    <3> HIDE DEF b, e
    <3> QED  BY <1>1, <1>3, <1>4
  <2> QED  BY <1>0, <2>1, <2>3, <2>4
<1>6. /\ W \in Seq(Glyph) /\ Len(W) = b - i
      /\ \A j \in 1 .. b - i : W[j] = l[i + j - 1]
  <2> HIDE DEF b
  <2>1. \A j \in i .. b - 1 : l[j] \in Glyph
    BY <1>1, <1>2, <1>3
  <2>2. b \in Nat /\ i <= b
    BY <1>1, <1>3
  <2>3. W = SubSeq(l, i, b - 1)
    BY <1>16
  <2>4. i \in Nat
    BY <1>1
  <2>5. /\ SubSeq(l, i, b - 1) \in Seq(Glyph) /\ Len(SubSeq(l, i, b - 1)) = b - i
        /\ \A j \in 1 .. b - i : SubSeq(l, i, b - 1)[j] = l[i + j - 1]
    BY <2>1, <2>2, <2>4, PieceIs
  <2> QED  BY <2>3, <2>5
<1>7. /\ P \in Seq(Plain) /\ Len(P) = e - i
      /\ \A j \in 1 .. e - i : P[j] = l[i + j - 1]
  <2>1. \A j \in i .. e - 1 : j \in 1 .. Len(l) /\ l[j] \notin Break
    <3> HIDE DEF b, e
    <3> QED  BY <1>1, <1>3, <1>4 DEF IsPlace
  <2>2. \A j \in i .. e - 1 : l[j] \in Plain
    BY <1>2, <2>1
  <2>3. e \in Nat /\ i <= e
    <3> HIDE DEF b, e
    <3> QED  BY <1>1, <1>3, <1>4
  <2>4. P = SubSeq(l, i, e - 1)
    BY <1>16
  <2> HIDE DEF e, b
  <2>5. i \in Nat /\ \A j \in i .. e - 1 : l[j] \in Plain
    BY <1>1, <2>2
  <2>6. /\ SubSeq(l, i, e - 1) \in Seq(Plain) /\ Len(SubSeq(l, i, e - 1)) = e - i
        /\ \A j \in 1 .. e - i : SubSeq(l, i, e - 1)[j] = l[i + j - 1]
    BY <2>3, <2>5, PieceIs
  <2> QED  BY <2>4, <2>6
<1> HIDE DEF b, e
<1>8. Place(W, 1, Mark) = e - i + 1
  <2>1. e - i + 1 \in 1 .. Len(W) + 1 /\ 1 \in 1 .. Len(W) + 1
    BY <1>1, <1>3, <1>4, <1>6
  <2>2. e < b => e - i + 1 \in 1 .. b - i /\ i + (e - i + 1) - 1 = e
    BY <1>1, <1>3, <1>4
  <2>3. e - i + 1 = Len(W) + 1 \/ W[e - i + 1] \in Mark
    <3>1. CASE e < b
      <4>1. l[e] \in Mark
        BY <1>0, <1>5, <3>1 DEF e
      <4>2. W[e - i + 1] = l[i + (e - i + 1) - 1]
        BY <1>6, <2>2, <3>1
      <4> QED  BY <2>2, <3>1, <4>1, <4>2
    <3>2. CASE e = b
      BY <1>6, <3>2
    <3>3. e < b \/ e = b
      BY <1>1, <1>3, <1>4
    <3> QED  BY <3>1, <3>2, <3>3
  <2>4. \A j \in 1 .. (e - i + 1) - 1 : W[j] \notin Mark
    <3> TAKE j \in 1 .. (e - i + 1) - 1
    <3>1. j \in 1 .. b - i /\ i + j - 1 \in i .. e - 1 /\ i + j - 1 \in 1 .. Len(l)
      BY <1>1, <1>3, <1>4
    <3>2. W[j] = l[i + j - 1] /\ l[i + j - 1] \notin Break /\ l[i + j - 1] \in Glyph
      BY <1>1, <1>2, <1>6, <3>1 DEF IsPlace
    <3> QED  BY <1>2, <3>2
  <2> QED  BY <1>6, <2>1, <2>3, <2>4, PlaceIs DEF IsPlace
<1>9. Before(W, Mark) = P
  <2> DEFINE k == e - i + 1
  <2>1. /\ Before(W, Mark) = SubSeq(W, 1, k - 1)
        /\ k \in Nat /\ 1 <= k /\ k - 1 = e - i /\ k - 1 <= Len(W)
    <3>1. k \in Nat /\ 1 <= k /\ k - 1 = e - i /\ k - 1 <= Len(W)
      BY <1>1, <1>3, <1>4, <1>6
    <3>2. Place(W, 1, Mark) = k
      BY <1>8
    <3> HIDE DEF k
    <3> QED  BY <3>1, <3>2 DEF Before
  <2> HIDE DEF k
  <2>2. /\ Before(W, Mark) \in Seq(Glyph) /\ Len(Before(W, Mark)) = e - i
        /\ \A j \in 1 .. e - i : Before(W, Mark)[j] = W[j]
    <3>1. k - 1 \in 0 .. Len(W)
      BY <1>6, <2>1
    <3>2. /\ SubSeq(W, 1, k - 1) \in Seq(Glyph) /\ Len(SubSeq(W, 1, k - 1)) = k - 1
          /\ \A j \in 1 .. k - 1 : SubSeq(W, 1, k - 1)[j] = W[j]
      BY <1>6, <3>1, FrontIs
    <3> QED  BY <2>1, <3>2
  <2>3. P \in Seq(Glyph)
    BY <1>7
  <2>4. \A j \in 1 .. e - i : Before(W, Mark)[j] = P[j]
    <3>1. \A j \in 1 .. e - i : j \in 1 .. b - i
      BY <1>1, <1>3, <1>4
    <3> QED  BY <1>6, <1>7, <2>2, <3>1
  <2> QED  BY <1>7, <2>2, <2>3, <2>4, SeqEqual
<1>10. (\E j \in 1 .. Len(W) : W[j] \in Mark) <=> marked
  <2>1. IsPlace(W, 1, Mark, e - i + 1)
    <3>1. 1 \in 1 .. Len(W) + 1
      BY <1>6
    <3>2. IsPlace(W, 1, Mark, Place(W, 1, Mark))
      BY <1>6, <3>1, PlaceFound
    <3> QED  BY <1>8, <3>2
  <2>2. e < b => \E j \in 1 .. Len(W) : W[j] \in Mark
    BY <1>1, <1>3, <1>4, <1>6, <2>1 DEF IsPlace
  <2>3. e = b => \A j \in 1 .. Len(W) : W[j] \notin Mark
    BY <1>1, <1>3, <1>4, <1>6, <2>1 DEF IsPlace
  <2>4. e < b \/ e = b
    BY <1>1, <1>3, <1>4
  <2> QED  BY <1>5, <2>2, <2>3, <2>4
<1>11. P = W <=> e = b
  <2>1. e = b => P = W
    <3> HAVE e = b
    <3>1. P \in Seq(Glyph)
      BY <1>7
    <3>2. Len(P) = Len(W) /\ \A j \in 1 .. Len(P) : P[j] = W[j]
      BY <1>6, <1>7
    <3> QED  BY <1>6, <3>1, <3>2, SeqEqual
  <2>2. P = W => e = b
    BY <1>1, <1>3, <1>4, <1>6, <1>7
  <2> QED  BY <2>1, <2>2
<1>12. e = b <=> ~ marked
  BY <1>1, <1>3, <1>4, <1>5
<1>13. P = <<>> <=> l[i] \in Mark
  <2>1. P = <<>> <=> e = i
    <3>1. P = <<>> <=> Len(P) = 0
      BY <1>7
    <3> QED  BY <1>1, <1>3, <1>4, <1>7, <3>1
  <2>2. l[i] \in Break <=> l[i] \in Mark
    BY <1>1, <1>2
  <2>3. e = i <=> l[i] \in Break
    BY <1>1, <1>3, <1>4 DEF IsPlace
  <2> QED  BY <2>1, <2>2, <2>3
<1>14. P # <<>> => P[1] = l[i]
  <2>1. P # <<>> => Len(P) >= 1
    BY <1>7
  <2> QED  BY <1>1, <1>3, <1>4, <1>7, <2>1
<1>15. W # <<>> /\ W[1] = l[i]
  <2>1. 1 \in 1 .. b - i /\ i + 1 - 1 = i /\ Len(W) # 0
    BY <1>1, <1>3, <1>6
  <2> QED  BY <1>6, <2>1
<1> QED  BY <1>7, <1>9, <1>10, <1>11, <1>12, <1>13, <1>14, <1>15 DEF marked, W, P

\* A word is its piece unless a comment or a string follows at once.
LEMMA WordAndPiece ==
  ASSUME NEW l \in Seq(Glyph), NEW i \in 1 .. Len(l), l[i] \in Solid
  PROVE  /\ WordAt(l, i) # <<>> /\ WordAt(l, i)[1] = l[i]
         /\ Before(WordAt(l, i), Mark) = Piece(l, i)
         /\ (\E j \in 1 .. Len(WordAt(l, i)) : WordAt(l, i)[j] \in Mark) <=> Marked(l, i)
         /\ Piece(l, i) = WordAt(l, i) <=> ~ Marked(l, i)
         /\ Piece(l, i) \in Seq(Plain)
         /\ Piece(l, i) = <<>> <=> l[i] \in Mark
         /\ Piece(l, i) # <<>> => Piece(l, i)[1] = l[i]
<1>1. l[i] \notin {" "}
  BY DEF Solid
<1>2. ASSUME NEW B, B = {" "}
      PROVE  /\ \A x \in Glyph : x \in Break <=> x \in B \/ x \in Mark
             /\ \A x \in Glyph : ~ (x \in B /\ x \in Mark)
             /\ \A x \in Glyph : x \in Break \/ x \in Plain
             /\ \A x \in Plain : x \in Glyph
  BY <1>2 DEF Glyph, Break, Plain, Mark
<1>3. \A B : B = {" "} =>
        /\ \A x \in Glyph : x \in Break <=> x \in B \/ x \in Mark
        /\ \A x \in Glyph : ~ (x \in B /\ x \in Mark)
        /\ \A x \in Glyph : x \in Break \/ x \in Plain
        /\ \A x \in Plain : x \in Glyph
        /\ l[i] \notin B /\ WordAt(l, i) = SubSeq(l, i, Place(l, i, B) - 1)
  BY <1>1, <1>2 DEF WordAt
<1>4. PICK B : B = {" "}
  OBVIOUS
<1>5. /\ \A x \in Glyph : x \in Break <=> x \in B \/ x \in Mark
      /\ \A x \in Glyph : ~ (x \in B /\ x \in Mark)
      /\ \A x \in Glyph : x \in Break \/ x \in Plain
      /\ \A x \in Plain : x \in Glyph
      /\ l[i] \notin B /\ WordAt(l, i) = SubSeq(l, i, Place(l, i, B) - 1)
  BY <1>3, <1>4
<1> QED  BY <1>5, Cut

\* What the kinds of tokens say of a word.
LEMMA NameIs ==
  ASSUME NEW l \in Seq(Glyph), NEW i \in 1 .. Len(l), l[i] \in Solid
  PROVE  /\ IsName(WordAt(l, i)) <=> Kind(l[i]) = "IDENTIFIER" /\ ~ Marked(l, i)
         /\ IsName(Piece(l, i)) <=> Kind(l[i]) = "IDENTIFIER"
         /\ WordAt(l, i)[1] = "-" <=> Kind(l[i]) = "ARGUMENT"
         /\ WordAt(l, i)[1] = "#" <=> Kind(l[i]) = "COMMENT"
<1> DEFINE W == WordAt(l, i)
           P == Piece(l, i)
           c == l[i]
<1>1. /\ W # <<>> /\ W[1] = c
      /\ (\E j \in 1 .. Len(W) : W[j] \in Mark) <=> Marked(l, i)
      /\ P \in Seq(Plain)
      /\ P = <<>> <=> c \in Mark
      /\ P # <<>> => P[1] = c
  BY WordAndPiece
<1> HIDE DEF W, P, c
<1>2. (\E j \in 1 .. Len(W) : W[j] \in Mark) <=> Contains(W, "#") \/ Contains(W, "\"")
  BY DEF Contains, Mark
<1>3. ~ Contains(P, "#") /\ ~ Contains(P, "\"")
  <2>1. \A j \in 1 .. Len(P) : P[j] \in Plain
    BY <1>1
  <2>2. "#" \notin Plain /\ "\"" \notin Plain
    BY DEF Plain, Mark
  <2> QED  BY <2>1, <2>2 DEF Contains
<1>4. /\ Kind(c) = "IDENTIFIER" <=> c \notin {"1", "-"} /\ c \notin Mark
      /\ c = "-" <=> Kind(c) = "ARGUMENT"
      /\ c = "#" <=> Kind(c) = "COMMENT"
  BY DEF Kind, Mark
<1>5. c \in Mark => Marked(l, i)
  <2>1. P = W <=> ~ Marked(l, i)
    BY WordAndPiece DEF W, P
  <2> QED  BY <1>1, <2>1
<1>6. IsName(W) <=> Kind(c) = "IDENTIFIER" /\ ~ Marked(l, i)
  BY <1>1, <1>2, <1>4, <1>5 DEF IsName
<1>7. IsName(P) <=> Kind(c) = "IDENTIFIER"
  BY <1>1, <1>3, <1>4 DEF IsName
<1>8. W[1] = "-" <=> Kind(c) = "ARGUMENT"
  BY <1>1, <1>4
<1>9. W[1] = "#" <=> Kind(c) = "COMMENT"
  BY <1>1, <1>4
<1> QED  BY <1>6, <1>7, <1>8, <1>9 DEF W, P, c

LEMMA NextPlaceIs ==
  ASSUME NEW l \in Seq(Glyph), NEW i \in 1 .. Len(l) + 1, NEW B, NEW q,
         q = Place(l, Place(l, i, B), Solid),
         \A x \in B : x \notin Solid /\ x \in Break
  PROVE  /\ q \in 1 .. Len(l) + 1
         /\ q <= Len(l) => l[q] \in Solid /\ i <= Len(l) /\ PieceEnd(l, i) <= Len(l)
<1> DEFINE p == Place(l, i, B)
           e == PieceEnd(l, i)
<1>1. IsPlace(l, i, B, p) /\ IsPlace(l, i, Break, e)
  BY PlaceFound DEF PieceEnd
<1>2. p \in 1 .. Len(l) + 1
  <2> HIDE DEF p
  <2> QED  BY <1>1 DEF IsPlace
<1>3. IsPlace(l, p, Solid, q)
  <2> HIDE DEF p
  <2>1. q = Place(l, p, Solid)
    BY DEF p
  <2> QED  BY <1>2, <2>1, PlaceFound
<1> HIDE DEF p, e
<1>4. q \in 1 .. Len(l) + 1
  BY <1>2, <1>3 DEF IsPlace
<1>5. ASSUME q <= Len(l)
      PROVE  l[q] \in Solid /\ i <= Len(l) /\ e <= Len(l)
  <2>1. l[q] \in Solid /\ p <= q
    BY <1>2, <1>3, <1>5 DEF IsPlace
  <2>2. p \in i .. Len(l) /\ l[p] \in B
    BY <1>1, <1>2, <1>4, <1>5, <2>1 DEF IsPlace
  <2>3. l[p] \in Break
    BY <2>2
  <2>4. e <= p
    BY <1>1, <2>2, <2>3 DEF IsPlace
  <2>5. e \in Nat /\ i \in Nat /\ Len(l) \in Nat
    BY <1>1 DEF IsPlace
  <2> QED  BY <2>1, <2>2, <2>4, <2>5
<1> QED  BY <1>4, <1>5 DEF e

\* A word after this one begins where a blank is before it.
LEMMA NextWordIs ==
  ASSUME NEW l \in Seq(Glyph), NEW i \in 1 .. Len(l) + 1
  PROVE  /\ NextWord(l, i) \in 1 .. Len(l) + 1
         /\ NextWord(l, i) <= Len(l) =>
              l[NextWord(l, i)] \in Solid /\ i <= Len(l) /\ PieceEnd(l, i) <= Len(l)
<1>1. \A B : B = {" "} => \A x \in B : x \notin Solid /\ x \in Break
  BY DEF Solid, Break
<1>2. PICK B : B = {" "}
  OBVIOUS
<1>3. NextWord(l, i) = Place(l, Place(l, i, B), Solid)
  BY <1>2 DEF NextWord
<1>4. \A x \in B : x \notin Solid /\ x \in Break
  BY <1>1, <1>2
<1> QED  BY <1>3, <1>4, NextPlaceIs

\* The four places at which WordStarts says that words start.
LEMMA WordsAre ==
  ASSUME NEW l \in Seq(Glyph), NEW w, w = WordStarts(l)
  PROVE  /\ \A n \in 1 .. 4 : /\ w[n] \in 1 .. Len(l) + 1
                              /\ w[n] <= Len(l) => l[w[n]] \in Solid
         /\ \A n \in 1 .. 3 : w[n + 1] = NextWord(l, w[n])
<1>1. /\ w[1] = Place(l, 1, Solid) /\ w[2] = NextWord(l, w[1])
      /\ w[3] = NextWord(l, w[2]) /\ w[4] = NextWord(l, w[3])
  BY StartsAre
<1>2. w[1] \in 1 .. Len(l) + 1 /\ (w[1] <= Len(l) => l[w[1]] \in Solid)
  <2>1. 1 \in 1 .. Len(l) + 1
    OBVIOUS
  <2>2. IsPlace(l, 1, Solid, Place(l, 1, Solid))
    BY <2>1, PlaceFound
  <2> QED  BY <1>1, <2>2 DEF IsPlace
<1>3. w[2] \in 1 .. Len(l) + 1 /\ (w[2] <= Len(l) => l[w[2]] \in Solid)
  BY <1>1, <1>2, NextWordIs
<1>4. w[3] \in 1 .. Len(l) + 1 /\ (w[3] <= Len(l) => l[w[3]] \in Solid)
  BY <1>1, <1>3, NextWordIs
<1>5. w[4] \in 1 .. Len(l) + 1 /\ (w[4] <= Len(l) => l[w[4]] \in Solid)
  BY <1>1, <1>4, NextWordIs
<1> QED  BY <1>1, <1>2, <1>3, <1>4, <1>5

\* The k-th token says what the k-th word is.
LEMMA WordToken ==
  ASSUME NEW l \in Seq(Glyph), NEW i \in 1 .. Len(l) + 1, i <= Len(l) => l[i] \in Solid,
         NEW toks \in Seq(Token), NEW k \in Nat, k >= 1, WordLexed(k, l, i, toks)
  PROVE  /\ k <= Len(toks) <=> i <= Len(l)
         /\ i <= Len(l) => toks[k].type = Kind(l[i])
         /\ i <= Len(l) /\ Kind(l[i]) \in Named => toks[k].text = Piece(l, i)
         /\ i <= Len(l) /\ Kind(l[i]) \in Named /\ k + 1 <= Len(toks)
              /\ toks[k + 1].type \in Named => Ended(l, i)
         /\ Ended(l, i) => i <= Len(l) /\ ~ Marked(l, i)
         /\ i <= Len(l) /\ Kind(l[i]) \in Named /\ ~ Marked(l, i)
              /\ NextWord(l, i) <= Len(l) => Ended(l, i)
<1> DEFINE e == PieceEnd(l, i)
<1>1. Len(toks) \in Nat /\ Len(l) \in Nat /\ i \in Nat
  OBVIOUS
<1>2. k <= Len(toks) <=> i <= Len(l)
  <2>1. i > Len(l) \/ i <= Len(l)
    BY <1>1
  <2>2. i > Len(l) => ~ (i <= Len(l)) /\ Len(toks) = k - 1
    BY <1>1 DEF WordLexed
  <2>3. i <= Len(l) => Len(toks) >= k
    BY DEF WordLexed
  <2> QED  BY <1>1, <2>1, <2>2, <2>3
<1>3. i <= Len(l) => toks[k].type = Kind(l[i])
  BY DEF WordLexed
<1>4. i <= Len(l) /\ Kind(l[i]) \in Named => toks[k].text = Piece(l, i)
  BY DEF WordLexed
<1>5. ASSUME i <= Len(l), PieceEnd(l, i) <= Len(l), ~ Marked(l, i)
      PROVE  l[PieceEnd(l, i)] = " "
  <2>1. IsPlace(l, i, Break, e)
    BY PlaceFound DEF PieceEnd
  <2>2. l[e] \in Break
    <3> HIDE DEF e
    <3>1. e <= Len(l)
      BY <1>5 DEF e
    <3> QED  BY <1>1, <2>1, <3>1 DEF IsPlace
  <2>3. l[e] \notin Mark
    BY <1>5 DEF Marked
  <2> QED  BY <2>2, <2>3 DEF Break
<1>6. ASSUME i <= Len(l), Kind(l[i]) \in Named, ~ Marked(l, i), PieceEnd(l, i) <= Len(l)
      PROVE  Ended(l, i)
  BY <1>5, <1>6 DEF Ended
<1>7. ASSUME i <= Len(l), Kind(l[i]) \in Named, k + 1 <= Len(toks), toks[k + 1].type \in Named
      PROVE  Ended(l, i)
  <2>1. ~ (Len(toks) = k)
    BY <1>1, <1>7
  <2>2. ~ (e > Len(l)) /\ ~ Marked(l, i)
    BY <1>7, <2>1 DEF WordLexed
  <2>3. e <= Len(l)
    <3>1. e \in Nat
      BY PlaceFound DEF PieceEnd
    <3> HIDE DEF e
    <3> QED  BY <1>1, <2>2, <3>1
  <2> QED  BY <1>6, <1>7, <2>2, <2>3
<1>8. ASSUME Ended(l, i)
      PROVE  i <= Len(l) /\ ~ Marked(l, i)
  BY <1>8 DEF Ended, Marked, Mark
<1>9. ASSUME i <= Len(l), Kind(l[i]) \in Named, ~ Marked(l, i), NextWord(l, i) <= Len(l)
      PROVE  Ended(l, i)
  BY <1>6, <1>9, NextWordIs
<1> QED  BY <1>2, <1>3, <1>4, <1>7, <1>8, <1>9
-----------------------------------------------------------------------------
(* What the tokens of a line say of its words, and what the parsers take   *)

WordEnded(l, k) == Ended(l, WordStarts(l)[k])

WordTold(k, l, toks) ==
  /\ k <= Len(toks) <=> HasWord(l, k)
  /\ HasWord(l, k) =>
       /\ toks[k].type = "IDENTIFIER" <=> IsName(Part(l, k))
       /\ toks[k].type = "ARGUMENT" <=> Word(l, k)[1] = "-"
       /\ toks[k].type = "COMMENT" <=> Word(l, k)[1] = "#"
       /\ toks[k].type \in Named => toks[k].text = Part(l, k)
       /\ IsName(Word(l, k)) <=> IsName(Part(l, k)) /\ Part(l, k) = Word(l, k)
       /\ (\A j \in 1 .. Len(Word(l, k)) : Word(l, k)[j] \notin Mark) =>
            Part(l, k) = Word(l, k)
       /\ toks[k].type \in Named /\ k + 1 <= Len(toks) /\ toks[k + 1].type \in Named =>
            WordEnded(l, k)
       /\ toks[k].type \in Named /\ Part(l, k) = Word(l, k) /\ k < 4 /\ HasWord(l, k + 1) =>
            WordEnded(l, k)
  /\ WordEnded(l, k) => HasWord(l, k) /\ Part(l, k) = Word(l, k)

\* A token tells whether its word is there, what it says and how it ends.
LEMMA WordIsTold ==
  ASSUME NEW l \in Seq(Glyph), NEW toks \in Seq(Token), NEW k \in 1 .. 4,
         WordLexed(k, l, WordStarts(l)[k], toks)
  PROVE  WordTold(k, l, toks)
<1> DEFINE i == WordStarts(l)[k]
           W == WordAt(l, i)
           P == Piece(l, i)
<1>1. /\ i \in 1 .. Len(l) + 1 /\ (i <= Len(l) => l[i] \in Solid)
      /\ k < 4 => WordStarts(l)[k + 1] = NextWord(l, i)
  BY WordsAre
<1>2. /\ HasWord(l, k) <=> i <= Len(l)
      /\ HasWord(l, k + 1) <=> WordStarts(l)[k + 1] <= Len(l)
      /\ Word(l, k) = W /\ Part(l, k) = Before(W, Mark)
  BY DEF HasWord, Word, WordAt, Part, Mark
<1>3. WordLexed(k, l, i, toks) /\ (WordEnded(l, k) <=> Ended(l, i))
  BY DEF WordEnded
<1> HIDE DEF i
<1>4. k \in Nat /\ k >= 1 /\ (i <= Len(l) => i \in 1 .. Len(l))
  BY <1>1
<1>5. /\ k <= Len(toks) <=> i <= Len(l)
      /\ i <= Len(l) => toks[k].type = Kind(l[i])
      /\ i <= Len(l) /\ Kind(l[i]) \in Named => toks[k].text = P
      /\ i <= Len(l) /\ Kind(l[i]) \in Named /\ k + 1 <= Len(toks)
           /\ toks[k + 1].type \in Named => Ended(l, i)
      /\ Ended(l, i) => i <= Len(l) /\ ~ Marked(l, i)
      /\ i <= Len(l) /\ Kind(l[i]) \in Named /\ ~ Marked(l, i)
           /\ NextWord(l, i) <= Len(l) => Ended(l, i)
  BY <1>1, <1>3, <1>4, WordToken
<1>6. i <= Len(l) => /\ Before(W, Mark) = P
                     /\ (\E j \in 1 .. Len(W) : W[j] \in Mark) <=> Marked(l, i)
                     /\ P = W <=> ~ Marked(l, i)
  BY <1>1, <1>4, WordAndPiece
<1>7. i <= Len(l) => /\ IsName(W) <=> Kind(l[i]) = "IDENTIFIER" /\ ~ Marked(l, i)
                     /\ IsName(P) <=> Kind(l[i]) = "IDENTIFIER"
                     /\ W[1] = "-" <=> Kind(l[i]) = "ARGUMENT"
                     /\ W[1] = "#" <=> Kind(l[i]) = "COMMENT"
  BY <1>1, <1>4, NameIs
<1> HIDE DEF W, P
<1>8. k <= Len(toks) <=> HasWord(l, k)
  BY <1>2, <1>5
<1>9. ASSUME HasWord(l, k)
      PROVE  /\ Part(l, k) = P /\ toks[k].type = Kind(l[i])
             /\ P = W <=> ~ Marked(l, i)
  BY <1>2, <1>5, <1>6, <1>9
<1>10. ASSUME HasWord(l, k)
       PROVE  /\ toks[k].type = "IDENTIFIER" <=> IsName(Part(l, k))
              /\ toks[k].type = "ARGUMENT" <=> Word(l, k)[1] = "-"
              /\ toks[k].type = "COMMENT" <=> Word(l, k)[1] = "#"
              /\ IsName(Word(l, k)) <=> IsName(Part(l, k)) /\ Part(l, k) = Word(l, k)
  BY <1>2, <1>7, <1>9, <1>10
<1>11. ASSUME HasWord(l, k)
       PROVE  /\ toks[k].type \in Named => toks[k].text = Part(l, k)
              /\ (\A j \in 1 .. Len(Word(l, k)) : Word(l, k)[j] \notin Mark) =>
                   Part(l, k) = Word(l, k)
  BY <1>2, <1>5, <1>6, <1>9, <1>11
<1>12. ASSUME HasWord(l, k), toks[k].type \in Named, k + 1 <= Len(toks),
              toks[k + 1].type \in Named
       PROVE  WordEnded(l, k)
  BY <1>2, <1>3, <1>5, <1>9, <1>12
<1>13. ASSUME HasWord(l, k), toks[k].type \in Named, Part(l, k) = Word(l, k), k < 4,
              HasWord(l, k + 1)
       PROVE  WordEnded(l, k)
  BY <1>1, <1>2, <1>3, <1>5, <1>9, <1>13
<1>14. ASSUME WordEnded(l, k)
       PROVE  HasWord(l, k) /\ Part(l, k) = Word(l, k)
  BY <1>2, <1>3, <1>5, <1>9, <1>14
<1> QED  BY <1>8, <1>10, <1>11, <1>12, <1>13, <1>14 DEF WordTold

\* The parsers ask only for tokens that the words of the line tell.
LEMMA LineIsTold ==
  ASSUME NEW l \in Seq(Glyph), NEW toks \in Seq(Token), LineLexed(l, toks)
  PROVE  /\ WordTold(1, l, toks)
         /\ WordEnded(l, 1) => WordTold(2, l, toks)
         /\ WordEnded(l, 1) /\ WordEnded(l, 2) => WordTold(3, l, toks)
         /\ WordEnded(l, 1) /\ WordEnded(l, 2) /\ WordEnded(l, 3) => WordTold(4, l, toks)
         /\ \A n \in 1 .. 3 : HasWord(l, n + 1) => HasWord(l, n)
<1>1. /\ WordLexed(1, l, WordStarts(l)[1], toks)
      /\ WordEnded(l, 1) => WordLexed(2, l, WordStarts(l)[2], toks)
      /\ WordEnded(l, 1) /\ WordEnded(l, 2) => WordLexed(3, l, WordStarts(l)[3], toks)
      /\ WordEnded(l, 1) /\ WordEnded(l, 2) /\ WordEnded(l, 3) =>
           WordLexed(4, l, WordStarts(l)[4], toks)
  BY DEF LineLexed, WordEnded
<1>2. \A n \in 1 .. 3 : HasWord(l, n + 1) => HasWord(l, n)
  <2> TAKE n \in 1 .. 3
  <2> DEFINE w == WordStarts(l)
  <2>1. n \in 1 .. 4 /\ w[n] \in 1 .. Len(l) + 1 /\ w[n + 1] = NextWord(l, w[n])
    BY WordsAre
  <2>2. w[n + 1] <= Len(l) => w[n] <= Len(l)
    BY <2>1, NextWordIs
  <2> QED  BY <2>2 DEF HasWord
<1> QED  BY <1>1, <1>2, WordIsTold

\* parse_line() leaves out the lines that are ignored.
LEMMA SkippedIsIgnored ==
  ASSUME NEW l \in Seq(Glyph), NEW toks \in Seq(Token), LineLexed(l, toks)
  PROVE  Skipped(toks) <=> IsIgnored(l)
<1>1. WordTold(1, l, toks)
  BY LineIsTold
<1>2. toks = <<>> <=> ~ (1 <= Len(toks))
  OBVIOUS
<1> QED  BY <1>1, <1>2 DEF WordTold, Skipped, Expect, IsIgnored

LEMMA ShortWord ==
  ASSUME NEW a, NEW b, a \notin Mark, b \notin Mark
  PROVE  /\ \A j \in 1 .. Len(<<a>>) : <<a>>[j] \notin Mark
         /\ \A j \in 1 .. Len(<<a, b>>) : <<a, b>>[j] \notin Mark
<1>1. Len(<<a>>) = 1 /\ Len(<<a, b>>) = 2
  OBVIOUS
<1>2. \A j \in 1 .. 2 : j = 1 \/ j = 2
  OBVIOUS
<1>3. \A j \in 1 .. 1 : j = 1
  OBVIOUS
<1> QED  BY <1>1, <1>2, <1>3

-----------------------------------------------------------------------------
(* The name and the number of a target                                      *)

LEMMA NameText ==
  ASSUME NEW k \in Token, k.type = "IDENTIFIER"
  PROVE  k.text \in Seq(Plain)
<1>1. k \notin [type : {"STRING", "COMMENT"}, text : Seq(Char \ {"\n", "\""})]
  OBVIOUS
<1>2. k \in [type : {"IDENTIFIER", "INTEGER", "ARGUMENT"}, text : Seq(Plain)]
  BY <1>1 DEF Token
<1> QED  BY <1>2

\* Kinds of characters, by their places.
Bracket(w, j) == w[j] = "["
One(w, j)     == w[j] = "1"
Signed(w, j)  == w[j] \in {"-", "+"}

\* The first character of stop ends the start of a text.
LEMMA StartIs ==
  ASSUME NEW D, NEW w \in Seq(D), NEW stop
  PROVE  /\ IsPlace(w, 1, stop, Len(Before(w, stop)) + 1)
         /\ Before(w, stop) \in Seq(D) /\ Len(Before(w, stop)) \in 0 .. Len(w)
         /\ \A j \in 1 .. Len(Before(w, stop)) : Before(w, stop)[j] = w[j]
<1> DEFINE b == Place(w, 1, stop)
<1>1. 1 \in 1 .. Len(w) + 1
  OBVIOUS
<1>2. IsPlace(w, 1, stop, b) /\ b \in Nat
  BY <1>1, PlaceFound
<1>3. b \in 1 .. Len(w) + 1
  BY <1>2 DEF IsPlace
<1> HIDE DEF b
<1>4. b - 1 \in 0 .. Len(w) /\ b - 1 + 1 = b
  BY <1>3
<1>5. /\ SubSeq(w, 1, b - 1) \in Seq(D) /\ Len(SubSeq(w, 1, b - 1)) = b - 1
      /\ \A j \in 1 .. b - 1 : SubSeq(w, 1, b - 1)[j] = w[j]
  BY <1>4, FrontIs
<1>6. Before(w, stop) = SubSeq(w, 1, b - 1)
  BY DEF Before, b
<1> QED  BY <1>2, <1>4, <1>5, <1>6

\* The signal of an assignment is the start of its target, in lower case.
LEMMA NameReads ==
  ASSUME NEW w \in Seq(Plain)
  PROVE  IsSignal(NetName(w), w)
<1> DEFINE b == Before(w, {"["})
<1>1. /\ IsPlace(w, 1, {"["}, Len(b) + 1) /\ b \in Seq(Plain) /\ Len(b) \in 0 .. Len(w)
      /\ \A j \in 1 .. Len(b) : b[j] = w[j]
  BY StartIs
<1>2. /\ Len(b) = Len(w) \/ (Len(b) < Len(w) /\ w[Len(b) + 1] = "[")
      /\ \A j \in 1 .. Len(b) : w[j] # "["
  <2>1. /\ Len(b) + 1 = Len(w) + 1 \/ w[Len(b) + 1] \in {"["}
        /\ \A j \in 1 .. Len(b) + 1 - 1 : w[j] \notin {"["}
    BY <1>1 DEF IsPlace
  <2>2. /\ Len(b) + 1 - 1 = Len(b) /\ (Len(b) + 1 = Len(w) + 1 <=> Len(b) = Len(w))
        /\ Len(b) # Len(w) => Len(b) < Len(w)
    BY <1>1
  <2> QED  BY <2>1, <2>2
<1> HIDE DEF b
<1>3. DOMAIN b = 1 .. Len(b) /\ Len(b) \in Nat
  BY <1>1
<1>4. NetName(w) = [j \in 1 .. Len(b) |-> IF b[j] = "A" THEN "a" ELSE b[j]]
  BY <1>3 DEF NetName, ToLower, b
<1>5. Len(NetName(w)) = Len(b) /\ DOMAIN NetName(w) = 1 .. Len(b)
  BY <1>3, <1>4
<1>6. \A j \in 1 .. Len(b) : NetName(w)[j] = IF w[j] = "A" THEN "a" ELSE w[j]
  BY <1>1, <1>4
<1> QED  BY <1>2, <1>5, <1>6 DEF IsSignal

\* Where the bracket is, and the text that stoi() is given.
NumAt(w, b) ==
  /\ b \in 1 .. Len(w) /\ Bracket(w, b) /\ \A j \in 1 .. b - 1 : ~ Bracket(w, j)
  /\ Num(w) \in Seq(Plain)
  /\ Len(Num(w)) = IF b < Len(w) THEN Len(w) - 1 - b ELSE 0
  /\ \A j \in 1 .. Len(Num(w)) : Num(w)[j] = w[b + j]

LEMMA NumIs ==
  ASSUME NEW w \in Seq(Plain), HasIndex(w)
  PROVE  \E b : NumAt(w, b)
<1> DEFINE b == Len(Before(w, {"["})) + 1
<1>1. IsPlace(w, 1, {"["}, b) /\ b - 1 \in 0 .. Len(w) /\ b \in Nat
  BY StartIs
<1>2. PICK i \in 1 .. Len(w) : w[i] = "["
  BY DEF HasIndex, Contains
<1>3. b \in 1 .. Len(w) /\ Bracket(w, b) /\ \A j \in 1 .. b - 1 : ~ Bracket(w, j)
  <2>1. b = Len(w) + 1 \/ Bracket(w, b)
    BY <1>1 DEF IsPlace, Bracket
  <2>2. \A j \in 1 .. b - 1 : ~ Bracket(w, j)
    BY <1>1 DEF IsPlace, Bracket
  <2>3. Bracket(w, i)
    BY <1>2 DEF Bracket
  <2> HIDE DEF b
  <2>4. b # Len(w) + 1
    BY <1>1, <1>2, <2>2, <2>3
  <2> QED  BY <1>1, <2>1, <2>2, <2>4
<1>4. Num(w) = SubSeq(w, b + 1, Len(w) - 1)
  <2>1. Len(Before(w, {"["})) + 2 = b + 1
    BY StartIs
  <2> QED  BY <2>1 DEF Num
<1> HIDE DEF b
<1> DEFINE m == b + 1
           n == Len(w) - 1
<1>5. m \in Int /\ n \in Int /\ \A j \in m .. n : w[j] \in Plain
  BY <1>3
<1>6. /\ SubSeq(w, m, n) \in Seq(Plain)
      /\ Len(SubSeq(w, m, n)) = (IF m <= n THEN n - m + 1 ELSE 0)
      /\ \A j \in 1 .. n - m + 1 : SubSeq(w, m, n)[j] = w[m + j - 1]
  <2> HIDE DEF m, n
  <2> QED  BY <1>5, SubSeqProperties
<1>7. (IF m <= n THEN n - m + 1 ELSE 0) = (IF b < Len(w) THEN Len(w) - 1 - b ELSE 0)
  BY <1>3
<1>8. \A j \in 1 .. Len(SubSeq(w, m, n)) : SubSeq(w, m, n)[j] = w[b + j]
  <2> TAKE j \in 1 .. Len(SubSeq(w, m, n))
  <2>1. j \in 1 .. n - m + 1 /\ m + j - 1 = b + j
    BY <1>3, <1>6
  <2> QED  BY <1>6, <2>1
<1>9. NumAt(w, b)
  BY <1>3, <1>4, <1>6, <1>7, <1>8 DEF NumAt
<1> QED  BY <1>9

\* The sign and the digits of such a text: sign g, d digits.
StoiAt(num, g, d) ==
  /\ g \in {0, 1} /\ d \in Nat /\ g + d <= Len(num)
  /\ g = 1 <=> Len(num) >= 1 /\ Signed(num, 1)
  /\ \A j \in g + 1 .. g + d : One(num, j)
  /\ g + d < Len(num) => ~ One(num, g + d + 1)

LEMMA StoiIs ==
  ASSUME NEW num \in Seq(Plain)
  PROVE  StoiAt(num, Sign(num), Len(Digits(num)))
<1> DEFINE g == Sign(num)
           rest == SubSeq(num, g + 1, Len(num))
           other == Char \ {"1"}
           d == Len(Digits(num))
<1>1. g \in {0, 1} /\ (g = 1 <=> num # <<>> /\ Signed(num, 1))
  BY DEF Sign, Signed
<1>2. num # <<>> <=> Len(num) >= 1
  OBVIOUS
<1>3. /\ rest \in Seq(Plain) /\ Len(rest) = Len(num) - g
      /\ \A j \in 1 .. Len(num) - g : rest[j] = num[g + j]
  <2> HIDE DEF g
  <2> DEFINE m == g + 1
             n == Len(num)
  <2>1. m \in Int /\ n \in Int /\ \A j \in m .. n : num[j] \in Plain
    BY <1>1
  <2>2. /\ SubSeq(num, m, n) \in Seq(Plain)
        /\ Len(SubSeq(num, m, n)) = (IF m <= n THEN n - m + 1 ELSE 0)
        /\ \A j \in 1 .. n - m + 1 : SubSeq(num, m, n)[j] = num[m + j - 1]
    <3> HIDE DEF m, n
    <3> QED  BY <2>1, SubSeqProperties
  <2>3. (IF m <= n THEN n - m + 1 ELSE 0) = Len(num) - g
    BY <1>1, <1>2
  <2>4. \A j \in 1 .. Len(num) - g : SubSeq(num, m, n)[j] = num[g + j]
    <3> TAKE j \in 1 .. Len(num) - g
    <3>1. j \in 1 .. n - m + 1 /\ m + j - 1 = g + j
      BY <1>1
    <3> QED  BY <2>2, <3>1
  <2> QED  BY <2>2, <2>3, <2>4
<1>4. d = Len(Before(rest, other))
  BY DEF Digits
<1> HIDE DEF rest, other, g, d
<1>5. IsPlace(rest, 1, other, d + 1) /\ d \in 0 .. Len(rest)
  BY <1>3, <1>4, StartIs
<1>6. \A j \in 1 .. Len(rest) : rest[j] \in other <=> ~ One(rest, j)
  <2>1. \A x \in Plain : x \in other <=> x # "1"
    BY DEF Plain, other
  <2> QED  BY <1>3, <2>1 DEF One
<1>7. d \in Nat /\ d <= Len(num) - g /\ Len(num) \in Nat
  BY <1>1, <1>3, <1>5
<1>8. \A j \in 1 .. d : One(rest, j)
  BY <1>3, <1>5, <1>6, <1>7 DEF IsPlace
<1>9. d < Len(rest) => ~ One(rest, d + 1)
  <2> SUFFICES ASSUME d < Len(rest) PROVE ~ One(rest, d + 1)
    OBVIOUS
  <2>1. d + 1 # Len(rest) + 1 /\ d + 1 \in 1 .. Len(rest)
    BY <1>3, <1>7
  <2>2. rest[d + 1] \in other
    BY <1>5, <2>1 DEF IsPlace
  <2> QED  BY <1>6, <2>1, <2>2
<1>10. \A j \in 1 .. Len(num) - g : One(rest, j) <=> One(num, g + j)
  BY <1>3 DEF One
<1>11. \A j \in g + 1 .. g + d : One(num, j)
  <2> TAKE j \in g + 1 .. g + d
  <2>1. j - g \in 1 .. d /\ j - g \in 1 .. Len(num) - g /\ g + (j - g) = j
    BY <1>1, <1>7
  <2> QED  BY <1>8, <1>10, <2>1
<1>12. g + d < Len(num) => ~ One(num, g + d + 1)
  <2> SUFFICES ASSUME g + d < Len(num) PROVE ~ One(num, g + d + 1)
    OBVIOUS
  <2>1. d < Len(rest) /\ d + 1 \in 1 .. Len(num) - g /\ g + (d + 1) = g + d + 1
    BY <1>1, <1>3, <1>7
  <2> QED  BY <1>9, <1>10, <2>1
<1>13. g + d <= Len(num)
  BY <1>1, <1>7
<1>14. StoiAt(num, g, d)
  BY <1>1, <1>2, <1>7, <1>11, <1>12, <1>13 DEF StoiAt
<1> QED  BY <1>14 DEF g, d

\* The same in the target, by its own places: a bracket at b, a sign of length
\* g, and d digits, which stop before the last character.
TargetAt(w, b, g, d) ==
  /\ b \in 1 .. Len(w) /\ Bracket(w, b) /\ \A j \in 1 .. b - 1 : ~ Bracket(w, j)
  /\ g \in {0, 1} /\ d \in Nat
  /\ g + d > 0 => b + g + d < Len(w)
  /\ g = 1 <=> b + 1 < Len(w) /\ Signed(w, b + 1)
  /\ \A j \in b + g + 1 .. b + g + d : One(w, j)
  /\ b + g + d + 1 < Len(w) => ~ One(w, b + g + d + 1)

LEMMA TargetIs ==
  ASSUME NEW w \in Seq(Plain), NEW b, NumAt(w, b), NEW g, NEW d, StoiAt(Num(w), g, d)
  PROVE  TargetAt(w, b, g, d)
<1> DEFINE num == Num(w)
           n == Len(num)
<1>1. /\ b \in 1 .. Len(w) /\ Bracket(w, b) /\ \A j \in 1 .. b - 1 : ~ Bracket(w, j)
      /\ n = IF b < Len(w) THEN Len(w) - 1 - b ELSE 0
      /\ \A j \in 1 .. n : num[j] = w[b + j]
  BY DEF NumAt
<1>2. /\ g \in {0, 1} /\ d \in Nat /\ g + d <= n
      /\ g = 1 <=> n >= 1 /\ Signed(num, 1)
      /\ \A j \in g + 1 .. g + d : One(num, j)
      /\ g + d < n => ~ One(num, g + d + 1)
  BY DEF StoiAt
<1> HIDE DEF num, n
<1>3. \A j \in 1 .. n : (One(num, j) <=> One(w, b + j)) /\ (Signed(num, j) <=> Signed(w, b + j))
  BY <1>1 DEF One, Signed
<1>4. Len(w) \in Nat /\ n \in Nat
  BY <1>1
<1>5. g + d > 0 => b + g + d < Len(w)
  BY <1>1, <1>2, <1>4
<1>6. g = 1 <=> b + 1 < Len(w) /\ Signed(w, b + 1)
  <2>1. n >= 1 <=> b + 1 < Len(w)
    BY <1>1, <1>4
  <2>2. n >= 1 => (Signed(num, 1) <=> Signed(w, b + 1))
    BY <1>3, <1>4
  <2> QED  BY <1>2, <2>1, <2>2
<1>7. \A j \in b + g + 1 .. b + g + d : One(w, j)
  <2> TAKE j \in b + g + 1 .. b + g + d
  <2>1. j - b \in g + 1 .. g + d /\ j - b \in 1 .. n /\ b + (j - b) = j
    BY <1>1, <1>2, <1>4
  <2> QED  BY <1>2, <1>3, <2>1
<1>8. b + g + d + 1 < Len(w) => ~ One(w, b + g + d + 1)
  <2> SUFFICES ASSUME b + g + d + 1 < Len(w) PROVE ~ One(w, b + g + d + 1)
    OBVIOUS
  <2>1. g + d < n /\ g + d + 1 \in 1 .. n /\ b + (g + d + 1) = b + g + d + 1
    BY <1>1, <1>2, <1>4
  <2> QED  BY <1>2, <1>3, <2>1
<1> QED  BY <1>1, <1>2, <1>5, <1>6, <1>7, <1>8 DEF TargetAt

IndexRange == - MaxDigits .. MaxDigits
HasNumber(w) == \E v \in - MaxDigits .. MaxDigits : Denotes(w, v)

\* What Denotes says of a target with a bracket: from and to are its digits.
NumberAt(w, v, i, from, to) ==
  /\ i \in 1 .. Len(w) /\ from \in 1 .. Len(w) /\ to \in 1 .. Len(w)
  /\ Bracket(w, i) /\ \A j \in 1 .. i - 1 : ~ Bracket(w, j)
  /\ from = i + 1 \/ (from = i + 2 /\ Signed(w, i + 1))
  /\ from <= to /\ to < Len(w) /\ \A j \in from .. to : One(w, j)
  /\ to + 1 = Len(w) \/ ~ One(w, to + 1)
  /\ to - from < MaxDigits
  /\ v = IF w[i + 1] = "-" THEN from - to - 1 ELSE to - from + 1

LEMMA NumberIs ==
  ASSUME NEW w \in Seq(Plain), NEW v
  PROVE  Denotes(w, v) <=> \/ v = 0 /\ ~ HasIndex(w)
                           \/ \E i, from, to : NumberAt(w, v, i, from, to)
<1>1. DOMAIN w = 1 .. Len(w)
  OBVIOUS
<1>2. ~ HasIndex(w) <=> \A i \in DOMAIN w : w[i] # "["
  BY <1>1 DEF HasIndex, Contains
<1> QED  BY <1>1, <1>2 DEF Denotes, NumberAt, Bracket, One, Signed

\* A digit is no sign.
LEMMA OneIsNoSign == \A w, j : ~ (One(w, j) /\ Signed(w, j))
BY DEF One, Signed

\* The number that is told has the digits that stoi() reads.
LEMMA SameNumber ==
  ASSUME NEW w \in Seq(Plain), NEW b, NEW g, NEW d, TargetAt(w, b, g, d),
         NEW v, NEW i, NEW from, NEW to, NumberAt(w, v, i, from, to)
  PROVE  d = to - from + 1 /\ d \in 1 .. MaxDigits
<1>1. /\ b \in 1 .. Len(w) /\ Bracket(w, b) /\ \A j \in 1 .. b - 1 : ~ Bracket(w, j)
      /\ g \in {0, 1} /\ d \in Nat
      /\ g + d > 0 => b + g + d < Len(w)
      /\ g = 1 <=> b + 1 < Len(w) /\ Signed(w, b + 1)
      /\ \A j \in b + g + 1 .. b + g + d : One(w, j)
      /\ b + g + d + 1 < Len(w) => ~ One(w, b + g + d + 1)
  BY DEF TargetAt
<1>2. /\ i \in 1 .. Len(w) /\ from \in 1 .. Len(w) /\ to \in 1 .. Len(w)
      /\ Bracket(w, i) /\ \A j \in 1 .. i - 1 : ~ Bracket(w, j)
      /\ from = i + 1 \/ (from = i + 2 /\ Signed(w, i + 1))
      /\ from <= to /\ to < Len(w) /\ \A j \in from .. to : One(w, j)
      /\ to + 1 = Len(w) \/ ~ One(w, to + 1)
      /\ to - from < MaxDigits
  BY DEF NumberAt
<1>3. i = b
  BY <1>1, <1>2
<1>4. from = b + g + 1
  <2>1. CASE from = i + 1
    <3>1. ~ Signed(w, b + 1)
      BY <1>2, <1>3, <2>1, OneIsNoSign
    <3> QED  BY <1>1, <1>3, <2>1, <3>1
  <2>2. CASE from = i + 2 /\ Signed(w, i + 1)
    <3>1. b + 1 < Len(w)
      BY <1>1, <1>2, <1>3, <2>2
    <3> QED  BY <1>1, <1>3, <2>2, <3>1
  <2> QED  BY <1>2, <2>1, <2>2
<1>5. ~ (to < b + g + d)
  <2> SUFFICES ASSUME to < b + g + d PROVE FALSE
    OBVIOUS
  <2>1. to + 1 \in b + g + 1 .. b + g + d /\ to + 1 < Len(w)
    BY <1>1, <1>2, <1>4
  <2> QED  BY <1>1, <1>2, <2>1
<1>6. ~ (b + g + d < to)
  <2> SUFFICES ASSUME b + g + d < to PROVE FALSE
    OBVIOUS
  <2>1. b + g + d + 1 \in from .. to /\ b + g + d + 1 < Len(w)
    BY <1>1, <1>2, <1>4
  <2> QED  BY <1>1, <1>2, <2>1
<1>7. to = b + g + d
  BY <1>1, <1>2, <1>5, <1>6
<1> QED  BY <1>1, <1>2, <1>4, <1>7, DigitsAssumption

\* stoi() throws exactly when the target holds no number that fits an int, and
\* otherwise reads that number.
LEMMA StoiReads ==
  ASSUME NEW w \in Seq(Plain)
  PROVE  /\ ~ StoiThrows(w) <=> HasNumber(w)
         /\ ~ StoiThrows(w) => Denotes(w, Index(w)) /\ Index(w) \in IndexRange
<1>1. CASE ~ HasIndex(w)
  <2>1. ~ StoiThrows(w) /\ Index(w) = 0
    BY <1>1 DEF StoiThrows, Index
  <2>2. 0 \in - MaxDigits .. MaxDigits
    BY DigitsAssumption
  <2>3. Denotes(w, 0)
    BY <1>1, NumberIs
  <2> QED  BY <2>1, <2>2, <2>3 DEF HasNumber, IndexRange
<1>2. CASE HasIndex(w)
  <2> DEFINE num == Num(w)
             g == Sign(num)
             d == Len(Digits(num))
  <2>1. PICK b : NumAt(w, b)
    BY <1>2, NumIs
  <2>2. num \in Seq(Plain)
    BY <2>1 DEF NumAt
  <2>3. StoiAt(num, g, d)
    BY <2>2, StoiIs
  <2>4. TargetAt(w, b, g, d)
    BY <2>1, <2>3, TargetIs
  <2>5. StoiThrows(w) <=> d \notin 1 .. MaxDigits
    BY <1>2 DEF StoiThrows
  <2>6. Index(w) = IF num[1] = "-" THEN - d ELSE d
    BY <1>2 DEF Index
  <2> HIDE DEF num, g, d
  <2>7. ASSUME HasNumber(w) PROVE d \in 1 .. MaxDigits
    <3>1. PICK v : Denotes(w, v)
      BY <2>7 DEF HasNumber
    <3>2. PICK i, from, to : NumberAt(w, v, i, from, to)
      BY <1>2, <3>1, NumberIs
    <3> QED  BY <2>4, <3>2, SameNumber
  <2>8. ASSUME d \in 1 .. MaxDigits
        PROVE  Denotes(w, Index(w)) /\ Index(w) \in IndexRange
    <3>1. /\ b \in 1 .. Len(w) /\ Bracket(w, b) /\ \A j \in 1 .. b - 1 : ~ Bracket(w, j)
          /\ g \in {0, 1} /\ d \in Nat
          /\ g + d > 0 => b + g + d < Len(w)
          /\ g = 1 <=> b + 1 < Len(w) /\ Signed(w, b + 1)
          /\ \A j \in b + g + 1 .. b + g + d : One(w, j)
          /\ b + g + d + 1 < Len(w) => ~ One(w, b + g + d + 1)
      BY <2>4 DEF TargetAt
    <3> DEFINE from == b + g + 1
               to == b + g + d
    <3>2. /\ from \in 1 .. Len(w) /\ to \in 1 .. Len(w) /\ from <= to /\ to < Len(w)
          /\ to - from < MaxDigits /\ to - from + 1 = d /\ from - to - 1 = - d
      BY <2>8, <3>1, DigitsAssumption
    <3>3. from = b + 1 \/ (from = b + 2 /\ Signed(w, b + 1))
      BY <3>1
    <3>4. to + 1 = Len(w) \/ ~ One(w, to + 1)
      BY <3>1, <3>2
    <3>5. num[1] = w[b + 1]
      <4>1. 1 \in 1 .. Len(num)
        BY <2>1, <3>1, <3>2 DEF NumAt, num
      <4> QED  BY <2>1, <4>1 DEF NumAt, num
    <3>6. Index(w) = IF w[b + 1] = "-" THEN from - to - 1 ELSE to - from + 1
      <4> HIDE DEF from, to
      <4> QED  BY <2>6, <3>2, <3>5
    <3>7. \A j \in from .. to : One(w, j)
      BY <3>1
    <3>8. NumberAt(w, Index(w), b, from, to)
      <4> HIDE DEF from, to
      <4> QED  BY <3>1, <3>2, <3>3, <3>4, <3>6, <3>7 DEF NumberAt
    <3>9. Index(w) = d \/ Index(w) = - d
      BY <2>6
    <3>10. Index(w) \in IndexRange
      BY <2>8, <3>9, DigitsAssumption DEF IndexRange
    <3> QED  BY <3>8, <3>10, NumberIs
  <2>9. Denotes(w, Index(w)) /\ Index(w) \in IndexRange => HasNumber(w)
    BY DEF HasNumber, IndexRange
  <2> QED  BY <2>5, <2>7, <2>8, <2>9
<1> QED  BY <1>1, <1>2

Read3(toks) == [pin |-> toks[1].text, signal |-> NetName(toks[3].text),
                index |-> Index(toks[3].text)]

GoodLine(toks) == ArrowLine(toks) /\ ~ StoiThrows(toks[3].text)

LEMMA NamedTypes ==
  /\ "IDENTIFIER" \in Named /\ "ARGUMENT" \in Named
  BY DEF Named

\* The board takes a line for an assignment exactly when it is one.
LEMMA GoodIsAssignment ==
  ASSUME NEW l \in Seq(Glyph), NEW toks \in Seq(Token), LineLexed(l, toks)
  PROVE  /\ GoodLine(toks) <=> IsAssignment(l)
         /\ GoodLine(toks) => Means(Read3(toks), l)
<1> DEFINE T(k) == k <= Len(toks)
           Id(k) == toks[k].type = "IDENTIFIER"
           Arg(k) == toks[k].type = "ARGUMENT"
           N(k) == toks[k].type \in Named
<1>1. /\ WordTold(1, l, toks)
      /\ WordEnded(l, 1) => WordTold(2, l, toks)
      /\ WordEnded(l, 1) /\ WordEnded(l, 2) => WordTold(3, l, toks)
      /\ HasWord(l, 3) => HasWord(l, 2)
      /\ HasWord(l, 2) => HasWord(l, 1)
  BY LineIsTold
<1>2. ASSUME NEW k \in 1 .. 3, WordTold(k, l, toks)
      PROVE  /\ T(k) <=> HasWord(l, k)
             /\ HasWord(l, k) =>
                  /\ Id(k) <=> IsName(Part(l, k))
                  /\ Arg(k) <=> Word(l, k)[1] = "-"
                  /\ IsName(Word(l, k)) <=> IsName(Part(l, k)) /\ Part(l, k) = Word(l, k)
                  /\ Id(k) \/ Arg(k) => toks[k].text = Part(l, k)
                  /\ (Id(k) \/ Arg(k)) /\ T(k + 1) /\ (Id(k + 1) \/ Arg(k + 1)) =>
                       WordEnded(l, k)
                  /\ (Id(k) \/ Arg(k)) /\ Part(l, k) = Word(l, k) /\ HasWord(l, k + 1) =>
                       WordEnded(l, k)
             /\ WordEnded(l, k) => HasWord(l, k) /\ Part(l, k) = Word(l, k)
  <2>1. k < 4
    OBVIOUS
  <2>2. /\ Id(k) \/ Arg(k) => N(k)
        /\ Id(k + 1) \/ Arg(k + 1) => N(k + 1)
    BY NamedTypes
  <2> QED  BY <1>2, <2>1, <2>2 DEF WordTold
<1>3. ArrowLine(toks) <=> /\ T(1) /\ Id(1) /\ T(2) /\ Arg(2) /\ toks[2].text = <<"-", ">">>
                          /\ T(3) /\ Id(3)
  BY DEF ArrowLine, Expect
<1>4. ASSUME WordTold(2, l, toks), HasWord(l, 2), Word(l, 2) = <<"-", ">">>
      PROVE  Word(l, 2)[1] = "-" /\ Part(l, 2) = Word(l, 2)
  <2>1. \A j \in 1 .. Len(Word(l, 2)) : Word(l, 2)[j] \notin Mark
    <3>1. "-" \notin Mark /\ ">" \notin Mark
      BY DEF Mark
    <3> QED  BY <1>4, <3>1, ShortWord
  <2> QED  BY <1>4, <2>1 DEF WordTold
<1> HIDE DEF T, Id, Arg, N
<1>5. ASSUME ArrowLine(toks)
      PROVE  /\ HasWord(l, 3) /\ IsName(Word(l, 1)) /\ Word(l, 2) = <<"-", ">">>
             /\ IsName(Part(l, 3)) /\ toks[3].text = Part(l, 3)
             /\ toks[1].text = Word(l, 1)
  <2>1. WordEnded(l, 1) /\ IsName(Part(l, 1)) /\ Part(l, 1) = Word(l, 1)
        /\ toks[1].text = Part(l, 1) /\ HasWord(l, 1)
    BY <1>1, <1>2, <1>3, <1>5
  <2>2. WordEnded(l, 2) /\ toks[2].text = Part(l, 2) /\ Part(l, 2) = Word(l, 2)
    BY <1>1, <1>2, <1>3, <1>5, <2>1
  <2>3. HasWord(l, 3) /\ IsName(Part(l, 3)) /\ toks[3].text = Part(l, 3)
    BY <1>1, <1>2, <1>3, <1>5, <2>1, <2>2
  <2>4. IsName(Word(l, 1))
    BY <1>1, <1>2, <2>1
  <2> QED  BY <1>3, <1>5, <2>1, <2>2, <2>3, <2>4
<1>6. ASSUME HasWord(l, 3), IsName(Word(l, 1)), Word(l, 2) = <<"-", ">">>,
             IsName(Part(l, 3))
      PROVE  ArrowLine(toks) /\ toks[3].text = Part(l, 3)
  <2>1. HasWord(l, 2) /\ HasWord(l, 1)
    BY <1>1, <1>6
  <2>2. WordEnded(l, 1) /\ T(1) /\ Id(1)
    BY <1>1, <1>2, <1>6, <2>1
  <2>3. Word(l, 2)[1] = "-" /\ Part(l, 2) = Word(l, 2)
    BY <1>1, <1>4, <1>6, <2>1, <2>2
  <2>4. WordEnded(l, 2) /\ T(2) /\ Arg(2) /\ toks[2].text = Part(l, 2)
    BY <1>1, <1>2, <1>6, <2>1, <2>2, <2>3
  <2>5. T(3) /\ Id(3) /\ toks[3].text = Part(l, 3)
    BY <1>1, <1>2, <1>6, <2>2, <2>4
  <2> QED  BY <1>3, <1>6, <2>2, <2>3, <2>4, <2>5
<1>7. T(3) => 3 \in 1 .. Len(toks)
  BY DEF T
<1>8. ASSUME ArrowLine(toks), toks[3].text = Part(l, 3)
      PROVE  Target(l) \in Seq(Plain) /\ toks[3].text = Target(l)
  <2>1. toks[3] \in Token /\ toks[3].type = "IDENTIFIER"
    BY <1>3, <1>7, <1>8 DEF Id
  <2> QED  BY <1>8, <2>1, NameText DEF Target
<1>9. ASSUME ArrowLine(toks), toks[3].text = Part(l, 3)
      PROVE  ~ StoiThrows(toks[3].text) <=> HasNumber(Target(l))
  BY <1>8, <1>9, StoiReads
<1>10. IsAssignment(l) <=> /\ HasWord(l, 3) /\ IsName(Word(l, 1))
                           /\ Word(l, 2) = <<"-", ">">> /\ IsName(Part(l, 3))
                           /\ HasNumber(Target(l))
  BY DEF IsAssignment, HasNumber, Target
<1>11. GoodLine(toks) <=> IsAssignment(l)
  BY <1>5, <1>6, <1>9, <1>10 DEF GoodLine
<1>12. ASSUME GoodLine(toks) PROVE Means(Read3(toks), l)
  <2>1. ArrowLine(toks) /\ ~ StoiThrows(toks[3].text)
    BY <1>12 DEF GoodLine
  <2>2. /\ toks[3].text = Part(l, 3) /\ toks[1].text = Word(l, 1)
        /\ Target(l) \in Seq(Plain) /\ toks[3].text = Target(l)
    BY <1>5, <1>8, <2>1
  <2>3. IsSignal(NetName(Target(l)), Target(l)) /\ Denotes(Target(l), Index(Target(l)))
    BY <2>1, <2>2, NameReads, StoiReads
  <2> QED  BY <2>2, <2>3 DEF Means, Read3
<1> QED  BY <1>11, <1>12

Read4(toks) == [pin |-> toks[2].text, dst |-> toks[4].text]

\* The prototype takes a line exactly when it is a location or a pin without
\* an option, and of the lines it takes the locations are those with one.
LEMMA TakenIsLocation ==
  ASSUME NEW l \in Seq(Glyph), NEW toks \in Seq(Token), LineLexed(l, toks)
  PROVE  /\ Taken(toks) <=> IsLocation(l) \/ IsPinOnly(l)
         /\ Taken(toks) => (HasArgument(toks) <=> IsLocation(l))
         /\ Taken(toks) /\ HasArgument(toks) =>
              Read4(toks) = [pin |-> Word(l, 2), dst |-> Part(l, 4)]
<1> DEFINE T(k) == k <= Len(toks)
           Id(k) == toks[k].type = "IDENTIFIER"
           Arg(k) == toks[k].type = "ARGUMENT"
           N(k) == toks[k].type \in Named
<1>1. /\ WordTold(1, l, toks)
      /\ WordEnded(l, 1) => WordTold(2, l, toks)
      /\ WordEnded(l, 1) /\ WordEnded(l, 2) => WordTold(3, l, toks)
      /\ WordEnded(l, 1) /\ WordEnded(l, 2) /\ WordEnded(l, 3) => WordTold(4, l, toks)
      /\ HasWord(l, 4) => HasWord(l, 3)
      /\ HasWord(l, 3) => HasWord(l, 2)
      /\ HasWord(l, 2) => HasWord(l, 1)
  BY LineIsTold
<1>2. ASSUME NEW k \in 1 .. 4, WordTold(k, l, toks)
      PROVE  /\ T(k) <=> HasWord(l, k)
             /\ HasWord(l, k) =>
                  /\ Id(k) <=> IsName(Part(l, k))
                  /\ Arg(k) <=> Word(l, k)[1] = "-"
                  /\ Id(k) \/ Arg(k) => toks[k].text = Part(l, k)
                  /\ (Id(k) \/ Arg(k)) /\ T(k + 1) /\ (Id(k + 1) \/ Arg(k + 1)) =>
                       WordEnded(l, k)
                  /\ (Id(k) \/ Arg(k)) /\ Part(l, k) = Word(l, k) /\ k < 4
                       /\ HasWord(l, k + 1) => WordEnded(l, k)
             /\ WordEnded(l, k) => HasWord(l, k) /\ Part(l, k) = Word(l, k)
  <2>2. /\ Id(k) \/ Arg(k) => N(k)
        /\ Id(k + 1) \/ Arg(k + 1) => N(k + 1)
    BY NamedTypes
  <2> QED  BY <1>2, <2>2 DEF WordTold
<1>3. HasPin(toks) <=> /\ T(1) /\ Id(1) /\ toks[1].text = Command
                       /\ T(2) /\ Id(2)
  BY DEF HasPin, Expect
<1>4. /\ HasArgument(toks) <=> T(3) /\ Arg(3)
      /\ HasDestination(toks) <=> toks[3].text = To /\ T(4) /\ Id(4)
  BY DEF HasArgument, HasDestination, Expect
<1>5. ASSUME NEW k \in 1 .. 4, WordTold(k, l, toks), HasWord(l, k),
             Word(l, k) = Command \/ Word(l, k) = To
      PROVE  Part(l, k) = Word(l, k)
  <2>1. \A j \in 1 .. Len(Word(l, k)) : Word(l, k)[j] \notin Mark
    <3>1. "A" \notin Mark /\ "-" \notin Mark /\ "a" \notin Mark
      BY DEF Mark
    <3> QED  BY <1>5, <3>1, ShortWord DEF Command, To
  <2> QED  BY <1>5, <2>1 DEF WordTold
<1>6. ASSUME Word(l, 1) = Command
      PROVE  IsName(Word(l, 1))
  <2>1. Word(l, 1) # <<>> /\ Word(l, 1)[1] = "A"
    BY <1>6 DEF Command
  <2>2. \A j \in 1 .. Len(Word(l, 1)) : Word(l, 1)[j] \notin Mark
    <3>1. "A" \notin Mark
      BY DEF Mark
    <3> QED  BY <1>6, <3>1, ShortWord DEF Command
  <2>3. "#" \in Mark /\ "\"" \in Mark
    BY DEF Mark
  <2>4. ~ Contains(Word(l, 1), "#") /\ ~ Contains(Word(l, 1), "\"")
    BY <2>2, <2>3 DEF Contains
  <2> QED  BY <2>1, <2>4 DEF IsName
<1> HIDE DEF T, Id, Arg, N
<1>7. HasPin(toks) <=> NamesPin(l)
  <2>1. ASSUME HasPin(toks)
        PROVE  HasWord(l, 2) /\ Word(l, 1) = Command /\ IsName(Part(l, 2))
    <3>1. HasWord(l, 1) /\ WordEnded(l, 1) /\ toks[1].text = Part(l, 1)
          /\ Part(l, 1) = Word(l, 1)
      BY <1>1, <1>2, <1>3, <2>1
    <3> QED  BY <1>1, <1>2, <1>3, <2>1, <3>1
  <2>2. ASSUME HasWord(l, 2), Word(l, 1) = Command, IsName(Part(l, 2))
        PROVE  HasPin(toks)
    <3>1. HasWord(l, 1) /\ Part(l, 1) = Word(l, 1) /\ IsName(Part(l, 1))
      BY <1>1, <1>5, <1>6, <2>2
    <3>2. T(1) /\ Id(1) /\ toks[1].text = Part(l, 1) /\ WordEnded(l, 1)
      BY <1>1, <1>2, <2>2, <3>1
    <3> QED  BY <1>1, <1>2, <1>3, <2>2, <3>1, <3>2
  <2> QED  BY <2>1, <2>2 DEF NamesPin
<1>8. ASSUME HasPin(toks)
      PROVE  /\ WordEnded(l, 1) /\ HasWord(l, 2) /\ Id(2) /\ WordTold(2, l, toks)
             /\ toks[2].text = Part(l, 2)
             /\ WordEnded(l, 2) => WordTold(3, l, toks) /\ Part(l, 2) = Word(l, 2)
             /\ WordEnded(l, 2) /\ WordEnded(l, 3) => WordTold(4, l, toks)
  <2>1. WordEnded(l, 1)
    BY <1>1, <1>2, <1>3, <1>8
  <2> QED  BY <1>1, <1>2, <1>3, <1>8, <2>1
<1>9. ASSUME HasPin(toks)
      PROVE  HasArgument(toks) <=> HasOption(l)
  <2>1. ASSUME HasArgument(toks)
        PROVE  HasWord(l, 3) /\ Part(l, 2) = Word(l, 2) /\ Word(l, 3)[1] = "-"
    <3>1. WordEnded(l, 2)
      BY <1>2, <1>4, <1>8, <1>9, <2>1
    <3> QED  BY <1>2, <1>4, <1>8, <1>9, <2>1, <3>1
  <2>2. ASSUME HasWord(l, 3), Part(l, 2) = Word(l, 2), Word(l, 3)[1] = "-"
        PROVE  HasArgument(toks)
    <3>1. WordEnded(l, 2)
      BY <1>2, <1>8, <1>9, <2>2
    <3> QED  BY <1>2, <1>4, <1>8, <1>9, <2>2, <3>1
  <2> QED  BY <2>1, <2>2 DEF HasOption
<1>10. ASSUME HasPin(toks), HasArgument(toks)
       PROVE  /\ WordEnded(l, 2) /\ WordTold(3, l, toks) /\ HasWord(l, 3) /\ Arg(3)
              /\ toks[3].text = Part(l, 3) /\ Part(l, 2) = Word(l, 2)
  <2>1. WordEnded(l, 2)
    BY <1>2, <1>4, <1>8, <1>10
  <2> QED  BY <1>2, <1>4, <1>8, <1>10, <2>1
<1>11. ASSUME HasPin(toks), HasArgument(toks), HasDestination(toks)
       PROVE  /\ Word(l, 3) = To /\ HasWord(l, 4) /\ IsName(Part(l, 4))
              /\ toks[4].text = Part(l, 4)
  <2>1. WordEnded(l, 3)
    BY <1>2, <1>4, <1>10, <1>11
  <2>2. Part(l, 3) = Word(l, 3) /\ WordTold(4, l, toks)
    BY <1>2, <1>8, <1>10, <1>11, <2>1
  <2> QED  BY <1>2, <1>4, <1>10, <1>11, <2>2
<1>12. ASSUME HasPin(toks), HasArgument(toks), Word(l, 3) = To, HasWord(l, 4),
              IsName(Part(l, 4))
       PROVE  HasDestination(toks)
  <2>1. Part(l, 3) = Word(l, 3)
    BY <1>5, <1>10, <1>12
  <2>2. WordEnded(l, 3)
    BY <1>2, <1>10, <1>12, <2>1
  <2>3. WordTold(4, l, toks)
    BY <1>8, <1>10, <1>12, <2>2
  <2> QED  BY <1>2, <1>4, <1>10, <1>12, <2>1, <2>3
<1>13. Taken(toks) <=> IsLocation(l) \/ IsPinOnly(l)
  BY <1>7, <1>9, <1>11, <1>12 DEF Taken, IsLocation, IsPinOnly
<1>14. Taken(toks) => (HasArgument(toks) <=> IsLocation(l))
  BY <1>7, <1>9, <1>11, <1>12 DEF Taken, IsLocation, IsPinOnly
<1>15. Taken(toks) /\ HasArgument(toks) =>
         Read4(toks) = [pin |-> Word(l, 2), dst |-> Part(l, 4)]
  BY <1>8, <1>10, <1>11 DEF Taken, Read4
<1> QED  BY <1>13, <1>14, <1>15
-----------------------------------------------------------------------------
(* The lines of a file, and what the lexer has read of it: t is the file   *)
(* and i the place of the next character.                                  *)

LineEnds == {"\n"}

LineOf(t, p) == SubSeq(t, p, Place(t, p, LineEnds) - 1)

\* Where the lines that were begun start.
StartsTo(t, i) == {p \in 1 .. i : p = 1 \/ t[p - 1] \in LineEnds}

\* s gives them, in their order, the numbers of the lines of tokens.
Begun(s, n, t, i) ==
  /\ s \in [1 .. n -> StartsTo(t, i)]
  /\ \A p \in StartsTo(t, i) : \E k \in 1 .. n : s[k] = p
  /\ \A k, m \in 1 .. n : k < m => s[k] < s[m]

FileReadBy(s, t, i, r) ==
  LET n == Len(r.tokens)
  IN  /\ Begun(s, n, t, i)
      /\ \A k \in 1 .. n - 1 : LineLexed(LineOf(t, s[k]), r.tokens[k])
      /\ LineRead(SubSeq(t, s[n], i - 1), LastLine(r), r.curr)

FileLexedBy(s, t, toks) ==
  /\ Begun(s, Len(toks), t, Len(t) + 1)
  /\ \A k \in 1 .. Len(toks) : LineLexed(LineOf(t, s[k]), toks[k])

LEMMA LastBegun ==
  ASSUME NEW t \in Seq(Char), NEW i \in 1 .. Len(t) + 1, NEW n \in Nat, n >= 1, NEW s,
         Begun(s, n, t, i)
  PROVE  /\ s[n] \in 1 .. i
         /\ \A j \in s[n] .. i - 1 : t[j] \in Glyph /\ t[j] \notin LineEnds
<1>1. n \in 1 .. n /\ \A k \in 1 .. n : k < n \/ k = n
  OBVIOUS
<1>2. \A k \in 1 .. n : s[k] \in 1 .. i
  BY DEF Begun, StartsTo
<1>3. ASSUME NEW j \in s[n] .. i - 1, t[j] \in LineEnds
      PROVE  FALSE
  <2>1. j + 1 \in 1 .. i /\ (j + 1) - 1 = j /\ j + 1 > s[n]
    BY <1>1, <1>2
  <2>2. j + 1 \in StartsTo(t, i)
    BY <1>3, <2>1 DEF StartsTo
  <2>3. PICK k \in 1 .. n : s[k] = j + 1
    BY <2>2 DEF Begun
  <2>4. k < n => s[k] < s[n]
    BY <1>1 DEF Begun
  <2> QED  BY <1>1, <1>2, <2>1, <2>3, <2>4
<1>4. \A j \in s[n] .. i - 1 : t[j] \in Char
  <2> TAKE j \in s[n] .. i - 1
  <2>1. j \in 1 .. Len(t)
    BY <1>1, <1>2
  <2> QED  BY <2>1
<1>5. \A c \in Char : c \in LineEnds \/ c \in Glyph
  BY DEF LineEnds, Glyph
<1> QED  BY <1>1, <1>2, <1>3, <1>4, <1>5

\* A line has no line end in it.
LEMMA LineIs ==
  ASSUME NEW t \in Seq(Char), NEW p \in 1 .. Len(t) + 1
  PROVE  LineOf(t, p) \in Seq(Glyph)
<1> DEFINE e == Place(t, p, LineEnds)
<1>1. IsPlace(t, p, LineEnds, e)
  BY PlaceFound
<1> HIDE DEF e
<1>2. e \in Nat /\ p \in Nat /\ p <= e
  BY <1>1 DEF IsPlace
<1>3. \A j \in p .. e - 1 : j \in 1 .. Len(t) /\ t[j] \notin LineEnds
  BY <1>1, <1>2 DEF IsPlace
<1>4. \A j \in p .. e - 1 : t[j] \in Glyph
  <2>1. \A c \in Char : c \in LineEnds \/ c \in Glyph
    BY DEF LineEnds, Glyph
  <2> QED  BY <1>3, <2>1
<1>5. SubSeq(t, p, e - 1) \in Seq(Glyph)
  BY <1>2, <1>4, PieceIs
<1> QED  BY <1>5 DEF LineOf, e

\* The text of a line so far, and with the next character.
LEMMA LineText ==
  ASSUME NEW t \in Seq(Char), NEW p \in Nat, p >= 1, NEW i \in p .. Len(t),
         \A j \in p .. i - 1 : t[j] \in Glyph
  PROVE  /\ SubSeq(t, p, i - 1) \in Seq(Glyph)
         /\ t[i] \in Glyph => SubSeq(t, p, (i + 1) - 1) = Append(SubSeq(t, p, i - 1), t[i])
<1> DEFINE u == SubSeq(t, p, i - 1)
           v == SubSeq(t, p, (i + 1) - 1)
           w == Append(u, t[i])
<1>1. /\ u \in Seq(Glyph) /\ Len(u) = i - p
      /\ \A j \in 1 .. i - p : u[j] = t[p + j - 1]
  BY PieceIs
<1>2. ASSUME t[i] \in Glyph
      PROVE  v = w
  <2>1. \A j \in p .. (i + 1) - 1 : t[j] \in Glyph
    <3>1. \A j \in p .. (i + 1) - 1 : j \in p .. i - 1 \/ j = i
      OBVIOUS
    <3> QED  BY <1>2, <3>1
  <2>2. i + 1 \in Nat /\ p <= i + 1
    OBVIOUS
  <2>3. /\ v \in Seq(Glyph) /\ Len(v) = (i + 1) - p
        /\ \A j \in 1 .. (i + 1) - p : v[j] = t[p + j - 1]
    BY <2>1, <2>2, PieceIs
  <2> HIDE DEF u, v
  <2>4. /\ w \in Seq(Glyph) /\ Len(w) = Len(u) + 1 /\ w[Len(u) + 1] = t[i]
        /\ \A j \in 1 .. Len(u) : w[j] = u[j]
    BY <1>1, <1>2, AppendProperties
  <2>5. Len(v) = Len(w)
    BY <1>1, <2>3, <2>4
  <2>6. ASSUME NEW j \in 1 .. Len(v)
        PROVE  v[j] = w[j]
    <3>1. CASE j \in 1 .. i - p
      BY <1>1, <2>3, <2>4, <3>1
    <3>2. CASE j = i - p + 1
      <4>3. i \in Nat /\ p <= i /\ Len(u) = i - p
        BY <1>1
      <4>1. p + j - 1 = i /\ j \in 1 .. (i + 1) - p /\ j = Len(u) + 1
        BY <3>2, <4>3
      <4>2. v[j] = t[i]
        BY <2>3, <4>1
      <4> QED  BY <2>4, <4>1, <4>2
    <3>3. j \in 1 .. i - p \/ j = i - p + 1
      BY <2>3
    <3> QED  BY <3>1, <3>2, <3>3
  <2> HIDE DEF w
  <2> QED  BY <2>3, <2>4, <2>5, <2>6, SeqEqual
<1> QED  BY <1>1, <1>2

\* A character within a line.
LEMMA CharacterInFile ==
  ASSUME NEW t \in Seq(Char), NEW i \in 1 .. Len(t), t[i] \notin LineEnds,
         NEW r \in Lexer, NEW s, FileReadBy(s, t, i, r)
  PROVE  Read(r, t[i]) \in Lexer /\ FileReadBy(s, t, i + 1, Read(r, t[i]))
<1> DEFINE q == Read(r, t[i])
           n == Len(r.tokens)
           u == SubSeq(t, s[n], i - 1)
<1>1. /\ Begun(s, n, t, i)
      /\ \A k \in 1 .. n - 1 : LineLexed(LineOf(t, s[k]), r.tokens[k])
      /\ LineRead(u, LastLine(r), r.curr)
  BY DEF FileReadBy
<1>2. t[i] \in Char \ {"\n"} /\ t[i] \in Glyph
  BY DEF LineEnds, Glyph
<1>3. /\ q \in Lexer /\ Len(q.tokens) = n
      /\ \A k \in 1 .. n - 1 : q.tokens[k] = r.tokens[k]
      /\ Reads(LastLine(r), r.curr, t[i], LastLine(q), q.curr)
  BY <1>2, CharacterRead
<1> HIDE DEF q
<1>4. /\ n \in Nat /\ n >= 1
      /\ LastLine(r) \in Seq(Token) /\ r.curr \in Token \cup {NoToken}
      /\ LastLine(q) \in Seq(Token) /\ q.curr \in Token \cup {NoToken}
  <2>1. ASSUME NEW x \in Lexer
        PROVE  /\ Len(x.tokens) \in Nat /\ Len(x.tokens) >= 1
               /\ LastLine(x) \in Seq(Token) /\ x.curr \in Token \cup {NoToken}
    BY DEF Lexer, LastLine
  <2> QED  BY <1>3, <2>1
<1> HIDE DEF n
<1>5. s[n] \in 1 .. i /\ \A j \in s[n] .. i - 1 : t[j] \in Glyph
  <2>1. i \in 1 .. Len(t) + 1
    OBVIOUS
  <2> QED  BY <1>1, <1>4, <2>1, LastBegun
<1>6. s[n] \in Nat /\ s[n] >= 1 /\ i \in s[n] .. Len(t)
  BY <1>5
<1>7. u \in Seq(Glyph) /\ SubSeq(t, s[n], (i + 1) - 1) = Append(u, t[i])
  BY <1>2, <1>5, <1>6, LineText
<1>8. LineRead(SubSeq(t, s[n], (i + 1) - 1), LastLine(q), q.curr)
  <2> HIDE DEF u
  <2>1. LineRead(Append(u, t[i]), LastLine(q), q.curr)
    BY <1>1, <1>2, <1>3, <1>4, <1>7, LineGoesOn
  <2> QED  BY <1>7, <2>1
<1>9. StartsTo(t, i + 1) = StartsTo(t, i)
  <2>1. \A p \in 1 .. i + 1 : p \in 1 .. i \/ (p = i + 1 /\ p - 1 = i /\ p # 1)
    OBVIOUS
  <2>2. \A p \in 1 .. i : p \in 1 .. i + 1
    OBVIOUS
  <2> QED  BY <2>1, <2>2 DEF StartsTo
<1>10. Begun(s, n, t, i + 1)
  BY <1>1, <1>9 DEF Begun
<1>11. FileReadBy(s, t, i + 1, q)
  BY <1>1, <1>3, <1>8, <1>10 DEF FileReadBy
<1> QED  BY <1>3, <1>11 DEF q

LEMMA LineEndsAt ==
  ASSUME NEW t \in Seq(Char), NEW p \in 1 .. Len(t) + 1, NEW i \in p .. Len(t) + 1,
         \A j \in p .. i - 1 : t[j] \notin LineEnds,
         i = Len(t) + 1 \/ t[i] \in LineEnds
  PROVE  LineOf(t, p) = SubSeq(t, p, i - 1)
<1>1. IsPlace(t, p, LineEnds, i)
  BY DEF IsPlace
<1>2. Place(t, p, LineEnds) = i
  BY <1>1, PlaceIs
<1> QED  BY <1>2 DEF LineOf

\* The tokens of a line that is read to its end.
LEMMA LineCloses ==
  ASSUME NEW t \in Seq(Char), NEW i \in 1 .. Len(t) + 1,
         i = Len(t) + 1 \/ t[i] \in LineEnds,
         NEW r \in Lexer, NEW s, FileReadBy(s, t, i, r)
  PROVE  /\ EndToken(r) \in Lexer /\ EndToken(r).curr = NoToken
         /\ Len(EndToken(r).tokens) = Len(r.tokens)
         /\ \A k \in 1 .. Len(r.tokens) :
              LineLexed(LineOf(t, s[k]), EndToken(r).tokens[k])
<1> DEFINE e == EndToken(r)
           n == Len(r.tokens)
<1>1. /\ Begun(s, n, t, i)
      /\ \A k \in 1 .. n - 1 : LineLexed(LineOf(t, s[k]), r.tokens[k])
      /\ LineRead(SubSeq(t, s[n], i - 1), LastLine(r), r.curr)
  BY DEF FileReadBy
<1>2. /\ e \in Lexer /\ e.curr = NoToken /\ Len(e.tokens) = n
      /\ \A k \in 1 .. n - 1 : e.tokens[k] = r.tokens[k]
      /\ LastLine(e) = AllTokens(LastLine(r), r.curr)
  BY TokenEnds DEF AllTokens
<1> HIDE DEF e
<1>3. n \in Nat /\ n >= 1
  BY DEF Lexer
<1> HIDE DEF n
<1>4. s[n] \in 1 .. i /\ \A j \in s[n] .. i - 1 : t[j] \notin LineEnds
  BY <1>1, <1>3, LastBegun
<1>5. s[n] \in 1 .. Len(t) + 1 /\ i \in s[n] .. Len(t) + 1
  BY <1>4
<1>6. LineOf(t, s[n]) = SubSeq(t, s[n], i - 1)
  BY <1>4, <1>5, LineEndsAt
<1>7. LineLexed(LineOf(t, s[n]), LastLine(e))
  BY <1>1, <1>2, <1>6, LineIsLexed
<1>8. LastLine(e) = e.tokens[n]
  BY <1>2 DEF LastLine
<1>9. \A k \in 1 .. n : k \in 1 .. n - 1 \/ k = n
  BY <1>3
<1>10. \A k \in 1 .. n : LineLexed(LineOf(t, s[k]), e.tokens[k])
  BY <1>1, <1>2, <1>7, <1>8, <1>9
<1> QED  BY <1>2, <1>10 DEF e, n

\* A lexer with other tokens.
LEMMA WithTokens ==
  ASSUME NEW x, NEW y, NEW z, x = [curr |-> NoToken, tokens |-> y]
  PROVE  [x EXCEPT !.tokens = z] = [curr |-> NoToken, tokens |-> z]
  OBVIOUS

\* A character that ends a line begins another.
LEMMA LineEndInFile ==
  ASSUME NEW t \in Seq(Char), NEW i \in 1 .. Len(t), t[i] \in LineEnds,
         NEW r \in Lexer, NEW s, FileReadBy(s, t, i, r)
  PROVE  /\ Read(r, t[i]) \in Lexer
         /\ \E s1 : FileReadBy(s1, t, i + 1, Read(r, t[i]))
<1> DEFINE e == EndToken(r)
           n == Len(r.tokens)
           q == [e EXCEPT !.tokens = Append(@, <<>>)]
           s1 == [k \in 1 .. n + 1 |-> IF k <= n THEN s[k] ELSE i + 1]
<1>1. Read(r, t[i]) = q
  BY DEF LineEnds, Read, NewLine
<1>2. /\ e \in Lexer /\ e.curr = NoToken /\ Len(e.tokens) = n
      /\ \A k \in 1 .. n : LineLexed(LineOf(t, s[k]), e.tokens[k])
  BY LineCloses
<1>3. Begun(s, n, t, i)
  BY DEF FileReadBy
<1> HIDE DEF e
<1>4. n \in Nat /\ n >= 1 /\ e.tokens \in Seq(Seq(Token))
  BY <1>2 DEF Lexer
<1>5. /\ q.curr = NoToken /\ q.tokens = Append(e.tokens, <<>>)
      /\ q = [curr |-> q.curr, tokens |-> q.tokens]
  <2>1. e = [curr |-> NoToken, tokens |-> e.tokens]
    BY <1>2 DEF Lexer
  <2> DEFINE toks == e.tokens
  <2> HIDE DEF toks
  <2>2. e = [curr |-> NoToken, tokens |-> toks]
    BY <2>1 DEF toks
  <2>3. q = [curr |-> NoToken, tokens |-> Append(toks, <<>>)]
    BY <2>2, WithTokens
  <2> HIDE DEF q
  <2> QED  BY <2>3 DEF toks
<1> HIDE DEF n, q
<1>6. /\ q.tokens \in Seq(Seq(Token)) /\ Len(q.tokens) = n + 1
      /\ \A k \in 1 .. n : q.tokens[k] = e.tokens[k]
      /\ q.tokens[n + 1] = <<>>
  <2>1. <<>> \in Seq(Token)
    OBVIOUS
  <2> QED  BY <1>2, <1>4, <1>5, <2>1, AppendProperties
<1>7. q \in Lexer
  <2>1. q.tokens # <<>>
    BY <1>4, <1>6
  <2> QED  BY <1>5, <1>6, <2>1 DEF Lexer
<1>8. \A k \in 1 .. n + 1 : k \in 1 .. n \/ k = n + 1
  BY <1>4
<1>9. /\ \A k \in 1 .. n : s1[k] = s[k]
      /\ s1[n + 1] = i + 1
      /\ DOMAIN s1 = 1 .. n + 1
  BY <1>4
<1>10. StartsTo(t, i + 1) = StartsTo(t, i) \cup {i + 1}
  <2>1. \A p \in 1 .. i + 1 : p \in 1 .. i \/ p = i + 1
    OBVIOUS
  <2>2. \A p \in 1 .. i : p \in 1 .. i + 1
    OBVIOUS
  <2>3. i + 1 \in 1 .. i + 1 /\ (i + 1) - 1 = i
    OBVIOUS
  <2> QED  BY <2>1, <2>2, <2>3 DEF StartsTo
<1>11. Begun(s1, n + 1, t, i + 1)
  <2>1. \A k \in 1 .. n : s[k] \in StartsTo(t, i) /\ s[k] <= i
    BY <1>3 DEF Begun, StartsTo
  <2>2. s1 \in [1 .. n + 1 -> StartsTo(t, i + 1)]
    <3>1. \A k \in 1 .. n + 1 : s1[k] \in StartsTo(t, i + 1)
      BY <1>8, <1>9, <1>10, <2>1
    <3> QED  BY <3>1
  <2>3. \A p \in StartsTo(t, i + 1) : \E k \in 1 .. n + 1 : s1[k] = p
    <3> TAKE p \in StartsTo(t, i + 1)
    <3>1. CASE p = i + 1
      <4>1. n + 1 \in 1 .. n + 1
        BY <1>4
      <4> QED  BY <1>9, <3>1, <4>1
    <3>2. CASE p \in StartsTo(t, i)
      <4>1. PICK k \in 1 .. n : s[k] = p
        BY <1>3, <3>2 DEF Begun
      <4>2. k \in 1 .. n + 1
        BY <1>4
      <4> QED  BY <1>9, <4>1, <4>2
    <3> QED  BY <1>10, <3>1, <3>2
  <2>4. \A k, m \in 1 .. n + 1 : k < m => s1[k] < s1[m]
    <3> TAKE k, m \in 1 .. n + 1
    <3>1. CASE m \in 1 .. n
      <4>1. k < m => k \in 1 .. n
        BY <1>4, <3>1
      <4> QED  BY <1>3, <1>9, <3>1, <4>1 DEF Begun
    <3>2. CASE m = n + 1
      <4>1. k < m => k \in 1 .. n
        BY <1>4, <3>2
      <4>2. k \in 1 .. n => s[k] < i + 1
        <5>1. k \in 1 .. n => s[k] \in Nat /\ s[k] <= i
          BY <2>1 DEF StartsTo
        <5> QED  BY <5>1
      <4> QED  BY <1>9, <3>2, <4>1, <4>2
    <3> QED  BY <1>8, <3>1, <3>2
  <2> QED  BY <2>2, <2>3, <2>4 DEF Begun
<1>12. LineRead(SubSeq(t, s1[n + 1], (i + 1) - 1), LastLine(q), q.curr)
  <2>1. SubSeq(t, i + 1, (i + 1) - 1) = <<>>
    BY SubSeqEmpty
  <2> QED  BY <1>5, <1>6, <1>9, <2>1, LineBegins DEF LastLine
<1>13. FileReadBy(s1, t, i + 1, q)
  <2>1. \A k \in 1 .. (n + 1) - 1 : k \in 1 .. n
    BY <1>4
  <2>2. \A k \in 1 .. (n + 1) - 1 : LineLexed(LineOf(t, s1[k]), q.tokens[k])
    BY <1>2, <1>6, <1>9, <2>1
  <2> HIDE DEF s1
  <2> QED  BY <1>6, <1>11, <1>12, <2>2 DEF FileReadBy
<1> HIDE DEF s1
<1> QED  BY <1>1, <1>7, <1>13
-----------------------------------------------------------------------------
(* The lists of the parsers                                                *)

\* The empty list is in order.
LEMMA OrderBegins ==
  <<>> \in InOrder(<<>>, {})
<1>1. DOMAIN <<>> = {} /\ <<>> \in [{} -> {}]
  OBVIOUS
<1> QED  BY <1>1 DEF InOrder

\* The order w of the numbers S goes on with n, at x.
GoesOnWith(w, S, list, x, n) ==
  \E v \in InOrder(Append(list, x), S \cup {n}) :
    /\ \A k \in 1 .. Len(list) : v[k] = w[k]
    /\ v[Len(list) + 1] = n

\* A list that is in order stays so when a later line joins it.
LEMMA OrderGrows ==
  ASSUME NEW D, NEW list \in Seq(D), NEW x \in D, NEW S \in SUBSET Nat,
         NEW w \in InOrder(list, S), NEW n \in Nat, \A p \in S : p < n
  PROVE  GoesOnWith(w, S, list, x, n)
<1> DEFINE m == Len(list)
           more == Append(list, x)
           v == [k \in 1 .. m + 1 |-> IF k <= m THEN w[k] ELSE n]
           U == S \cup {n}
<1>1. /\ m \in Nat /\ DOMAIN list = 1 .. m /\ DOMAIN more = 1 .. m + 1
  OBVIOUS
<1>2. /\ w \in [1 .. m -> S]
      /\ \A p \in S : \E k \in 1 .. m : w[k] = p
      /\ \A j, k \in 1 .. m : j < k => w[j] < w[k]
  BY <1>1 DEF InOrder
<1> HIDE DEF m, more
<1>3. \A k \in 1 .. m + 1 : k \in 1 .. m \/ k = m + 1
  BY <1>1
<1>4. (\A k \in 1 .. m : v[k] = w[k]) /\ v[m + 1] = n
  BY <1>1
<1>5. v \in [1 .. m + 1 -> U]
  <2>1. \A k \in 1 .. m + 1 : v[k] \in U
    BY <1>2, <1>3, <1>4
  <2> QED  BY <2>1
<1> HIDE DEF v
<1>6. \A p \in U : \E k \in 1 .. m + 1 : v[k] = p
  <2>1. m + 1 \in 1 .. m + 1 /\ \A k \in 1 .. m : k \in 1 .. m + 1
    BY <1>1
  <2> QED  BY <1>2, <1>4, <2>1
<1>7. \A j, k \in 1 .. m + 1 : j < k => v[j] < v[k]
  <2> TAKE j, k \in 1 .. m + 1
  <2>1. j < k => j \in 1 .. m
    BY <1>1
  <2>2. CASE k \in 1 .. m
    BY <1>2, <1>4, <2>1, <2>2
  <2>3. CASE k = m + 1
    BY <1>2, <1>4, <2>1, <2>3
  <2> QED  BY <1>3, <2>2, <2>3
<1>8. v \in InOrder(more, U)
  BY <1>1, <1>5, <1>6, <1>7 DEF InOrder
<1> QED  BY <1>4, <1>8 DEF m, more, GoesOnWith

\* An order of the numbers of lines is an order of the places of lines.
PlacesOf(s, list, w) == [k \in DOMAIN list |-> s[w[k]]]

\* A list in the order of line numbers is in the order of the lines' places.
LEMMA OrderOfLines ==
  ASSUME NEW s, NEW N \in Nat, NEW t, NEW i, Begun(s, N, t, i), NEW list,
         NEW U \in SUBSET (1 .. N), NEW w \in InOrder(list, U),
         NEW V, \A n \in U : s[n] \in V, \A p \in V : \E n \in U : p = s[n]
  PROVE  PlacesOf(s, list, w) \in InOrder(list, V)
<1> DEFINE v == [k \in DOMAIN list |-> s[w[k]]]
<1>1. /\ w \in [DOMAIN list -> U]
      /\ \A p \in U : \E k \in DOMAIN list : w[k] = p
      /\ \A j, k \in DOMAIN list : j < k => w[j] < w[k]
  BY DEF InOrder
<1>2. v \in [DOMAIN list -> V]
  BY <1>1
<1>3. \A p \in V : \E k \in DOMAIN list : v[k] = p
  BY <1>1
<1>4. \A j, k \in DOMAIN list : j < k => v[j] < v[k]
  <2> TAKE j, k \in DOMAIN list
  <2>1. w[j] \in 1 .. N /\ w[k] \in 1 .. N
    BY <1>1
  <2>2. w[j] < w[k] => s[w[j]] < s[w[k]]
    BY <2>1 DEF Begun
  <2> QED  BY <1>1, <2>2
<1> HIDE DEF v
<1>5. v \in InOrder(list, V)
  BY <1>2, <1>3, <1>4 DEF InOrder
<1> QED  BY <1>5 DEF v, PlacesOf
-----------------------------------------------------------------------------
(* The invariant                                                           *)

Lexing == [curr |-> curr, tokens |-> tokens]

Assignment == [pin    : Seq(Char \ {"\n", "\"", "#", " "}),
               signal : Seq(Char \ {"\n", "\"", "#", " ", "A"}),
               index  : - MaxDigits .. MaxDigits]

Location == [pin : Seq(Plain), dst : Seq(Plain)]

LexInv ==
  /\ input \in Seq(Char) /\ next \in 1 .. Len(input) + 1
  /\ at \in {"lex", "parse", "done", "exit"}
  /\ Lexing \in Lexer
  /\ at = "lex" => \E s : FileReadBy(s, input, next, Lexing)
  /\ at # "lex" => \E s : FileLexedBy(s, input, tokens)

\* The numbers of the lines that were parsed and are not ignored, of those
\* with an option, and what became of them.
Used    == {n \in 1 .. line - 1 : ~ Skipped(tokens[n])}
Options == {n \in Used : HasArgument(tokens[n])}

BoardParsed ==
  /\ \A n \in Used : GoodLine(tokens[n])
  /\ \E w \in InOrder(assignments, Used) :
       \A k \in DOMAIN assignments : assignments[k] = Read3(tokens[w[k]])
  /\ at = "exit" => /\ line <= Len(tokens) /\ ~ Skipped(tokens[line])
                    /\ ~ GoodLine(tokens[line])

QsfParsed ==
  /\ \A n \in Used : Taken(tokens[n])
  /\ \E w \in InOrder(assigned, Options) :
       \A k \in DOMAIN assigned : assigned[k] = Read4(tokens[w[k]])
  /\ at = "exit" => /\ line <= Len(tokens) /\ ~ Skipped(tokens[line])
                    /\ ~ Taken(tokens[line])

ParseInv ==
  /\ program \in {"board", "qsf"}
  /\ line \in 1 .. Len(tokens) + 1
  /\ assignments \in Seq(Assignment) /\ assigned \in Seq(Location)
  /\ at = "lex" => line = 1 /\ assignments = <<>> /\ assigned = <<>>
  /\ at = "done" => line = Len(tokens) + 1
  /\ at # "lex" /\ program = "board" => BoardParsed
  /\ at # "lex" /\ program = "qsf" => QsfParsed

ReadersInv == LexInv /\ ParseInv

\* The lines of the whole file are those begun up to its end.
LEMMA StartsAreBegun ==
  ASSUME input \in Seq(Char)
  PROVE  LineStarts = StartsTo(input, Len(input) + 1)
<1>1. DOMAIN input = 1 .. Len(input) /\ Len(input) \in Nat
  OBVIOUS
<1>2. \A k : k \in LineEnds <=> k = "\n"
  BY DEF LineEnds
<1>3. LineStarts = {1} \cup {k + 1 : k \in {j \in 1 .. Len(input) : input[j] \in LineEnds}}
  BY <1>1, <1>2 DEF LineStarts
<1>4. ASSUME NEW p \in LineStarts
      PROVE  p \in StartsTo(input, Len(input) + 1)
  <2>1. CASE p = 1
    BY <1>1, <2>1 DEF StartsTo
  <2>2. CASE p # 1
    <3>1. PICK k \in 1 .. Len(input) : input[k] \in LineEnds /\ p = k + 1
      BY <1>3, <1>4, <2>2
    <3>2. p \in 1 .. Len(input) + 1 /\ p - 1 = k
      BY <1>1, <3>1
    <3> QED  BY <3>1, <3>2 DEF StartsTo
  <2> QED  BY <2>1, <2>2
<1>5. ASSUME NEW p \in StartsTo(input, Len(input) + 1)
      PROVE  p \in LineStarts
  <2>1. CASE p = 1
    BY <1>3, <2>1
  <2>2. CASE p # 1
    <3>1. p \in 1 .. Len(input) + 1 /\ input[p - 1] \in LineEnds
      BY <2>2 DEF StartsTo
    <3>2. p - 1 \in 1 .. Len(input) /\ (p - 1) + 1 = p
      BY <1>1, <2>2, <3>1
    <3> QED  BY <1>3, <3>1, <3>2
  <2> QED  BY <2>1, <2>2
<1> QED  BY <1>4, <1>5

\* The lexer starts with one empty line.
LEMMA LexerStarts ==
  ASSUME CfgInit
  PROVE  LexInv
<1>1. /\ input \in Seq(Char) /\ at = "lex" /\ next = 1
      /\ Lexing = [curr |-> NoToken, tokens |-> << <<>> >>]
  BY InputsAssumption DEF CfgInit, Lexing
<1> DEFINE r == [curr |-> NoToken, tokens |-> << <<>> >>]
           s == [n \in 1 .. 1 |-> 1]
<1>2. /\ r.tokens \in Seq(Seq(Token)) /\ Len(r.tokens) = 1 /\ LastLine(r) = <<>>
      /\ r.curr = NoToken /\ r.tokens # <<>>
  <2>1. <<>> \in Seq(Token)
    OBVIOUS
  <2> QED  BY <2>1 DEF LastLine
<1>3. r \in Lexer
  BY <1>2 DEF Lexer
<1>4. StartsTo(input, 1) = {1}
  <2>1. 1 .. 1 = {1}
    OBVIOUS
  <2> QED  BY <2>1 DEF StartsTo
<1>5. s[1] = 1
  OBVIOUS
<1>6. Begun(s, 1, input, 1)
  <2>1. s \in [1 .. 1 -> {1}]
    OBVIOUS
  <2>2. \A k, m \in 1 .. 1 : ~ (k < m)
    OBVIOUS
  <2>3. 1 \in 1 .. 1
    OBVIOUS
  <2> HIDE DEF s
  <2> QED  BY <1>4, <1>5, <2>1, <2>2, <2>3 DEF Begun
<1>7. LineRead(SubSeq(input, s[1], 1 - 1), LastLine(r), r.curr)
  <2>1. SubSeq(input, 1, 1 - 1) = <<>>
    BY SubSeqEmpty
  <2> QED  BY <1>2, <1>5, <2>1, LineBegins
<1>8. FileReadBy(s, input, 1, r)
  <2>1. 1 .. 1 - 1 = {}
    OBVIOUS
  <2> HIDE DEF s, r
  <2> QED  BY <1>2, <1>6, <1>7, <2>1 DEF FileReadBy
<1>9. 1 \in 1 .. Len(input) + 1
  BY <1>1
<1> HIDE DEF s, r
<1>10. Lexing = r
  BY <1>1 DEF r
<1> QED  BY <1>1, <1>3, <1>8, <1>9, <1>10 DEF LexInv

\* A character that is read keeps the invariant of the lexer.
LEMMA LexStep ==
  ASSUME LexInv, ReadChar
  PROVE  LexInv'
<1>1. /\ at = "lex" /\ next \in 1 .. Len(input) /\ input \in Seq(Char)
      /\ Lexing \in Lexer
  BY DEF LexInv, ReadChar
<1>2. /\ input' = input /\ at' = at /\ next' = next + 1
      /\ next + 1 \in 1 .. Len(input) + 1
      /\ curr' = Read(Lexing, input[next]).curr
      /\ tokens' = Read(Lexing, input[next]).tokens
  BY <1>1 DEF ReadChar, LexerBecomes, Lexing
<1>3. PICK s : FileReadBy(s, input, next, Lexing)
  BY <1>1 DEF LexInv
<1>4. Read(Lexing, input[next]) \in Lexer
      /\ \E s1 : FileReadBy(s1, input, next + 1, Read(Lexing, input[next]))
  <2>1. CASE input[next] \in LineEnds
    BY <1>1, <1>3, <2>1, LineEndInFile
  <2>2. CASE input[next] \notin LineEnds
    BY <1>1, <1>3, <2>2, CharacterInFile
  <2> QED  BY <2>1, <2>2
<1>5. Lexing' = Read(Lexing, input[next])
  <2> DEFINE r == Read(Lexing, input[next])
  <2> HIDE DEF r
  <2>1. r = [curr |-> r.curr, tokens |-> r.tokens]
    BY <1>4 DEF Lexer, r
  <2>2. Lexing' = [curr |-> r.curr, tokens |-> r.tokens]
    BY <1>2 DEF Lexing, r
  <2> QED  BY <2>1, <2>2 DEF r
<1> QED  BY <1>1, <1>2, <1>4, <1>5 DEF LexInv

\* After the last token the lines are the lexed lines of the file.
LEMMA LexEndStep ==
  ASSUME LexInv, LexEnd
  PROVE  LexInv' /\ at' = "parse" /\ Len(tokens') = Len(tokens)
<1>1. /\ at = "lex" /\ next = Len(input) + 1 /\ input \in Seq(Char)
      /\ Lexing \in Lexer /\ next \in 1 .. Len(input) + 1
  BY DEF LexInv, LexEnd
<1>2. /\ input' = input /\ at' = "parse" /\ next' = next
      /\ curr' = EndToken(Lexing).curr /\ tokens' = EndToken(Lexing).tokens
  BY DEF LexEnd, LexerBecomes, Lexing
<1>3. PICK s : FileReadBy(s, input, next, Lexing)
  BY <1>1 DEF LexInv
<1>4. /\ EndToken(Lexing) \in Lexer
      /\ Len(EndToken(Lexing).tokens) = Len(Lexing.tokens)
      /\ \A k \in 1 .. Len(Lexing.tokens) :
           LineLexed(LineOf(input, s[k]), EndToken(Lexing).tokens[k])
  BY <1>1, <1>3, LineCloses
<1>5. Lexing.tokens = tokens
  BY DEF Lexing
<1>6. Begun(s, Len(tokens), input, next)
  BY <1>3, <1>5 DEF FileReadBy
<1>7. FileLexedBy(s, input, tokens')
  BY <1>1, <1>2, <1>4, <1>5, <1>6 DEF FileLexedBy
<1>8. Lexing' = EndToken(Lexing)
  <2> DEFINE r == EndToken(Lexing)
  <2> HIDE DEF r
  <2>1. r = [curr |-> r.curr, tokens |-> r.tokens]
    BY <1>4 DEF Lexer, r
  <2>2. Lexing' = [curr |-> r.curr, tokens |-> r.tokens]
    BY <1>2 DEF Lexing, r
  <2> QED  BY <2>1, <2>2 DEF r
<1>9. LexInv'
  BY <1>1, <1>2, <1>4, <1>7, <1>8 DEF LexInv
<1> QED  BY <1>2, <1>4, <1>5, <1>9

\* The parsers leave the lexer's variables as they are.
LEMMA ParseKeepsLexInv ==
  ASSUME LexInv, at = "parse", at' \in {"parse", "done", "exit"}, UNCHANGED <<input, lexVars>>
  PROVE  LexInv'
<1>1. input' = input /\ next' = next /\ curr' = curr /\ tokens' = tokens
  BY DEF lexVars
<1>2. Lexing' = Lexing
  BY <1>1 DEF Lexing
<1>3. at' # "lex" /\ at' \in {"lex", "parse", "done", "exit"} /\ at # "lex"
  OBVIOUS
<1> QED  BY <1>1, <1>2, <1>3 DEF LexInv

\* The line that a parser is at.
LEMMA LineIsTokens ==
  ASSUME LexInv
  PROVE  /\ tokens \in Seq(Seq(Token)) /\ Len(tokens) \in Nat
         /\ \A n \in 1 .. Len(tokens) : tokens[n] \in Seq(Token)
<1>1. tokens \in Seq(Seq(Token))
  BY DEF LexInv, Lexing, Lexer
<1> QED  BY <1>1
-----------------------------------------------------------------------------
(* The types of what is parsed                                             *)

LEMMA BeforeIs ==
  ASSUME NEW D, NEW text \in Seq(D), NEW stop, NEW E, \A x \in D : x \in stop \/ x \in E
  PROVE  Before(text, stop) \in Seq(E)
<1> DEFINE k == Place(text, 1, stop)
<1>1. 1 \in 1 .. Len(text) + 1
  OBVIOUS
<1>2. IsPlace(text, 1, stop, k)
  BY <1>1, PlaceFound
<1> HIDE DEF k
<1>3. k \in Nat /\ 1 <= k /\ 1 \in Nat
  BY <1>2 DEF IsPlace
<1>4. \A j \in 1 .. k - 1 : j \in 1 .. Len(text) /\ text[j] \notin stop
  BY <1>2, <1>3 DEF IsPlace
<1>5. \A j \in 1 .. k - 1 : text[j] \in E
  BY <1>4
<1>6. SubSeq(text, 1, k - 1) \in Seq(E)
  BY <1>3, <1>5, PieceIs
<1> QED  BY <1>6 DEF Before, k

Lower == Plain \ {"A"}

LEMMA NetNameIs ==
  ASSUME NEW text \in Seq(Plain)
  PROVE  NetName(text) \in Seq(Lower)
<1> DEFINE b == Before(text, {"["})
<1>1. b \in Seq(Plain)
  <2>1. \A x \in Plain : x \in {"["} \/ x \in Plain
    OBVIOUS
  <2> QED  BY <2>1, BeforeIs
<1> HIDE DEF b
<1>2. NetName(text) = [i \in 1 .. Len(b) |-> IF b[i] = "A" THEN "a" ELSE b[i]]
  <2>1. DOMAIN b = 1 .. Len(b)
    BY <1>1
  <2> QED  BY <2>1 DEF NetName, ToLower, b
<1>3. \A i \in 1 .. Len(b) : (IF b[i] = "A" THEN "a" ELSE b[i]) \in Lower
  <2>1. \A i \in 1 .. Len(b) : b[i] \in Plain
    BY <1>1
  <2>2. \A c \in Plain : (IF c = "A" THEN "a" ELSE c) \in Lower
    BY DEF Lower, Plain, Char, Mark
  <2> QED  BY <2>1, <2>2
<1>4. Len(b) \in Nat
  BY <1>1
<1> DEFINE f == [i \in 1 .. Len(b) |-> IF b[i] = "A" THEN "a" ELSE b[i]]
<1>5. f \in [1 .. Len(b) -> Lower]
  BY <1>3
<1> HIDE DEF f
<1>6. f \in Seq(Lower)
  BY <1>4, <1>5
<1> QED  BY <1>2, <1>6 DEF f

\* What the board reads of a good line is a pin_assignment.
LEMMA AssignmentIs ==
  ASSUME NEW toks \in Seq(Token), GoodLine(toks)
  PROVE  Read3(toks) \in Assignment
<1>1. /\ 1 <= Len(toks) /\ toks[1].type = "IDENTIFIER"
      /\ 3 <= Len(toks) /\ toks[3].type = "IDENTIFIER"
  BY DEF GoodLine, ArrowLine, Expect
<1>2. toks[1] \in Token /\ toks[3] \in Token
  <2>1. 1 \in 1 .. Len(toks) /\ 3 \in 1 .. Len(toks)
    BY <1>1
  <2> QED  BY <2>1
<1>3. toks[1].text \in Seq(Plain) /\ toks[3].text \in Seq(Plain)
  BY <1>1, <1>2, NameText
<1>4. NetName(toks[3].text) \in Seq(Lower) /\ Index(toks[3].text) \in IndexRange
  BY <1>3, NetNameIs, StoiReads DEF GoodLine
<1>5. /\ Plain = Char \ {"\n", "\"", "#", " "}
      /\ Lower = Char \ {"\n", "\"", "#", " ", "A"}
  BY DEF Plain, Lower, Mark
<1>6. Assignment = [pin : Seq(Plain), signal : Seq(Lower), index : IndexRange]
  BY <1>5 DEF Assignment, IndexRange
<1> QED  BY <1>3, <1>4, <1>6 DEF Read3

\* What the prototype reads of a line with an option is a qsf_assignment.
LEMMA LocationIs ==
  ASSUME NEW toks \in Seq(Token), Taken(toks), HasArgument(toks)
  PROVE  Read4(toks) \in Location
<1>1. /\ 2 <= Len(toks) /\ toks[2].type = "IDENTIFIER"
      /\ 4 <= Len(toks) /\ toks[4].type = "IDENTIFIER"
  BY DEF Taken, HasPin, HasDestination, Expect
<1>2. toks[2] \in Token /\ toks[4] \in Token
  <2>1. 2 \in 1 .. Len(toks) /\ 4 \in 1 .. Len(toks)
    BY <1>1
  <2> QED  BY <2>1
<1>3. toks[2].text \in Seq(Plain) /\ toks[4].text \in Seq(Plain)
  BY <1>1, <1>2, NameText
<1> QED  BY <1>3 DEF Read4, Location
-----------------------------------------------------------------------------
(* The steps of the readers                                                *)

\* Which lines were parsed after one more.
LEMMA UsedGrows ==
  ASSUME line \in Nat, line >= 1, tokens' = tokens, line' = line + 1
  PROVE  /\ Used \in SUBSET Nat /\ Options \in SUBSET Nat
         /\ \A n \in Used : n < line
         /\ \A n \in Options : n < line
         /\ Skipped(tokens[line]) => Used' = Used /\ Options' = Options
         /\ ~ Skipped(tokens[line]) =>
              /\ Used' = Used \cup {line}
              /\ HasArgument(tokens[line]) => Options' = Options \cup {line}
              /\ ~ HasArgument(tokens[line]) => Options' = Options
<1>1. 1 .. line' - 1 = (1 .. line - 1) \cup {line}
  OBVIOUS
<1>2. Used \in SUBSET Nat /\ \A n \in Used : n < line
  BY DEF Used
<1>3. Skipped(tokens[line]) => Used' = Used
  BY <1>1 DEF Used
<1>4. ~ Skipped(tokens[line]) => Used' = Used \cup {line}
  BY <1>1 DEF Used
<1>5. Options \in SUBSET Nat /\ \A n \in Options : n < line
  BY <1>2 DEF Options
<1>6. Used' = Used => Options' = Options
  BY DEF Options
<1>7. Used' = Used \cup {line} =>
        /\ HasArgument(tokens[line]) => Options' = Options \cup {line}
        /\ ~ HasArgument(tokens[line]) => Options' = Options
  BY DEF Options
<1> QED  BY <1>2, <1>3, <1>4, <1>5, <1>6, <1>7

\* A list that goes on with what the line says keeps to its lines.
LEMMA BoardListGrows ==
  ASSUME assignments \in Seq(Assignment), NEW w \in InOrder(assignments, Used),
         \A k \in DOMAIN assignments : assignments[k] = Read3(tokens[w[k]]),
         Used \in SUBSET Nat, line \in Nat, \A n \in Used : n < line,
         NEW x \in Assignment, x = Read3(tokens[line])
  PROVE  \E v \in InOrder(Append(assignments, x), Used \cup {line}) :
           \A k \in DOMAIN Append(assignments, x) :
             Append(assignments, x)[k] = Read3(tokens[v[k]])
<1> DEFINE m == Len(assignments)
           more == Append(assignments, x)
<1>5. GoesOnWith(w, Used, assignments, x, line)
  BY OrderGrows
<1>1. PICK v \in InOrder(more, Used \cup {line}) :
        /\ \A k \in 1 .. m : v[k] = w[k]
        /\ v[m + 1] = line
  BY <1>5 DEF GoesOnWith
<1>2. /\ DOMAIN more = 1 .. m + 1 /\ more[m + 1] = x
      /\ \A k \in 1 .. m : more[k] = assignments[k]
      /\ DOMAIN assignments = 1 .. m /\ m \in Nat
  BY AppendProperties
<1> HIDE DEF m, more
<1>3. \A k \in 1 .. m + 1 : k \in 1 .. m \/ k = m + 1
  BY <1>2
<1>4. \A k \in 1 .. m + 1 : more[k] = Read3(tokens[v[k]])
  <2> TAKE k \in 1 .. m + 1
  <2>1. CASE k \in 1 .. m
    BY <1>1, <1>2, <2>1
  <2>2. CASE k = m + 1
    BY <1>1, <1>2, <2>2
  <2> QED  BY <1>3, <2>1, <2>2
<1> QED  BY <1>2, <1>4 DEF more

\* The same for the prototype's list.
LEMMA QsfListGrows ==
  ASSUME assigned \in Seq(Location), NEW w \in InOrder(assigned, Options),
         \A k \in DOMAIN assigned : assigned[k] = Read4(tokens[w[k]]),
         Options \in SUBSET Nat, line \in Nat, \A n \in Options : n < line,
         NEW x \in Location, x = Read4(tokens[line])
  PROVE  \E v \in InOrder(Append(assigned, x), Options \cup {line}) :
           \A k \in DOMAIN Append(assigned, x) :
             Append(assigned, x)[k] = Read4(tokens[v[k]])
<1> DEFINE m == Len(assigned)
           more == Append(assigned, x)
<1>5. GoesOnWith(w, Options, assigned, x, line)
  BY OrderGrows
<1>1. PICK v \in InOrder(more, Options \cup {line}) :
        /\ \A k \in 1 .. m : v[k] = w[k]
        /\ v[m + 1] = line
  BY <1>5 DEF GoesOnWith
<1>2. /\ DOMAIN more = 1 .. m + 1 /\ more[m + 1] = x
      /\ \A k \in 1 .. m : more[k] = assigned[k]
      /\ DOMAIN assigned = 1 .. m /\ m \in Nat
  BY AppendProperties
<1> HIDE DEF m, more
<1>3. \A k \in 1 .. m + 1 : k \in 1 .. m \/ k = m + 1
  BY <1>2
<1>4. \A k \in 1 .. m + 1 : more[k] = Read4(tokens[v[k]])
  <2> TAKE k \in 1 .. m + 1
  <2>1. CASE k \in 1 .. m
    BY <1>1, <1>2, <2>1
  <2>2. CASE k = m + 1
    BY <1>1, <1>2, <2>2
  <2> QED  BY <1>3, <2>1, <2>2
<1> QED  BY <1>2, <1>4 DEF more

\* The invariant at the start.
LEMMA ReadersStart ==
  ASSUME QsfInit
  PROVE  ReadersInv
<1>1. LexInv
  BY LexerStarts DEF QsfInit
<1>2. /\ program \in {"board", "qsf"} /\ at = "lex" /\ line = 1
      /\ assignments = <<>> /\ assigned = <<>> /\ tokens = << <<>> >>
  BY DEF QsfInit, CfgInit
<1>3. assignments \in Seq(Assignment) /\ assigned \in Seq(Location) /\ Len(tokens) = 1
  BY <1>2
<1>4. line \in 1 .. Len(tokens) + 1
  BY <1>2, <1>3
<1> QED  BY <1>1, <1>2, <1>3, <1>4 DEF ReadersInv, ParseInv

\* Neither lexer touches what the parsers keep.
LEMMA LexersKeepInv ==
  ASSUME ReadersInv, ReadChar \/ LexEnd, UNCHANGED qsfVars
  PROVE  ReadersInv'
<1>1. LexInv /\ ParseInv
  BY DEF ReadersInv
<1>2. /\ at = "lex" /\ line' = line /\ assignments' = assignments
      /\ assigned' = assigned /\ program' = program
      /\ at' \in {"lex", "parse"}
  BY DEF ReadChar, LexEnd, parseVars, qsfVars
<1>3. LexInv'
  BY <1>1, LexStep, LexEndStep
<1>4. line = 1 /\ assignments = <<>> /\ assigned = <<>>
  BY <1>1, <1>2 DEF ParseInv
<1>5. line' \in 1 .. Len(tokens') + 1
  <2>1. Len(tokens') \in Nat
    BY <1>3 DEF LexInv, Lexing, Lexer
  <2> QED  BY <1>2, <1>4, <2>1
<1>6. Used' = {} /\ Options' = {}
  <2>1. Used' = {}
    BY <1>2, <1>4 DEF Used
  <2> QED  BY <2>1 DEF Options
<1>7. BoardParsed' /\ QsfParsed'
  <2>1. <<>> \in InOrder(assignments', Used') /\ <<>> \in InOrder(assigned', Options')
    BY <1>2, <1>4, <1>6, OrderBegins
  <2>2. DOMAIN assignments' = {} /\ DOMAIN assigned' = {}
    BY <1>2, <1>4
  <2>3. at' # "exit"
    BY <1>2
  <2> QED  BY <1>6, <2>1, <2>2, <2>3 DEF BoardParsed, QsfParsed
<1>8. at' # "done" /\ program' \in {"board", "qsf"}
      /\ assignments' \in Seq(Assignment) /\ assigned' \in Seq(Location)
  BY <1>1, <1>2 DEF ParseInv
<1> QED  BY <1>2, <1>3, <1>4, <1>5, <1>7, <1>8 DEF ReadersInv, ParseInv

\* A line that is ignored, whoever reads it.
LEMMA SkipKeepsInv ==
  ASSUME ReadersInv, (SkipLine /\ UNCHANGED qsfVars) \/ QsfSkipLine
  PROVE  ReadersInv'
<1>1. LexInv /\ ParseInv
  BY DEF ReadersInv
<1>2. /\ at = "parse" /\ at' = at /\ line <= Len(tokens) /\ Skipped(tokens[line])
      /\ line' = line + 1 /\ assignments' = assignments
      /\ assigned' = assigned /\ program' = program /\ tokens' = tokens
      /\ UNCHANGED <<input, lexVars>>
  BY DEF SkipLine, QsfSkipLine, qsfVars, lexVars
<1>3. LexInv'
  BY <1>1, <1>2, ParseKeepsLexInv
<1>4. line \in Nat /\ line >= 1 /\ Len(tokens) \in Nat /\ line' \in 1 .. Len(tokens') + 1
  <2>1. Len(tokens) \in Nat /\ line \in 1 .. Len(tokens) + 1
    BY <1>1, LineIsTokens DEF ParseInv
  <2> QED  BY <1>2, <2>1
<1>5. Used' = Used /\ Options' = Options
  BY <1>2, <1>4, UsedGrows
<1>6. at # "exit" /\ at # "lex" /\ at # "done"
  BY <1>2
<1>7. program = "board" => BoardParsed'
  BY <1>1, <1>2, <1>5, <1>6 DEF ParseInv, BoardParsed
<1>8. program = "qsf" => QsfParsed'
  BY <1>1, <1>2, <1>5, <1>6 DEF ParseInv, QsfParsed
<1>9. program' \in {"board", "qsf"}
      /\ assignments' \in Seq(Assignment) /\ assigned' \in Seq(Location)
  BY <1>1, <1>2 DEF ParseInv
<1> QED  BY <1>2, <1>3, <1>4, <1>6, <1>7, <1>8, <1>9 DEF ReadersInv, ParseInv

\* Nor does the end of a parser's loop.
LEMMA EndKeepsInv ==
  ASSUME ReadersInv, (ParseEnd /\ UNCHANGED qsfVars) \/ QsfEnd
  PROVE  ReadersInv'
<1>1. LexInv /\ ParseInv
  BY DEF ReadersInv
<1>2. /\ at = "parse" /\ at' = "done" /\ line > Len(tokens)
      /\ line' = line /\ assignments' = assignments
      /\ assigned' = assigned /\ program' = program /\ tokens' = tokens
      /\ UNCHANGED <<input, lexVars>>
  BY DEF ParseEnd, QsfEnd, qsfVars, lexVars, parseVars
<1>3. LexInv'
  BY <1>1, <1>2, ParseKeepsLexInv
<1>4. line = Len(tokens) + 1
  <2>1. Len(tokens) \in Nat /\ line \in 1 .. Len(tokens) + 1
    BY <1>1, LineIsTokens DEF ParseInv
  <2> QED  BY <1>2, <2>1
<1>5. Used' = Used /\ Options' = Options
  <2>1. Used' = Used
    BY <1>2 DEF Used
  <2> QED  BY <1>2, <2>1 DEF Options
<1>6. at # "lex" /\ at' # "exit" /\ at' # "lex"
  BY <1>2
<1>7. program = "board" => BoardParsed'
  BY <1>1, <1>2, <1>5, <1>6 DEF ParseInv, BoardParsed
<1>8. program = "qsf" => QsfParsed'
  BY <1>1, <1>2, <1>5, <1>6 DEF ParseInv, QsfParsed
<1>9. program' \in {"board", "qsf"} /\ line' \in 1 .. Len(tokens') + 1
      /\ assignments' \in Seq(Assignment) /\ assigned' \in Seq(Location)
  BY <1>1, <1>2 DEF ParseInv
<1> QED  BY <1>2, <1>3, <1>4, <1>6, <1>7, <1>8, <1>9 DEF ReadersInv, ParseInv

\* The line that a parser is at, and what it may become.
LEMMA LineParsed ==
  ASSUME LexInv, ParseInv, line <= Len(tokens)
  PROVE  /\ line \in Nat /\ line >= 1 /\ line + 1 \in 1 .. Len(tokens) + 1
         /\ tokens[line] \in Seq(Token)
<1>1. Len(tokens) \in Nat /\ line \in 1 .. Len(tokens) + 1
  BY LineIsTokens DEF ParseInv
<1>2. line \in 1 .. Len(tokens)
  BY <1>1
<1> QED  BY <1>1, <1>2, LineIsTokens

\* A line parsed by the board: an assignment more, or the end of the program.
LEMMA BoardKeepsInv ==
  ASSUME ReadersInv, program = "board", ParseLine, UNCHANGED qsfVars
  PROVE  ReadersInv'
<1>1. LexInv /\ ParseInv
  BY DEF ReadersInv
<1>2. /\ at = "parse" /\ line <= Len(tokens) /\ ~ Skipped(tokens[line])
      /\ assigned' = assigned /\ program' = program /\ tokens' = tokens
      /\ UNCHANGED <<input, lexVars>>
  BY DEF ParseLine, qsfVars, lexVars
<1>3. /\ line \in Nat /\ line >= 1 /\ line + 1 \in 1 .. Len(tokens) + 1
      /\ tokens[line] \in Seq(Token)
  BY <1>1, <1>2, LineParsed
<1>4. BoardParsed /\ assignments \in Seq(Assignment) /\ assigned \in Seq(Location)
  BY <1>1, <1>2 DEF ParseInv
<1>5. CASE GoodLine(tokens[line])
  <2> DEFINE x == Read3(tokens[line])
  <2>1. /\ assignments' = Append(assignments, x) /\ line' = line + 1 /\ at' = at
    BY <1>5 DEF ParseLine, GoodLine, Read3
  <2>2. x \in Assignment
    BY <1>3, <1>5, AssignmentIs
  <2>3. LexInv'
    BY <1>1, <1>2, <2>1, ParseKeepsLexInv
  <2>4. /\ Used \in SUBSET Nat /\ \A n \in Used : n < line
        /\ Used' = Used \cup {line}
    BY <1>2, <1>3, <2>1, UsedGrows
  <2>5. PICK w \in InOrder(assignments, Used) :
          \A k \in DOMAIN assignments : assignments[k] = Read3(tokens[w[k]])
    BY <1>4 DEF BoardParsed
  <2>6. \E v \in InOrder(Append(assignments, x), Used \cup {line}) :
          \A k \in DOMAIN Append(assignments, x) :
            Append(assignments, x)[k] = Read3(tokens[v[k]])
    BY <1>3, <1>4, <2>2, <2>4, <2>5, BoardListGrows
  <2>7. \A n \in Used' : GoodLine(tokens[n])
    BY <1>4, <1>5, <2>4 DEF BoardParsed
  <2>8. at' # "exit" /\ at' # "lex" /\ at' # "done"
    BY <1>2, <2>1
  <2>9. BoardParsed'
    <3> HIDE DEF x
    <3> QED  BY <1>2, <2>1, <2>4, <2>6, <2>7, <2>8 DEF BoardParsed
  <2>10. assignments' \in Seq(Assignment)
    <3> HIDE DEF x
    <3> QED  BY <1>4, <2>1, <2>2, AppendProperties
  <2>11. /\ program' = "board" /\ assigned' \in Seq(Location)
         /\ line' \in 1 .. Len(tokens') + 1
    BY <1>2, <1>3, <1>4, <2>1
  <2> QED  BY <2>3, <2>8, <2>9, <2>10, <2>11 DEF ReadersInv, ParseInv
<1>6. CASE ~ GoodLine(tokens[line])
  <2>1. at' = "exit" /\ line' = line /\ assignments' = assignments
    BY <1>6 DEF ParseLine, GoodLine
  <2>2. LexInv'
    BY <1>1, <1>2, <2>1, ParseKeepsLexInv
  <2>3. Used' = Used
    BY <1>2, <2>1 DEF Used
  <2>4. BoardParsed'
    BY <1>2, <1>4, <1>6, <2>1, <2>3 DEF BoardParsed
  <2>5. /\ program' = "board" /\ assignments' \in Seq(Assignment)
        /\ assigned' \in Seq(Location) /\ line' \in 1 .. Len(tokens') + 1
    BY <1>1, <1>2, <1>4, <2>1 DEF ParseInv
  <2> QED  BY <2>1, <2>2, <2>4, <2>5 DEF ReadersInv, ParseInv
<1> QED  BY <1>5, <1>6

\* A line parsed by the prototype: a location more, nothing, or the end of the program.
LEMMA QsfKeepsInv ==
  ASSUME ReadersInv, program = "qsf", QsfParseLine
  PROVE  ReadersInv'
<1>1. LexInv /\ ParseInv
  BY DEF ReadersInv
<1>2. /\ at = "parse" /\ line <= Len(tokens) /\ ~ Skipped(tokens[line])
      /\ assignments' = assignments /\ program' = program /\ tokens' = tokens
      /\ UNCHANGED <<input, lexVars>>
  BY DEF QsfParseLine, lexVars
<1>3. /\ line \in Nat /\ line >= 1 /\ line + 1 \in 1 .. Len(tokens) + 1
      /\ tokens[line] \in Seq(Token)
  BY <1>1, <1>2, LineParsed
<1>4. QsfParsed /\ assignments \in Seq(Assignment) /\ assigned \in Seq(Location)
  BY <1>1, <1>2 DEF ParseInv
<1>5. CASE Taken(tokens[line])
  <2> DEFINE x == Read4(tokens[line])
  <2>1. /\ line' = line + 1 /\ at' = at
        /\ assigned' = IF HasArgument(tokens[line]) THEN Append(assigned, x) ELSE assigned
    BY <1>5 DEF QsfParseLine, Read4
  <2>2. LexInv'
    BY <1>1, <1>2, <2>1, ParseKeepsLexInv
  <2>3. /\ Options \in SUBSET Nat /\ \A n \in Options : n < line
        /\ Used' = Used \cup {line}
        /\ HasArgument(tokens[line]) => Options' = Options \cup {line}
        /\ ~ HasArgument(tokens[line]) => Options' = Options
    BY <1>2, <1>3, <2>1, UsedGrows
  <2>4. PICK w \in InOrder(assigned, Options) :
          \A k \in DOMAIN assigned : assigned[k] = Read4(tokens[w[k]])
    BY <1>4 DEF QsfParsed
  <2>5. \A n \in Used' : Taken(tokens[n])
    BY <1>4, <1>5, <2>3 DEF QsfParsed
  <2>6. at' # "exit" /\ at' # "lex" /\ at' # "done"
    BY <1>2, <2>1
  <2>7. /\ assigned' \in Seq(Location)
        /\ \E v \in InOrder(assigned', Options') :
             \A k \in DOMAIN assigned' : assigned'[k] = Read4(tokens[v[k]])
    <3>1. CASE HasArgument(tokens[line])
      <4>1. x \in Location
        BY <1>3, <1>5, <3>1, LocationIs
      <4>2. \E v \in InOrder(Append(assigned, x), Options \cup {line}) :
              \A k \in DOMAIN Append(assigned, x) :
                Append(assigned, x)[k] = Read4(tokens[v[k]])
        BY <1>3, <1>4, <2>3, <2>4, <4>1, QsfListGrows
      <4> HIDE DEF x
      <4>3. Append(assigned, x) \in Seq(Location)
        BY <1>4, <4>1, AppendProperties
      <4> QED  BY <2>1, <2>3, <3>1, <4>2, <4>3
    <3>2. CASE ~ HasArgument(tokens[line])
      BY <1>4, <2>1, <2>3, <2>4, <3>2
    <3> QED  BY <3>1, <3>2
  <2>8. QsfParsed'
    BY <1>2, <2>5, <2>6, <2>7 DEF QsfParsed
  <2>9. /\ program' = "qsf" /\ assignments' \in Seq(Assignment)
        /\ line' \in 1 .. Len(tokens') + 1
    BY <1>2, <1>3, <1>4, <2>1
  <2> QED  BY <2>2, <2>6, <2>7, <2>8, <2>9 DEF ReadersInv, ParseInv
<1>6. CASE ~ Taken(tokens[line])
  <2>1. at' = "exit" /\ line' = line /\ assigned' = assigned
    BY <1>6 DEF QsfParseLine
  <2>2. LexInv'
    BY <1>1, <1>2, <2>1, ParseKeepsLexInv
  <2>3. Used' = Used /\ Options' = Options
    <3>1. Used' = Used
      BY <1>2, <2>1 DEF Used
    <3> QED  BY <1>2, <3>1 DEF Options
  <2>4. QsfParsed'
    BY <1>2, <1>4, <1>6, <2>1, <2>3 DEF QsfParsed
  <2>5. /\ program' = "qsf" /\ assignments' \in Seq(Assignment)
        /\ assigned' \in Seq(Location) /\ line' \in 1 .. Len(tokens') + 1
    BY <1>1, <1>2, <1>4, <2>1 DEF ParseInv
  <2> QED  BY <2>1, <2>2, <2>4, <2>5 DEF ReadersInv, ParseInv
<1> QED  BY <1>5, <1>6

\* Everything that is claimed of the readers follows from this invariant: the
\* lines that were lexed are the lines of the file, each token a word of its
\* line, and the lists hold what was said in the lines before the present one.
THEOREM ReadersKeepInv == ReadersSpec => []ReadersInv
<1>1. QsfInit => ReadersInv
  BY ReadersStart
<1>2. ReadersInv /\ [QsfNext]_<<cfgVars, qsfVars>> => ReadersInv'
  <2> SUFFICES ASSUME ReadersInv, [QsfNext]_<<cfgVars, qsfVars>> PROVE ReadersInv'
    OBVIOUS
  <2>1. CASE program = "board" /\ UNCHANGED qsfVars /\ (ReadChar \/ LexEnd)
    BY <2>1, LexersKeepInv
  <2>2. CASE QsfReadChar \/ QsfLexEnd
    BY <2>2, LexersKeepInv DEF QsfReadChar, QsfLexEnd
  <2>3. CASE (SkipLine /\ UNCHANGED qsfVars) \/ QsfSkipLine
    BY <2>3, SkipKeepsInv
  <2>4. CASE program = "board" /\ UNCHANGED qsfVars /\ ParseLine
    BY <2>4, BoardKeepsInv
  <2>5. CASE program = "qsf" /\ QsfParseLine
    BY <2>5, QsfKeepsInv
  <2>6. CASE (ParseEnd /\ UNCHANGED qsfVars) \/ QsfEnd
    BY <2>6, EndKeepsInv
  <2>7. CASE UNCHANGED <<cfgVars, qsfVars>>
    BY <2>7 DEF cfgVars, qsfVars, lexVars, parseVars, ReadersInv, LexInv, ParseInv, Lexing,
                Used, Options, BoardParsed, QsfParsed
  <2>8. CASE Stopped /\ UNCHANGED qsfVars
    BY <2>7, <2>8 DEF Stopped
  <2> QED  BY <2>1, <2>2, <2>3, <2>4, <2>5, <2>6, <2>7, <2>8 DEF QsfNext
<1> QED  BY <1>1, <1>2, PTL DEF ReadersSpec

\* Tokens have the types CfgTypeOK asks for.
LEMMA TokenTyped ==
  ASSUME NEW k \in Token
  PROVE  /\ k.type \in {"IDENTIFIER", "INTEGER", "STRING", "COMMENT", "ARGUMENT"}
         /\ k.text \in TokenTexts
<1>1. CASE k \in [type : {"IDENTIFIER", "INTEGER", "ARGUMENT"}, text : Seq(Plain)]
  <2>1. Plain \in SUBSET (Char \ {"\n", "\""})
    BY DEF Plain, Mark
  <2>2. ASSUME NEW D, Plain \in SUBSET D, NEW t \in Seq(Plain)
        PROVE  t \in Seq(D)
    BY <2>2
  <2>3. k.text \in Seq(Plain)
    BY <1>1
  <2>4. k.text \in Seq(Char \ {"\n", "\""})
    BY <2>1, <2>2, <2>3
  <2> QED  BY <1>1, <2>4 DEF TokenTexts
<1>2. CASE k \in [type : {"STRING", "COMMENT"}, text : Seq(Char \ {"\n", "\""})]
  BY <1>2 DEF TokenTexts
<1> QED  BY <1>1, <1>2 DEF Token

\* Whoever reads it, a file is cut into tokens of the five types, none of which
\* holds the end of a line or a quote, and a list of assignments holds names
\* without a blank, a comment or a string, in lower case where they are nets,
\* and indices of digits after a sign perhaps.
THEOREM ReadersTypeOK == ReadersSpec => []CfgTypeOK
<1>1. ReadersInv => CfgTypeOK
  <2> SUFFICES ASSUME ReadersInv PROVE CfgTypeOK
    OBVIOUS
  <2>1. LexInv /\ ParseInv
    BY DEF ReadersInv
  <2>2. \A i \in DOMAIN tokens : \A k \in DOMAIN tokens[i] : tokens[i][k] \in Token
    <3>1. tokens \in Seq(Seq(Token))
      BY <2>1, LineIsTokens
    <3> QED  BY <3>1
  <2>3. \A i \in DOMAIN tokens : \A k \in DOMAIN tokens[i] :
          /\ tokens[i][k].type \in {"IDENTIFIER", "INTEGER", "STRING", "COMMENT", "ARGUMENT"}
          /\ tokens[i][k].text \in TokenTexts
    BY <2>2, TokenTyped
  <2> QED  BY <2>1, <2>3 DEF LexInv, ParseInv, CfgTypeOK, Assignment
<1> QED  BY <1>1, ReadersKeepInv, PTL

\* The lines of the file, by their numbers, once the lexer is done.
LEMMA LinesMeant ==
  ASSUME LexInv, at # "lex", NEW s, FileLexedBy(s, input, tokens)
  PROVE  /\ Begun(s, Len(tokens), input, Len(input) + 1)
         /\ LineStarts = {s[n] : n \in 1 .. Len(tokens)}
         /\ \A n \in 1 .. Len(tokens) :
              /\ LineAt(s[n]) \in Seq(Glyph) /\ tokens[n] \in Seq(Token)
              /\ LineLexed(LineAt(s[n]), tokens[n])
<1>1. input \in Seq(Char) /\ Begun(s, Len(tokens), input, Len(input) + 1)
  BY DEF LexInv, FileLexedBy
<1>2. \A n \in 1 .. Len(tokens) : s[n] \in StartsTo(input, Len(input) + 1)
  BY <1>1 DEF Begun
<1>3. \A n \in 1 .. Len(tokens) : s[n] \in 1 .. Len(input) + 1
  BY <1>2 DEF StartsTo
<1>4. LineStarts = {s[n] : n \in 1 .. Len(tokens)}
  <2>1. LineStarts = StartsTo(input, Len(input) + 1)
    BY <1>1, StartsAreBegun
  <2>2. \A p \in StartsTo(input, Len(input) + 1) : \E n \in 1 .. Len(tokens) : s[n] = p
    BY <1>1 DEF Begun
  <2> QED  BY <1>2, <2>1, <2>2
<1>5. \A p : LineAt(p) = LineOf(input, p)
  BY DEF LineAt, LineOf, LineEnds
<1>6. \A n \in 1 .. Len(tokens) : LineAt(s[n]) \in Seq(Glyph)
  BY <1>1, <1>3, <1>5, LineIs
<1>7. \A n \in 1 .. Len(tokens) : LineLexed(LineAt(s[n]), tokens[n])
  BY <1>5 DEF FileLexedBy
<1> QED  BY <1>1, <1>4, <1>6, <1>7, LineIsTokens

\* What the board's parser has done is what the lines of the file mean.
LEMMA BoardMeans ==
  ASSUME ReadersInv, program = "board"
  PROVE  ParsedAsWritten
<1>1. LexInv /\ ParseInv /\ tokens \in Seq(Seq(Token)) /\ Len(tokens) \in Nat
      /\ line \in 1 .. Len(tokens) + 1
  BY LineIsTokens DEF ReadersInv, ParseInv
<1> SUFFICES ASSUME at \in {"done", "exit"}
             PROVE  ParsedAsWritten
  BY DEF ParsedAsWritten
<1>2. at # "lex" /\ BoardParsed
  BY <1>1 DEF ParseInv
<1>3. PICK s : FileLexedBy(s, input, tokens)
  BY <1>1, <1>2 DEF LexInv
<1>4. /\ Begun(s, Len(tokens), input, Len(input) + 1)
      /\ LineStarts = {s[n] : n \in 1 .. Len(tokens)}
      /\ \A n \in 1 .. Len(tokens) :
           /\ LineAt(s[n]) \in Seq(Glyph) /\ tokens[n] \in Seq(Token)
           /\ LineLexed(LineAt(s[n]), tokens[n])
  BY <1>1, <1>2, <1>3, LinesMeant
<1>5. \A n \in 1 .. Len(tokens) :
        /\ Skipped(tokens[n]) <=> IsIgnored(LineAt(s[n]))
        /\ GoodLine(tokens[n]) <=> IsAssignment(LineAt(s[n]))
        /\ GoodLine(tokens[n]) => Means(Read3(tokens[n]), LineAt(s[n]))
  BY <1>4, SkippedIsIgnored, GoodIsAssignment
<1>6. ASSUME at = "done"
      PROVE  /\ \A p \in UsedLines : IsAssignment(LineAt(p))
             /\ \E where \in InOrder(assignments, UsedLines) :
                  \A n \in DOMAIN assignments : Means(assignments[n], LineAt(where[n]))
  <2>1. Used = {n \in 1 .. Len(tokens) : ~ Skipped(tokens[n])}
    <3>1. line - 1 = Len(tokens)
      BY <1>1, <1>6 DEF ParseInv
    <3> QED  BY <3>1 DEF Used
  <2>2. UsedLines = {s[n] : n \in Used}
    BY <1>4, <1>5, <2>1 DEF UsedLines
  <2>3. \A p \in UsedLines : IsAssignment(LineAt(p))
    BY <1>2, <1>5, <2>1, <2>2 DEF BoardParsed
  <2>4. PICK w \in InOrder(assignments, Used) :
          \A k \in DOMAIN assignments : assignments[k] = Read3(tokens[w[k]])
    BY <1>2 DEF BoardParsed
  <2> DEFINE where == [k \in DOMAIN assignments |-> s[w[k]]]
  <2>5. where \in InOrder(assignments, UsedLines)
    <3>1. Used \in SUBSET (1 .. Len(tokens))
      BY <2>1
    <3>2. /\ \A n \in Used : s[n] \in UsedLines
          /\ \A p \in UsedLines : \E n \in Used : p = s[n]
      BY <2>2
    <3>3. PlacesOf(s, assignments, w) \in InOrder(assignments, UsedLines)
      BY <1>1, <1>4, <3>1, <3>2, OrderOfLines
    <3> QED  BY <3>3 DEF PlacesOf
  <2>6. \A k \in DOMAIN assignments : Means(assignments[k], LineAt(where[k]))
    <3> TAKE k \in DOMAIN assignments
    <3>1. w[k] \in Used
      BY <2>4 DEF InOrder
    <3> QED  BY <1>2, <1>5, <2>1, <2>4, <3>1 DEF BoardParsed
  <2> HIDE DEF where
  <2> QED  BY <2>3, <2>5, <2>6
<1>7. ASSUME at = "exit"
      PROVE  \E p \in UsedLines : ~ IsAssignment(LineAt(p))
  <2>1. /\ line <= Len(tokens) /\ ~ Skipped(tokens[line]) /\ ~ GoodLine(tokens[line])
    BY <1>2, <1>7 DEF BoardParsed
  <2>2. line \in 1 .. Len(tokens)
    BY <1>1, <2>1
  <2>3. s[line] \in UsedLines /\ ~ IsAssignment(LineAt(s[line]))
    BY <1>4, <1>5, <2>1, <2>2 DEF UsedLines
  <2> QED  BY <2>3
<1> QED  BY <1>6, <1>7 DEF ParsedAsWritten

\* The virtual board's reader, for a file of any length: the list holds the
\* assignments of the file, in their order, and it ends the program exactly
\* when a line is neither ignored nor an assignment.
THEOREM BoardReads == ReadersSpec => []BoardReadsAsWritten
<1>1. ReadersInv => BoardReadsAsWritten
  BY BoardMeans DEF BoardReadsAsWritten
<1> QED  BY <1>1, ReadersKeepInv, PTL

\* What the prototype's parser has done is what the lines of the file mean.
LEMMA QsfMeans ==
  ASSUME ReadersInv
  PROVE  QsfReadsAsWritten
<1> DEFINE Locations == {p \in UsedLines : IsLocation(LineAt(p))}
           IsTaken(p) == IsLocation(LineAt(p)) \/ IsPinOnly(LineAt(p))
<1>1. LexInv /\ ParseInv /\ tokens \in Seq(Seq(Token)) /\ Len(tokens) \in Nat
      /\ line \in 1 .. Len(tokens) + 1
  BY LineIsTokens DEF ReadersInv, ParseInv
<1> SUFFICES ASSUME program = "qsf", at \in {"done", "exit"}
             PROVE  QsfReadsAsWritten
  BY DEF QsfReadsAsWritten
<1>2. at # "lex" /\ QsfParsed
  BY <1>1 DEF ParseInv
<1>3. PICK s : FileLexedBy(s, input, tokens)
  BY <1>1, <1>2 DEF LexInv
<1>4. /\ Begun(s, Len(tokens), input, Len(input) + 1)
      /\ LineStarts = {s[n] : n \in 1 .. Len(tokens)}
      /\ \A n \in 1 .. Len(tokens) :
           /\ LineAt(s[n]) \in Seq(Glyph) /\ tokens[n] \in Seq(Token)
           /\ LineLexed(LineAt(s[n]), tokens[n])
  BY <1>1, <1>2, <1>3, LinesMeant
<1>5. \A n \in 1 .. Len(tokens) :
        /\ Skipped(tokens[n]) <=> IsIgnored(LineAt(s[n]))
        /\ Taken(tokens[n]) <=> IsTaken(s[n])
        /\ Taken(tokens[n]) => (HasArgument(tokens[n]) <=> IsLocation(LineAt(s[n])))
        /\ Taken(tokens[n]) /\ HasArgument(tokens[n]) =>
             Read4(tokens[n]) = [pin |-> Word(LineAt(s[n]), 2), dst |-> Part(LineAt(s[n]), 4)]
  BY <1>4, SkippedIsIgnored, TakenIsLocation
<1>6. ASSUME at = "done"
      PROVE  /\ \A p \in UsedLines : IsTaken(p)
             /\ \E where \in InOrder(assigned, Locations) :
                  \A n \in DOMAIN assigned :
                    assigned[n] = [pin |-> Word(LineAt(where[n]), 2),
                                   dst |-> Part(LineAt(where[n]), 4)]
  <2>1. Used = {n \in 1 .. Len(tokens) : ~ Skipped(tokens[n])}
    <3>1. line - 1 = Len(tokens)
      BY <1>1, <1>6 DEF ParseInv
    <3> QED  BY <3>1 DEF Used
  <2>2. UsedLines = {s[n] : n \in Used}
    BY <1>4, <1>5, <2>1 DEF UsedLines
  <2>3. \A n \in Used : n \in 1 .. Len(tokens) /\ Taken(tokens[n])
    BY <1>2, <2>1 DEF QsfParsed
  <2>4. \A p \in UsedLines : IsTaken(p)
    BY <1>5, <2>2, <2>3
  <2>5. Locations = {s[n] : n \in Options}
    BY <1>5, <2>2, <2>3 DEF Options
  <2>6. PICK w \in InOrder(assigned, Options) :
          \A k \in DOMAIN assigned : assigned[k] = Read4(tokens[w[k]])
    BY <1>2 DEF QsfParsed
  <2> DEFINE where == [k \in DOMAIN assigned |-> s[w[k]]]
  <2>7. where \in InOrder(assigned, Locations)
    <3>1. Options \in SUBSET (1 .. Len(tokens))
      BY <2>1 DEF Options
    <3> HIDE DEF Locations
    <3>2. /\ \A n \in Options : s[n] \in Locations
          /\ \A p \in Locations : \E n \in Options : p = s[n]
      BY <2>5
    <3>3. PlacesOf(s, assigned, w) \in InOrder(assigned, Locations)
      BY <1>1, <1>4, <3>1, <3>2, OrderOfLines
    <3> QED  BY <3>3 DEF PlacesOf
  <2>8. \A k \in DOMAIN assigned :
          assigned[k] = [pin |-> Word(LineAt(where[k]), 2), dst |-> Part(LineAt(where[k]), 4)]
    <3> TAKE k \in DOMAIN assigned
    <3>1. w[k] \in Options
      BY <2>6 DEF InOrder
    <3>2. w[k] \in Used /\ HasArgument(tokens[w[k]])
      BY <3>1 DEF Options
    <3> QED  BY <1>5, <2>3, <2>6, <3>2
  <2> HIDE DEF where, IsTaken, Locations
  <2> QED  BY <2>4, <2>7, <2>8
<1>7. ASSUME at = "exit"
      PROVE  \E p \in UsedLines : ~ IsTaken(p)
  <2>1. /\ line <= Len(tokens) /\ ~ Skipped(tokens[line]) /\ ~ Taken(tokens[line])
    BY <1>2, <1>7 DEF QsfParsed
  <2>2. line \in 1 .. Len(tokens)
    BY <1>1, <2>1
  <2>3. s[line] \in UsedLines /\ ~ IsTaken(s[line])
    BY <1>4, <1>5, <2>1, <2>2 DEF UsedLines
  <2> QED  BY <2>3
<1> QED  BY <1>6, <1>7 DEF QsfReadsAsWritten

\* The prototype, for a file of any length: the list holds the locations of the
\* file with their destinations, in their order, and it ends the program
\* exactly when a line is none of what it takes.
THEOREM QsfReads == ReadersSpec => []QsfReadsAsWritten
<1>1. ReadersInv => QsfReadsAsWritten
  BY QsfMeans
<1> QED  BY <1>1, ReadersKeepInv, PTL
=============================================================================
