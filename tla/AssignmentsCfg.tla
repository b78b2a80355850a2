--------------------------- MODULE AssignmentsCfg ---------------------------
(***************************************************************************)
(* The lexer and the parser of assignments.cfg, and what the file means.   *)
(*                                                                         *)
(* The file is a sequence of characters, one for each class the code tells *)
(* apart; a text is a piece of it.  A token holds its type and its text.   *)
(***************************************************************************)
EXTENDS Integers, SequencesExt

CONSTANTS Inputs,   \* the files to consider
          MaxDigits \* the most digits of a number that fits an int

\* "1" stands for a digit, "A" for a character that to_lower() changes, "a" for
\* any other one but the vertical tab and the form feed, which stoi() skips.
Char == {"a", "A", "1", "-", "+", ">", "[", "]", "/", " ", "#", "\"", "\n"}

ASSUME DigitsAssumption == MaxDigits \in Nat \ {0}

ASSUME InputsAssumption == Inputs \subseteq Seq(Char)

VARIABLES
  input,        \* the content of the file
  at,           \* "lex", "parse", "done" or "exit"
  next,         \* the place of the character get_tokens() reads next
  curr,         \* the token it is reading
  tokens,       \* TOKEN_LIST: the tokens of each line
  line,         \* the next line to parse
  assignments   \* what was parsed so far

lexVars   == <<next, curr, tokens>>
parseVars == <<line, assignments>>
cfgVars   == <<input, at, lexVars, parseVars>>
-----------------------------------------------------------------------------
(* The lexer, a character at a time: s is its curr and its tokens.          *)

NoToken == [type |-> "WHITESPACE", text |-> <<>>]

\* end_token(): the token joins the last line, and a new one is begun.
EndToken(s) ==
  [curr   |-> NoToken,
   tokens |-> IF s.curr.type = "WHITESPACE" THEN s.tokens
              ELSE [s.tokens EXCEPT ![Len(s.tokens)] = Append(@, s.curr)]]

Begin(s, type, text) == [s EXCEPT !.curr = [type |-> type, text |-> text]]
Extend(s, c) == [s EXCEPT !.curr.text = Append(@, c)]
In(s, types) == s.curr.type \in types

\* A character of each class.
Digit(s, c) == IF In(s, {"WHITESPACE"}) THEN Begin(s, "INTEGER", <<c>>) ELSE Extend(s, c)
Quote(s)    == IF In(s, {"STRING"}) THEN EndToken(s)
                                    ELSE Begin(EndToken(s), "STRING", <<>>)
Hash(s, c)  == IF In(s, {"STRING"}) THEN Extend(s, c)
                                    ELSE Begin(EndToken(s), "COMMENT", <<>>)
Dash(s, c)  == IF In(s, {"WHITESPACE"}) THEN Begin(s, "ARGUMENT", <<c>>) ELSE Extend(s, c)
Blank(s, c) == IF In(s, {"STRING", "COMMENT"}) THEN Extend(s, c) ELSE EndToken(s)

\* Mutant: the token that is being read goes on in the next line.
NewLineOnly(s) == [s EXCEPT !.tokens = Append(@, <<>>)]

NewLine(s) == LET e == EndToken(s) IN [e EXCEPT !.tokens = Append(@, <<>>)]

Other(s, c) ==
  IF In(s, {"WHITESPACE", "INTEGER"})
    THEN Begin(EndToken(s), "IDENTIFIER", <<c>>) ELSE Extend(s, c)

Read(s, c) ==
  CASE c = "1"  -> Digit(s, c)
    [] c = "\"" -> Quote(s)
    [] c = "#"  -> Hash(s, c)
    [] c = "-"  -> Dash(s, c)
    [] c = " "  -> Blank(s, c)
    [] c = "\n" -> NewLine(s)
    [] OTHER    -> Other(s, c)

LexerBecomes(s) == curr' = s.curr /\ tokens' = s.tokens

\* The loop of get_tokens() over the characters, and what follows it.
ReadChar ==
  /\ at = "lex" /\ next <= Len(input)
  /\ LexerBecomes(Read([curr |-> curr, tokens |-> tokens], input[next]))
  /\ next' = next + 1
  /\ UNCHANGED <<input, at, parseVars>>

LexEnd ==
  /\ at = "lex" /\ next > Len(input)
  /\ LexerBecomes(EndToken([curr |-> curr, tokens |-> tokens]))
  /\ at' = "parse"
  /\ UNCHANGED <<input, next, parseVars>>
-----------------------------------------------------------------------------
(* The parser                                                              *)

\* Mutant: only a text that starts in upper case is changed.
ToLowerFirst(text) ==
  [i \in DOMAIN text |-> IF text[1] = "A" /\ text[i] = "A" THEN "a" ELSE text[i]]

ToLower(text) == [i \in DOMAIN text |-> IF text[i] = "A" THEN "a" ELSE text[i]]

\* The first place of s, from i on, of a character of stop; the place after s
\* when there is none.
Place(s, i, stop) ==
  CHOOSE k \in i .. Len(s) + 1 :
    /\ k = Len(s) + 1 \/ s[k] \in stop
    /\ \A j \in i .. k - 1 : s[j] \notin stop

\* The longest start of s without a character of stop.
Before(s, stop) == SubSeq(s, 1, Place(s, 1, stop) - 1)

\* get_net_and_index(): what stands before "[" is the name of the net; what
\* follows it, without the last character, is the index.
HasIndex(text) == Contains(text, "[")
NetName(text)  == ToLower(Before(text, {"["}))

\* Mutant: the last character is read as well.
NumToEnd(text) == SubSeq(text, Len(Before(text, {"["})) + 2, Len(text))

Num(text) == SubSeq(text, Len(Before(text, {"["})) + 2, Len(text) - 1)

\* std::stoi() reads digits as far as they go, after a sign perhaps.  It throws
\* when there are none, and when the number does not fit an int.
Sign(num)   == IF num # <<>> /\ num[1] \in {"-", "+"} THEN 1 ELSE 0
Digits(num) == Before(SubSeq(num, Sign(num) + 1, Len(num)), Char \ {"1"})
StoiThrows(text) == HasIndex(text) /\ Len(Digits(Num(text))) \notin 1 .. MaxDigits

\* The index: 0 without "[", else the number, for which the number of its digits
\* stands.  A negative one is the size_t that far below 2^64.
Index(text) ==
  LET n == Len(Digits(Num(text)))
  IN  IF ~ HasIndex(text) THEN 0 ELSE IF Num(text)[1] = "-" THEN - n ELSE n

\* expect_<TYPE>(): a token of the type at place i of the line.
Expect(l, i, type) == i <= Len(l) /\ l[i].type = type

ArrowLine(l) ==
  /\ Expect(l, 1, "IDENTIFIER")
  /\ Expect(l, 2, "ARGUMENT") /\ l[2].text = <<"-", ">">>
  /\ Expect(l, 3, "IDENTIFIER")

Skipped(l) == l = <<>> \/ Expect(l, 1, "COMMENT")
-----------------------------------------------------------------------------
\* parse() and parse_line(); every exception ends in exit(-1).
SkipLine ==
  /\ at = "parse" /\ line <= Len(tokens) /\ Skipped(tokens[line])
  /\ line' = line + 1
  /\ UNCHANGED <<input, at, lexVars, assignments>>

ParseLine ==
  /\ at = "parse" /\ line <= Len(tokens) /\ ~ Skipped(tokens[line])
  /\ LET l == tokens[line] IN
     IF ArrowLine(l) /\ ~ StoiThrows(l[3].text)
       THEN /\ assignments' = Append(assignments,
                 [pin |-> l[1].text, signal |-> NetName(l[3].text),
                  index |-> Index(l[3].text)])
            /\ line' = line + 1
            /\ UNCHANGED at
       ELSE at' = "exit" /\ UNCHANGED <<line, assignments>>
  /\ UNCHANGED <<input, lexVars>>

ParseEnd ==
  /\ at = "parse" /\ line > Len(tokens)
  /\ at' = "done"
  /\ UNCHANGED <<input, lexVars, parseVars>>

CfgInit ==
  /\ input \in Inputs /\ at = "lex"
  /\ next = 1 /\ curr = NoToken /\ tokens = <<<<>>>>
  /\ line = 1 /\ assignments = <<>>

Stopped == at \in {"done", "exit"} /\ UNCHANGED cfgVars

CfgNext == ReadChar \/ LexEnd \/ SkipLine \/ ParseLine \/ ParseEnd \/ Stopped

CfgSpec == CfgInit /\ [][CfgNext]_cfgVars
-----------------------------------------------------------------------------
TokenTexts == Seq(Char \ {"\n", "\""})

CfgTypeOK ==
  /\ input \in Seq(Char)
  /\ at \in {"lex", "parse", "done", "exit"}
  /\ next \in 1 .. Len(input) + 1
  /\ \A i \in DOMAIN tokens : \A k \in DOMAIN tokens[i] :
       /\ tokens[i][k].type \in {"IDENTIFIER", "INTEGER", "STRING", "COMMENT", "ARGUMENT"}
       /\ tokens[i][k].text \in TokenTexts
  /\ line \in 1 .. Len(tokens) + 1
  /\ assignments \in Seq([pin    : Seq(Char \ {"\n", "\"", "#", " "}),
                          signal : Seq(Char \ {"\n", "\"", "#", " ", "A"}),
                          index  : - MaxDigits .. MaxDigits])

(* What the file means, line by line and without an automaton.             *)

\* Where the lines start, and the line at such a place, its end dropped.
LineStarts == {1} \cup {i + 1 : i \in {k \in DOMAIN input : input[k] = "\n"}}
LineAt(p)  == SubSeq(input, p, Place(input, p, {"\n"}) - 1)

\* The n-th word of a line, of the first four: what stands between blanks.
Solid == Char \ {" "}
NextWord(l, i) == Place(l, Place(l, i, {" "}), Solid)
WordStarts(l) == LET a == Place(l, 1, Solid)
                     b == NextWord(l, a)
                     c == NextWord(l, b)
                 IN  <<a, b, c, NextWord(l, c)>>
HasWord(l, n) == WordStarts(l)[n] <= Len(l)
Word(l, n) == LET i == WordStarts(l)[n] IN SubSeq(l, i, Place(l, i, {" "}) - 1)

IsName(w) == /\ w # <<>> /\ w[1] \notin {"1", "-"}
             /\ ~ Contains(w, "#") /\ ~ Contains(w, "\"")

\* A comment or a string may follow a name at once.
Part(l, n) == Before(Word(l, n), {"#", "\""})
Target(l)  == Part(l, 3)

\* s is a target up to its first bracket, in lower case.
IsSignal(s, w) ==
  /\ Len(s) = Len(w) \/ (Len(s) < Len(w) /\ w[Len(s) + 1] = "[")
  /\ \A j \in DOMAIN s : w[j] # "[" /\ s[j] = IF w[j] = "A" THEN "a" ELSE w[j]

\* v is the number a target holds: a sign or none and the longest run of digits
\* right after its first bracket, its last character apart; 0 without a bracket.
Denotes(w, v) ==
  \/ v = 0 /\ \A i \in DOMAIN w : w[i] # "["
  \/ \E i, from, to \in DOMAIN w :
       /\ w[i] = "[" /\ \A j \in 1 .. i - 1 : w[j] # "["
       /\ from = i + 1 \/ (from = i + 2 /\ w[i + 1] \in {"-", "+"})
       /\ from <= to /\ to < Len(w) /\ \A j \in from .. to : w[j] = "1"
       /\ to + 1 = Len(w) \/ w[to + 1] # "1"
       /\ to - from < MaxDigits
       /\ v = IF w[i + 1] = "-" THEN from - to - 1 ELSE to - from + 1

IsIgnored(l)    == ~ HasWord(l, 1) \/ Word(l, 1)[1] = "#"
IsAssignment(l) ==
  /\ HasWord(l, 3)
  /\ IsName(Word(l, 1)) /\ Word(l, 2) = <<"-", ">">> /\ IsName(Target(l))
  /\ \E v \in - MaxDigits .. MaxDigits : Denotes(Target(l), v)

\* The assignment a of a line.
Means(a, l) ==
  /\ a.pin = Word(l, 1)
  /\ IsSignal(a.signal, Target(l))
  /\ Denotes(Target(l), a.index)

\* The one way to give the places of S, in their order, the numbers of list.
InOrder(list, S) ==
  {where \in [DOMAIN list -> S] :
     /\ \A p \in S : \E n \in DOMAIN list : where[n] = p
     /\ \A m, n \in DOMAIN list : m < n => where[m] < where[n]}

UsedLines == {p \in LineStarts : ~ IsIgnored(LineAt(p))}

\* A file of ignored lines and assignments is read as the assignments it
\* lists, in their order; any other file ends the program.
ParsedAsWritten ==
  /\ at = "done" =>
       /\ \A p \in UsedLines : IsAssignment(LineAt(p))
       /\ \E where \in InOrder(assignments, UsedLines) :
            \A n \in DOMAIN assignments : Means(assignments[n], LineAt(where[n]))
  /\ at = "exit" => \E p \in UsedLines : ~ IsAssignment(LineAt(p))
=============================================================================
