----------------------------- MODULE QsfParser -----------------------------
(***************************************************************************)
(* The prototype of a parser of Quartus' settings files, a program of its  *)
(* own beside the virtual board's parser of assignments.cfg: their lexers  *)
(* are the same code, their parsers are not.                               *)
(*                                                                         *)
(* The words the prototype knows are stood for by short ones: "A" is       *)
(* set_location_assignment, "-a" is -to.                                   *)
(***************************************************************************)
EXTENDS AssignmentsCfg

VARIABLES
  program,   \* "board" or "qsf": who reads the file
  assigned   \* the qsf_assignments so far

qsfVars == <<program, assigned>>

Command == <<"A">>
To      == <<"-", "a">>

\* qsf::lexer is the lexer of assignments.cfg, character class by class.
QsfReadChar == ReadChar /\ UNCHANGED qsfVars
QsfLexEnd   == LexEnd /\ UNCHANGED qsfVars
-----------------------------------------------------------------------------
\* What parse_line() expects of the tokens, from the first on.
HasPin(l) ==
  Expect(l, 1, "IDENTIFIER") /\ l[1].text = Command /\ Expect(l, 2, "IDENTIFIER")
HasArgument(l) == Expect(l, 3, "ARGUMENT")

\* Mutant: any option is taken for -to.
AnyDestination(l) == Expect(l, 4, "IDENTIFIER")

HasDestination(l) == l[3].text = To /\ Expect(l, 4, "IDENTIFIER")

\* A pin without an option is no error: the line assigns nothing.
Taken(l) == HasPin(l) /\ (HasArgument(l) => HasDestination(l))

QsfSkipLine ==
  /\ at = "parse" /\ line <= Len(tokens) /\ Skipped(tokens[line])
  /\ line' = line + 1
  /\ UNCHANGED <<input, at, lexVars, assignments, qsfVars>>

\* An exception of parse_line() ends the program with -1.
QsfParseLine ==
  /\ at = "parse" /\ line <= Len(tokens) /\ ~ Skipped(tokens[line])
  /\ LET l == tokens[line] IN
     IF Taken(l)
       THEN /\ assigned' = IF HasArgument(l)
                             THEN Append(assigned, [pin |-> l[2].text, dst |-> l[4].text])
                             ELSE assigned
            /\ line' = line + 1
            /\ UNCHANGED at
       ELSE at' = "exit" /\ UNCHANGED <<line, assigned>>
  /\ UNCHANGED <<input, lexVars, assignments, program>>

QsfEnd ==
  /\ at = "parse" /\ line > Len(tokens)
  /\ at' = "done"
  /\ UNCHANGED <<input, lexVars, parseVars, qsfVars>>

QsfInit == CfgInit /\ program \in {"board", "qsf"} /\ assigned = <<>>

QsfNext ==
  \/ /\ program = "board" /\ UNCHANGED qsfVars
     /\ ReadChar \/ LexEnd \/ SkipLine \/ ParseLine \/ ParseEnd
  \/ /\ program = "qsf"
     /\ QsfReadChar \/ QsfLexEnd \/ QsfSkipLine \/ QsfParseLine \/ QsfEnd
  \/ Stopped /\ UNCHANGED qsfVars

ReadersSpec == QsfInit /\ [][QsfNext]_<<cfgVars, qsfVars>>
-----------------------------------------------------------------------------
\* The virtual board reads its file as ParsedAsWritten says: a file of ignored
\* lines and assignments as the assignments it lists, in their order; any other
\* file ends the program.
BoardReadsAsWritten == program = "board" => ParsedAsWritten

\* The lines of a settings file, word by word.
NamesPin(l)  == HasWord(l, 2) /\ Word(l, 1) = Command /\ IsName(Part(l, 2))
HasOption(l) == HasWord(l, 3) /\ Part(l, 2) = Word(l, 2) /\ Word(l, 3)[1] = "-"
IsLocation(l) ==
  NamesPin(l) /\ HasOption(l) /\ Word(l, 3) = To /\ HasWord(l, 4) /\ IsName(Part(l, 4))
IsPinOnly(l) == NamesPin(l) /\ ~ HasOption(l)

\* parse_line() of the prototype reads a file of ignored lines, of locations
\* and of pins without an option as the locations it lists, in their order and
\* with their destinations; any other file ends the program.
QsfReadsAsWritten ==
  program = "qsf" =>
    LET Locations == {p \in UsedLines : IsLocation(LineAt(p))}
        IsTaken(p) == IsLocation(LineAt(p)) \/ IsPinOnly(LineAt(p))
    IN  /\ at = "done" =>
             /\ \A p \in UsedLines : IsTaken(p)
             /\ \E where \in InOrder(assigned, Locations) :
                  \A n \in DOMAIN assigned :
                    LET l == LineAt(where[n])
                    IN  assigned[n] = [pin |-> Word(l, 2), dst |-> Part(l, 4)]
        /\ at = "exit" => \E p \in UsedLines : ~ IsTaken(p)
=============================================================================
