---------------------------- MODULE MCQsfParser ----------------------------
(* Small settings and assignment files for TLC.                            *)
EXTENDS QsfParser, MCAssignmentsCfg

\* What stands before and after the characters that vary: a location cut at
\* one of its parts.
QsfContext == {<< <<"A">>, <<>> >>,
               << <<"A", " ">>, <<" ", "-", "a", " ", "a">> >>,
               << <<"A", " ", "a", " ">>, <<" ", "a">> >>,
               << <<"A", " ", "a", " ", "-", "a", " ">>, <<>> >>,
               << <<"A", " ", "a", " ", "-", "a", " ", "a", "1", "\n">>, <<>> >>,
               << <<"A", " ", "a", "\n", "A", " ", "A", " ", "-">>, <<" ", "a">> >>}

ReaderInputs == MCInputs \cup {f[1] \o c \o f[2] : f \in QsfContext, c \in SeqOf(Char, MaxLen)}
=============================================================================
