-------------------------- MODULE MCAssignmentsCfg --------------------------
(* Small assignment files for TLC.                                         *)
EXTENDS AssignmentsCfg

CONSTANT MaxLen    \* bound on the characters that vary

ASSUME MaxLen \in Nat

\* What stands before and after the characters that vary: nothing, or an
\* assignment cut at one of its parts.
Context == {<< <<>>, <<>> >>,
            << <<"a", " ">>, <<" ", "a">> >>,
            << <<"a", " ", "-", ">", " ">>, <<>> >>,
            << <<"a", " ", "-", ">", " ", "A", "[">>, <<>> >>,
            << <<"a", " ", "-", ">", " ", "a", "[", "1">>, <<>> >>,
            << <<"a", "1", " ", "-", ">", " ", "a", "\n">>, <<>> >>,
            << <<"a", " ", "-", ">", " ", "a", "\n", "a", " ", "-", ">", " ">>, <<>> >>}

MCInputs == {f[1] \o c \o f[2] : f \in Context, c \in SeqOf(Char, MaxLen)}
=============================================================================
