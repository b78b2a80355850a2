----------------------------- MODULE RunScript -----------------------------
(***************************************************************************)
(* virtual_board.py, which analyses a project with GHDL, elaborates its    *)
(* top entity and runs the simulation, on the project that                 *)
(* usb_port_vpi_ghdl.py converts and the user edits.  Nothing keeps the    *)
(* three apart: each may take a step between two of another.               *)
(*                                                                         *)
(* GHDL's library stays from one run to the next.  It holds, for each      *)
(* entity, the text it was last analysed from.                             *)
(***************************************************************************)
EXTENDS UsbPortScript

CONSTANT TopVhdl    \* the top entity file's name ends with ".vhdl"

ASSUME RunScriptAssumption == TopVhdl \in BOOLEAN /\ (TopVhdl => VhdName)

VARIABLES
  library,   \* the entities in GHDL's library
  step,      \* where virtual_board.py is
  todo,      \* files of os.listdir() the loop has not come to
  skipped,   \* files that were there and the loop passed over
  steady     \* history: no top entity file has changed since it was started

runVars == <<library, step, todo, skipped, steady>>

DefaultPort == <<"UsbPort">>

\* UsbPort.vhd, the top entity's, and the two that are made, with their texts.
File == {"UsbPort", "top", "newPort", "generated"}

TextOf(f) ==
  CASE f = "UsbPort"   -> IF "dir" \in port THEN DefaultPort ELSE None
    [] f = "top"       -> source["dir"]
    [] f = "newPort"   -> newPort
    [] f = "generated" -> generated

\* os.path.isfile(); the folder tmp is no file, and not looked into.
IsFile(f) == TextOf(f) # None

\* A converted top entity has the name of the one it was made from.
Entity == File \ {"generated"}
EntityOf(f) == IF f = "generated" THEN "top" ELSE f

\* (file.endswith(".vhd") == False and file.endswith(".vhdl")) == False goes on
\* to the next file: it holds for every name that does not end with ".vhdl".
IsAnalysed(f) == f \in {"top", "generated"} /\ TopVhdl
-----------------------------------------------------------------------------
Start ==
  /\ step = "idle"
  /\ step' = "analyze"
  /\ todo' = {f \in File : IsFile(f)}
  /\ skipped' = {} /\ steady' = TRUE
  /\ UNCHANGED <<library, scriptVars>>

\* Mutant: break for continue.
SkipFileBreaks(f) ==
  /\ step = "analyze" /\ ~ (IsFile(f) /\ IsAnalysed(f))
  /\ todo' = {}
  /\ skipped' = IF IsFile(f) THEN skipped \cup {f} ELSE skipped
  /\ UNCHANGED <<library, step, steady, scriptVars>>

SkipFile(f) ==
  /\ step = "analyze" /\ ~ (IsFile(f) /\ IsAnalysed(f))
  /\ todo' = todo \ {f}
  /\ skipped' = IF IsFile(f) THEN skipped \cup {f} ELSE skipped
  /\ UNCHANGED <<library, step, steady, scriptVars>>

\* Mutant: a file without an entity takes it out of the library.
AnalyzeCut(f) ==
  /\ step = "analyze" /\ IsFile(f) /\ IsAnalysed(f)
  /\ todo' = todo \ {f}
  /\ library' = [library EXCEPT ![EntityOf(f)] = TextOf(f)]
  /\ UNCHANGED <<step, skipped, steady, scriptVars>>

\* ghdl -a: the entity of the file replaces the one in the library; there is
\* none in a file that was only opened for writing.
Analyze(f) ==
  /\ step = "analyze" /\ IsFile(f) /\ IsAnalysed(f)
  /\ todo' = todo \ {f}
  /\ library' = IF TextOf(f) = Cut THEN library
                ELSE [library EXCEPT ![EntityOf(f)] = TextOf(f)]
  /\ UNCHANGED <<step, skipped, steady, scriptVars>>

\* ghdl -e finds the top entity in the library; a component without an entity
\* is left unbound.
Elaborate ==
  /\ step = "analyze" /\ todo = {} /\ library["top"] # None
  /\ step' = "elaborated"
  /\ UNCHANGED <<library, todo, skipped, steady, scriptVars>>

\* The VPI module's file is there: ghdl -r.
Run ==
  /\ step = "elaborated"
  /\ step' = "run"
  /\ UNCHANGED <<library, todo, skipped, steady, scriptVars>>

\* exit(1) after a failed ghdl -a, ghdl -e or check of the VPI module's file,
\* the end of the simulation, or the user's.
Exit ==
  /\ step # "idle"
  /\ step' = "idle" /\ todo' = {}
  /\ UNCHANGED <<library, skipped, steady, scriptVars>>

\* The other script, or the user.
ProjectChanges ==
  /\ ScriptNext
  /\ steady' = (steady /\ source' = source /\ generated' = generated)
  /\ UNCHANGED <<library, step, todo, skipped>>

\* The user may have analysed the project by hand, as the examples do.
RunInit ==
  /\ ScriptInit
  /\ \/ library = [e \in Entity |-> None]
     \/ library = [e \in Entity |-> TextOf(e)]
  /\ step = "idle" /\ todo = {} /\ skipped = {} /\ steady = FALSE

RunNext ==
  \/ Start \/ Elaborate \/ Run \/ Exit \/ ProjectChanges
  \* The loop, in any order.
  \/ \E f \in todo : SkipFile(f)
  \/ \E f \in todo : Analyze(f)

RunSpec == RunInit /\ [][RunNext]_<<scriptVars, runVars>>
-----------------------------------------------------------------------------
RunTypeOK ==
  /\ library \in [Entity -> (Text \cup {DefaultPort, NewUsbPort}) \ {Cut}]
  /\ step \in {"idle", "analyze", "elaborated", "run"}
  /\ todo \subseteq File /\ skipped \subseteq File
  /\ steady \in BOOLEAN

\* The library outlives the files it was analysed from, and the source and the
\* file made of it hold the same entity: the one that os.listdir() gives last
\* wins.  For a name with ".vhdl", and unless a top entity file changed after
\* the start, what is simulated is a text that the project has now, however the
\* conversion was stopped, and never what an earlier run left in the library.
SimulatedIsOfTheProject ==
  TopVhdl /\ step = "run" /\ steady => library["top"] \in {source["dir"], generated}

\* "loop all VHDL files from <vhdl_directory> and analyze them": when the loop
\* is over, no file of the project was passed over.
VhdlFilesAreAnalysed == step \in {"elaborated", "run"} => skipped = {}
=============================================================================
