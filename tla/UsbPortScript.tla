--------------------------- MODULE UsbPortScript ---------------------------
(***************************************************************************)
(* usb_port_vpi_ghdl.py: converts a VHDL project from the default UsbPort  *)
(* to the one of the virtual board.  It writes two files next to the       *)
(* project's own and moves the two it replaces to the folder tmp.  It may  *)
(* be stopped after any step, by a failing call or by the user, who runs   *)
(* it again and edits the project between runs and while it runs.          *)
(*                                                                         *)
(* Of a text only its origin is kept; whether the three regular            *)
(* expressions are found in it is a property of the user's version.        *)
(***************************************************************************)
EXTENDS Naturals

CONSTANTS MaxVersion,   \* bound on the versions of the source the user writes
          Matching,     \* versions in which all three patterns are found
          VhdName       \* the top entity file's name contains ".vhd"

ASSUME ScriptAssumption ==
  /\ MaxVersion \in Nat \ {0}
  /\ Matching \subseteq 1 .. MaxVersion
  /\ VhdName \in BOOLEAN

VARIABLES
  port,      \* places of UsbPort.vhd: a subset of {"dir", "tmp"}
  source,    \* the top entity file in the project and the one in tmp
  newPort,   \* UsbPort_VPI_GHDL.vhd
  generated, \* the generated top entity file
  newData,   \* the text new_data is made from
  written,   \* versions the user has written so far
  kept,      \* those the user has not overwritten
  pc,        \* where the script is
  edited     \* history: the user changed the project since the script read it

scriptVars ==
  <<port, source, newPort, generated, newData, written, kept, pc, edited>>

None      == <<"no file">>
Cut       == <<"truncated">>     \* opened for writing and not yet written
Source(v) == <<"version", v>>    \* as the user wrote it
Made(text) == <<"converted", text>>
NewUsbPort == <<"UsbPort_VPI_GHDL">>

Version  == 1 .. MaxVersion
UserText == {Source(v) : v \in Version}
Text     == UserText \cup {None, Cut} \cup {Made(t) : t \in UserText}
Idle == pc = "idle"

\* The three patterns are found in text: the component of a converted source
\* is called UsbPort_VPI_GHDL and no longer matches.
Matches(text) == \E v \in Matching : text = Source(v)

-----------------------------------------------------------------------------
\* The checks at the start: both files must exist; the top entity is read.
ReadFiles ==
  /\ Idle /\ "dir" \in port /\ source["dir"] # None
  /\ newData' = source["dir"]
  /\ pc' = "rewrite" /\ edited' = FALSE
  /\ UNCHANGED <<port, source, newPort, generated, written, kept>>

\* The three searches; a failing one ends the script.
Rewrite ==
  /\ pc = "rewrite"
  /\ pc' = IF Matches(newData) THEN "openport" ELSE "idle"
  /\ UNCHANGED <<port, source, newPort, generated, newData, written, kept, edited>>

\* UsbPort_VPI_GHDL.vhd is truncated, then written.
OpenNewPort ==
  /\ pc = "openport"
  /\ newPort' = Cut
  /\ pc' = "writeport"
  /\ UNCHANGED <<port, source, generated, newData, written, kept, edited>>

WriteNewPort ==
  /\ pc = "writeport"
  /\ newPort' = NewUsbPort
  /\ pc' = "open"
  /\ UNCHANGED <<port, source, generated, newData, written, kept, edited>>

\* full_path: replace(".vhd", "_generated.vhd") changes nothing in a name
\* without ".vhd", and then the generated file is the top entity file itself.
Store(text) ==
  IF VhdName THEN generated' = text /\ UNCHANGED source
               ELSE source' = [source EXCEPT !["dir"] = text] /\ UNCHANGED generated

OpenGenerated ==
  /\ pc = "open"
  /\ Store(Cut)
  /\ pc' = "write"
  /\ UNCHANGED <<port, newPort, newData, written, kept, edited>>

\* Mutant: what was converted is converted again.
WriteGeneratedTwice ==
  /\ pc = "write"
  /\ Store(Made(Made(newData)))
  /\ pc' = "moveport"
  /\ UNCHANGED <<port, newPort, newData, written, kept, edited>>

WriteGenerated ==
  /\ pc = "write"
  /\ Store(Made(newData))
  /\ pc' = "moveport"
  /\ UNCHANGED <<port, newPort, newData, written, kept, edited>>

\* Mutant: the file is moved over the one an earlier run left in tmp.
MoveTopOver ==
  /\ pc = "movetop"
  /\ source' = [dir |-> None, tmp |-> source["dir"]]
  /\ pc' = "done"
  /\ UNCHANGED <<port, newPort, generated, newData, written, kept, edited>>

\* Mutant: the error of a move is passed over.
MovePortAnyway ==
  /\ pc = "moveport"
  /\ pc' = "movetop"
  /\ IF "tmp" \in port THEN UNCHANGED port ELSE port' = {"tmp"}
  /\ UNCHANGED <<source, newPort, generated, newData, written, kept, edited>>

\* shutil.move() into tmp, created if need be, raises when tmp already has a
\* file of that name.
MovePort ==
  /\ pc = "moveport"
  /\ IF "tmp" \in port THEN pc' = "idle" /\ UNCHANGED port
                       ELSE pc' = "movetop" /\ port' = {"tmp"}
  /\ UNCHANGED <<source, newPort, generated, newData, written, kept, edited>>

MoveTop ==
  /\ pc = "movetop"
  /\ IF source["tmp"] # None
       THEN pc' = "idle" /\ UNCHANGED source
       ELSE pc' = "done" /\ source' = [dir |-> None, tmp |-> source["dir"]]
  /\ UNCHANGED <<port, newPort, generated, newData, written, kept, edited>>

\* The script ended well; the user may start it again.
Finish ==
  /\ pc = "done"
  /\ pc' = "idle"
  /\ UNCHANGED <<port, source, newPort, generated, newData, written, kept, edited>>

\* A call fails, or the script is killed.
Stop ==
  /\ pc \notin {"idle", "done"}
  /\ pc' = "idle"
  /\ UNCHANGED <<port, source, newPort, generated, newData, written, kept, edited>>

-----------------------------------------------------------------------------
\* The user, at any time: writes the next version of the source, over the one
\* in the project if there is one, or takes back the one in tmp.
NewVersion ==
  /\ written < MaxVersion
  /\ source' = [source EXCEPT !["dir"] = Source(written + 1)]
  /\ written' = written + 1
  /\ kept' = {v \in kept : Source(v) # source["dir"]} \cup {written + 1}
  /\ edited' = TRUE
  /\ UNCHANGED <<port, newPort, generated, newData, pc>>

SourceBack ==
  /\ source["dir"] = None /\ source["tmp"] # None
  /\ source' = [dir |-> source["tmp"], tmp |-> None]
  /\ edited' = TRUE
  /\ UNCHANGED <<port, newPort, generated, newData, written, kept, pc>>

\* The user takes the default UsbPort back, from tmp or afresh.
PortBack ==
  /\ "dir" \notin port
  /\ port' \in {{"dir"}, {"dir", "tmp"}}
  /\ edited' = TRUE
  /\ UNCHANGED <<source, newPort, generated, newData, written, kept, pc>>

ScriptInit ==
  /\ port = {"dir"} /\ source = [dir |-> Source(1), tmp |-> None]
  /\ newPort = None /\ generated = None /\ newData = None
  /\ written = 1 /\ kept = {1} /\ pc = "idle" /\ edited = FALSE

ScriptNext ==
  \/ ReadFiles \/ Rewrite \/ OpenNewPort \/ WriteNewPort
  \/ OpenGenerated \/ WriteGenerated \/ MovePort \/ MoveTop \/ Finish
  \/ Stop \/ NewVersion \/ SourceBack \/ PortBack

ScriptSpec == ScriptInit /\ [][ScriptNext]_scriptVars
-----------------------------------------------------------------------------
ScriptTypeOK ==
  /\ port \in SUBSET {"dir", "tmp"}
  /\ source \in [{"dir", "tmp"} -> Text]
  /\ newPort \in {None, Cut, NewUsbPort} /\ edited \in BOOLEAN
  /\ generated \in Text /\ newData \in Text
  /\ written \in Version /\ kept \subseteq 1 .. written
  /\ pc \in {"idle", "rewrite", "openport", "writeport", "open", "write",
            "moveport", "movetop", "done"}

\* What the readme says of the source, "we move the current top entity file to
\* a temporary folder as well and create another file": wherever the script is
\* stopped and however often it is run, no version is lost that the user kept.
SourcesAreKept ==
  \A v \in kept : Source(v) \in {source["dir"], source["tmp"]}

\* A run that ends well leaves a whole converted project, whatever was stopped
\* before it and unless the user edited the project meanwhile: the new UsbPort,
\* the file made from the source that is now in tmp, and none of the old files.
ConvertedIsWhole ==
  pc = "done" /\ ~ edited =>
    /\ newPort = NewUsbPort /\ port = {"tmp"}
    /\ source["dir"] = None
    /\ \E v \in kept :
         source["tmp"] = Source(v) /\ generated = Made(Source(v))
=============================================================================
