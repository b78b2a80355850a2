-------------------------- MODULE RunScriptProofs --------------------------
(***************************************************************************)
(* For a top entity file whose name has ".vhd", and any number of runs,    *)
(* stops and edits: no kept version is lost, and a conversion that ends    *)
(* well leaves a whole project.                                            *)
(*                                                                         *)
(* However the two scripts and the user take turns: what is simulated is a *)
(* text of the project, and the conversion goes on as it does alone.       *)
(***************************************************************************)
EXTENDS RunScript, TLAPS

(* The converter, usb_port_vpi_ghdl.py                                     *)

\* What a run has done by the time it is at pc.
RunInv ==
  /\ pc \in {"rewrite", "openport", "writeport", "open", "write",
             "moveport", "movetop"} =>
       newData \in UserText /\ source["dir"] # None /\ (~ edited => newData = source["dir"])
  /\ pc \in {"open", "write", "moveport", "movetop"} => newPort = NewUsbPort
  /\ pc \in {"moveport", "movetop"} => generated = Made(newData)
  /\ pc = "movetop" /\ ~ edited => port = {"tmp"}

\* Nothing but the user's texts is where the sources are, each is a kept one,
\* and it is there once.
KeptInv ==
  /\ source \in [{"dir", "tmp"} -> UserText \cup {None}]
  /\ \A v \in Version, place \in {"dir", "tmp"} :
       source[place] = Source(v) => v \in kept
  /\ source["dir"] = source["tmp"] => source["dir"] = None
  /\ written \in Nat /\ kept \subseteq 1 .. written

ScriptInv == RunInv /\ KeptInv /\ SourcesAreKept /\ ConvertedIsWhole

LEMMA TextsDiffer ==
  /\ \A v, w : Source(v) = Source(w) => v = w
  /\ \A v : Source(v) # None /\ Source(v) # Cut
  BY DEF Source, None, Cut

\* What the script reads is a text of the user.
LEMMA FileRead == ScriptInv /\ ReadFiles => newData' \in UserText
  BY DEF ScriptInv, KeptInv, ReadFiles

LEMMA InitScriptInv == ScriptInit => ScriptInv
  BY TextsDiffer, ScriptAssumption
  DEF ScriptInit, ScriptInv, RunInv, KeptInv, SourcesAreKept, ConvertedIsWhole,
      UserText, Version
-----------------------------------------------------------------------------
\* The steps of the script up to the moves leave the sources where they are.
LEMMA ScriptKeepsSources ==
  ASSUME VhdName, ScriptInv,
         ReadFiles \/ Rewrite \/ OpenNewPort \/ WriteNewPort \/ OpenGenerated
           \/ WriteGenerated \/ MovePort \/ Finish \/ Stop \/ PortBack
           \/ UNCHANGED scriptVars
  PROVE  ScriptInv'
<1>1. UNCHANGED <<source, written, kept>>
  BY DEF ReadFiles, Rewrite, OpenNewPort, WriteNewPort, OpenGenerated,
         WriteGenerated, MovePort, Finish, Stop, PortBack, Store, scriptVars
<1>2. KeptInv' /\ SourcesAreKept'
  BY <1>1 DEF ScriptInv, KeptInv, SourcesAreKept
<1>3. ConvertedIsWhole'
  <2>1. CASE pc' # "done"
    BY <2>1 DEF ConvertedIsWhole
  <2>2. CASE pc' = "done"
    BY <2>2, <1>1
    DEF ReadFiles, Rewrite, OpenNewPort, WriteNewPort, OpenGenerated,
        WriteGenerated, MovePort, Finish, Stop, PortBack, Idle, scriptVars,
        ScriptInv, ConvertedIsWhole
  <2> QED  BY <2>1, <2>2
<1>4. RunInv'
  BY <1>1, FileRead
  DEF ReadFiles, Rewrite, OpenNewPort, WriteNewPort, OpenGenerated,
      WriteGenerated, MovePort, Finish, Stop, PortBack, Idle, scriptVars,
      ScriptInv, RunInv, Store
<1> QED
  BY <1>2, <1>3, <1>4 DEF ScriptInv

LEMMA MoveTopKeeps == ScriptInv /\ MoveTop => ScriptInv'
<1> SUFFICES ASSUME ScriptInv, MoveTop PROVE ScriptInv'
  OBVIOUS
<1>1. CASE source["tmp"] # None
  BY <1>1 DEF MoveTop, ScriptInv, RunInv, KeptInv, SourcesAreKept, ConvertedIsWhole
<1>2. CASE source["tmp"] = None
  <2>1. source' = [dir |-> None, tmp |-> source["dir"]] /\ pc' = "done"
    BY <1>2 DEF MoveTop
  <2>2. PICK v \in Version : source["dir"] = Source(v)
    BY DEF MoveTop, ScriptInv, RunInv, KeptInv, UserText
  <2>3. /\ v \in kept /\ newPort = NewUsbPort
        /\ ~ edited => generated = Made(Source(v)) /\ port = {"tmp"}
    BY <2>2 DEF MoveTop, ScriptInv, RunInv, KeptInv
  <2>4. UNCHANGED <<port, newPort, generated, written, kept, edited>>
    BY DEF MoveTop
  <2>5. ConvertedIsWhole'
    BY <2>1, <2>2, <2>3, <2>4 DEF ConvertedIsWhole
  <2>6. SourcesAreKept'
    BY <1>2, <2>1, <2>4, TextsDiffer DEF ScriptInv, SourcesAreKept
  <2>7. KeptInv'
    BY <2>1, <2>4, TextsDiffer DEF ScriptInv, KeptInv
  <2>8. RunInv'
    BY <2>1 DEF RunInv
  <2> QED  BY <2>5, <2>6, <2>7, <2>8 DEF ScriptInv
<1> QED
  BY <1>1, <1>2

LEMMA UserKeeps == ScriptInv /\ (NewVersion \/ SourceBack) => ScriptInv'
<1> SUFFICES ASSUME ScriptInv, NewVersion \/ SourceBack PROVE ScriptInv'
  OBVIOUS
<1>1. RunInv' /\ ConvertedIsWhole'
  <2>1. edited' /\ UNCHANGED <<port, newPort, generated, newData, pc>>
    BY DEF NewVersion, SourceBack
  <2>2. source'["dir"] # None
    BY TextsDiffer DEF NewVersion, SourceBack, ScriptInv, KeptInv
  <2> QED  BY <2>1, <2>2 DEF ScriptInv, RunInv, ConvertedIsWhole
<1>2. CASE NewVersion
  <2>1. written \in Nat /\ written + 1 \in Version
    BY <1>2, ScriptAssumption DEF NewVersion, ScriptInv, KeptInv, Version
  <2>2. /\ source' = [source EXCEPT !["dir"] = Source(written + 1)]
        /\ kept' = {v \in kept : Source(v) # source["dir"]} \cup {written + 1}
        /\ written' = written + 1
    BY <1>2 DEF NewVersion
  <2>3. /\ source' \in [{"dir", "tmp"} -> UserText \cup {None}]
        /\ source'["dir"] = Source(written + 1) /\ source'["tmp"] = source["tmp"]
    BY <2>1, <2>2 DEF ScriptInv, KeptInv, UserText
  <2>4. kept \subseteq 1 .. written /\ kept' \subseteq 1 .. written'
    <3>1. kept \subseteq 1 .. written
      BY DEF ScriptInv, KeptInv
    <3>2. kept' \subseteq kept \cup {written + 1}
      BY <2>2
    <3>3. 1 .. written \subseteq 1 .. (written + 1) /\ written + 1 \in 1 .. (written + 1)
      BY <2>1
    <3> QED  BY <2>2, <3>1, <3>2, <3>3
  <2>5. source["tmp"] # Source(written + 1)
    BY <2>1, <2>4 DEF ScriptInv, KeptInv
  <2>6. \A v \in Version : source["tmp"] = Source(v) => v \in kept'
    BY <2>2, TextsDiffer DEF ScriptInv, KeptInv
  <2>7. \A v \in Version : Source(written + 1) = Source(v) => v \in kept'
    BY <2>2, TextsDiffer
  <2>8. KeptInv'
    BY <2>1, <2>2, <2>3, <2>4, <2>5, <2>6, <2>7 DEF KeptInv
  <2>9. SourcesAreKept'
    BY <2>2, <2>3 DEF ScriptInv, SourcesAreKept
  <2> QED  BY <1>1, <2>8, <2>9 DEF ScriptInv
<1>3. CASE SourceBack
  <2>1. /\ source' = [dir |-> source["tmp"], tmp |-> None]
        /\ source["dir"] = None /\ source["tmp"] # None
        /\ UNCHANGED <<written, kept>>
    BY <1>3 DEF SourceBack
  <2>2. KeptInv'
    BY <2>1, TextsDiffer DEF ScriptInv, KeptInv
  <2>3. SourcesAreKept'
    BY <2>1, TextsDiffer DEF ScriptInv, SourcesAreKept
  <2> QED  BY <1>1, <2>2, <2>3 DEF ScriptInv
<1> QED
  BY <1>2, <1>3
LEMMA ScriptTypeStep ==
  ASSUME VhdName, ScriptInv, ScriptTypeOK, [ScriptNext]_scriptVars
  PROVE  ScriptTypeOK'
<1> USE DEF ScriptTypeOK
<1>0. /\ None \in Text /\ Cut \in Text /\ UserText \subseteq Text
      /\ \A t \in UserText : Made(t) \in Text
  BY DEF Text
<1>1. pc # "idle" /\ pc # "done" => newData \in UserText
  BY DEF ScriptInv, RunInv, KeptInv
<1>2. CASE ReadFiles \/ Rewrite \/ OpenNewPort \/ WriteNewPort \/ Finish \/ Stop
  BY <1>2 DEF ReadFiles, Rewrite, OpenNewPort, WriteNewPort, Finish, Stop
<1>3. CASE OpenGenerated \/ WriteGenerated
  BY <1>0, <1>1, <1>3 DEF OpenGenerated, WriteGenerated, Store
<1>4. CASE MovePort \/ PortBack
  BY <1>4 DEF MovePort, PortBack
<1>5. CASE MoveTop \/ SourceBack
  <2>1. \A a, b \in Text : [dir |-> a, tmp |-> b] \in [{"dir", "tmp"} -> Text]
    OBVIOUS
  <2>2. source["dir"] \in Text /\ source["tmp"] \in Text
    OBVIOUS
  <2>3. source' \in [{"dir", "tmp"} -> Text]
    BY <1>0, <1>5, <2>1, <2>2 DEF MoveTop, SourceBack
  <2> QED  BY <1>5, <2>3 DEF MoveTop, SourceBack
<1>6. CASE NewVersion
  <2>1. written + 1 \in Version
    BY <1>6, ScriptAssumption DEF NewVersion, Version
  <2>2. Source(written + 1) \in Text
    BY <2>1 DEF Text, UserText
  <2>3. kept' \subseteq 1 .. written'
    <3>1. kept \subseteq 1 .. written /\ written \in Nat
      BY DEF ScriptInv, KeptInv
    <3>2. kept' \subseteq kept \cup {written + 1} /\ written' = written + 1
      BY <1>6 DEF NewVersion
    <3>3. 1 .. written \subseteq 1 .. (written + 1) /\ written + 1 \in 1 .. (written + 1)
      BY <3>1
    <3> QED  BY <3>1, <3>2, <3>3
  <2> QED  BY <1>6, <2>1, <2>2, <2>3 DEF NewVersion
<1>7. CASE UNCHANGED scriptVars
  BY <1>7 DEF scriptVars
<1> QED
  BY <1>2, <1>3, <1>4, <1>5, <1>6, <1>7 DEF ScriptNext
-----------------------------------------------------------------------------
\* The inductive invariant of the script, its restarts and the user's edits.
THEOREM ScriptInvariant ==
  ASSUME VhdName PROVE ScriptSpec => []ScriptInv
<1>1. ScriptInv /\ [ScriptNext]_scriptVars => ScriptInv'
  BY ScriptKeepsSources, MoveTopKeeps, UserKeeps DEF ScriptNext
<1> QED
  BY InitScriptInv, <1>1, PTL DEF ScriptSpec

\* The files, places and versions keep their types.
THEOREM ScriptTypeCorrect ==
  ASSUME VhdName PROVE ScriptSpec => []ScriptTypeOK
<1>1. ScriptInit => ScriptTypeOK
  <2> SUFFICES ASSUME ScriptInit PROVE ScriptTypeOK
    OBVIOUS
  <2>1. 1 \in Version /\ 1 \in 1 .. 1
    BY ScriptAssumption DEF Version
  <2>2. Source(1) \in Text /\ None \in Text
    BY <2>1 DEF Text, UserText
  <2>3. [dir |-> Source(1), tmp |-> None] \in [{"dir", "tmp"} -> Text]
    BY <2>2
  <2> QED  BY <2>1, <2>2, <2>3 DEF ScriptInit, ScriptTypeOK
<1>2. ScriptInv /\ ScriptTypeOK /\ [ScriptNext]_scriptVars => ScriptTypeOK'
  BY ScriptTypeStep
<1> QED
  BY <1>1, <1>2, ScriptInvariant, PTL DEF ScriptSpec

\* The script never loses a source the user kept, whenever it is stopped.
THEOREM SourcesKept ==
  ASSUME VhdName PROVE ScriptSpec => []SourcesAreKept
<1>1. ScriptInv => SourcesAreKept
  BY DEF ScriptInv
<1> QED
  BY ScriptInvariant, <1>1, PTL

\* A script that ends well leaves the converted project and nothing half done.
THEOREM ConvertedWhole ==
  ASSUME VhdName PROVE ScriptSpec => []ConvertedIsWhole
<1>1. ScriptInv => ConvertedIsWhole
  BY DEF ScriptInv
<1> QED
  BY ScriptInvariant, <1>1, PTL
-----------------------------------------------------------------------------
(* virtual_board.py beside it                                              *)

\* When the top entity's file is gone, the one made of it is whole.
MadeInv == source["dir"] = None => \E v \in Version : generated = Made(Source(v))

\* The loop has yet to come to a text of the project, or has analysed one.
LoopInv ==
  /\ library \in [Entity -> (Text \cup {DefaultPort, NewUsbPort}) \ {Cut}]
  /\ TopVhdl /\ steady =>
       /\ step = "analyze" =>
            \/ source["dir"] # None /\ "top" \in todo
            \/ source["dir"] = None /\ "generated" \in todo
            \/ library["top"] \in {source["dir"], generated}
       /\ step \in {"elaborated", "run"} => library["top"] \in {source["dir"], generated}

ProjectInv == ScriptInv /\ ScriptTypeOK /\ MadeInv /\ LoopInv

LEMMA MadeIsNoOther == \A t : Made(t) # None /\ Made(t) # Cut
  BY DEF Made, None, Cut

LEMMA MadeStep == VhdName /\ ScriptInv /\ MadeInv /\ [ScriptNext]_scriptVars => MadeInv'
<1> SUFFICES ASSUME VhdName, ScriptInv, MadeInv, [ScriptNext]_scriptVars PROVE MadeInv'
  OBVIOUS
<1>1. CASE UNCHANGED <<source, generated>>
  BY <1>1 DEF MadeInv
<1>2. CASE OpenGenerated \/ WriteGenerated
  <2>1. source["dir"] # None /\ source' = source
    BY <1>2 DEF OpenGenerated, WriteGenerated, Store, ScriptInv, RunInv
  <2> QED  BY <2>1 DEF MadeInv
<1>3. CASE MoveTop
  <2>1. generated = Made(newData) /\ newData \in UserText /\ generated' = generated
    BY <1>3 DEF MoveTop, ScriptInv, RunInv
  <2>2. PICK v \in Version : newData = Source(v)
    BY <2>1 DEF UserText
  <2> QED  BY <2>1, <2>2 DEF MadeInv
<1>4. CASE NewVersion \/ SourceBack
  <2>1. source'["dir"] # None
    BY <1>4, TextsDiffer DEF NewVersion, SourceBack, ScriptInv, KeptInv
  <2> QED  BY <2>1 DEF MadeInv
<1> QED
  BY <1>1, <1>2, <1>3, <1>4
  DEF ScriptNext, ReadFiles, Rewrite, OpenNewPort, WriteNewPort, MovePort, Finish,
      Stop, PortBack, scriptVars

LEMMA TopTexts ==
  /\ TextOf("top") = source["dir"] /\ TextOf("generated") = generated
  /\ TextOf("newPort") = newPort
  /\ TextOf("UsbPort") = IF "dir" \in port THEN DefaultPort ELSE None
  /\ EntityOf("top") = "top" /\ EntityOf("generated") = "top"
  BY DEF TextOf, EntityOf

LEMMA TextTypes ==
  ASSUME ScriptTypeOK, NEW f \in File
  PROVE  /\ TextOf(f) \in Text \cup {DefaultPort, NewUsbPort}
         /\ EntityOf(f) \in Entity /\ "top" \in Entity
<1>1. EntityOf(f) \in Entity /\ "top" \in Entity
  BY DEF File, Entity, EntityOf
<1>2. f = "UsbPort" \/ f = "top" \/ f = "newPort" \/ f = "generated"
  BY DEF File
<1>3. None \in Text /\ Cut \in Text
  BY DEF Text
<1>4. newPort \in {None, Cut, NewUsbPort} /\ generated \in Text /\ source["dir"] \in Text
  BY DEF ScriptTypeOK
<1> QED  BY <1>1, <1>2, <1>3, <1>4, TopTexts

LEMMA AnalyzeStep ==
  ASSUME ProjectInv, NEW f \in todo, Analyze(f)
  PROVE  LoopInv'
<1>1. /\ UNCHANGED <<source, generated, steady, step>> /\ step = "analyze"
      /\ todo' = todo \ {f} /\ IsFile(f) /\ f \in {"top", "generated"}
      /\ library' = IF TextOf(f) = Cut THEN library
                    ELSE [library EXCEPT ![EntityOf(f)] = TextOf(f)]
  BY DEF Analyze, IsAnalysed, scriptVars
<1>2. /\ TextOf(f) \in Text \cup {DefaultPort, NewUsbPort}
      /\ EntityOf(f) \in Entity /\ "top" \in Entity
  BY <1>1, TextTypes DEF ProjectInv, File
<1>3. library \in [Entity -> (Text \cup {DefaultPort, NewUsbPort}) \ {Cut}]
  BY DEF ProjectInv, LoopInv
<1>4. library' \in [Entity -> (Text \cup {DefaultPort, NewUsbPort}) \ {Cut}]
  BY <1>1, <1>2, <1>3
<1>5. source["dir"] # Cut
  <2>1. source["dir"] \in UserText \cup {None} /\ None # Cut
    BY DEF ProjectInv, ScriptInv, KeptInv, None, Cut
  <2> QED  BY <2>1, TextsDiffer DEF UserText
<1>6. CASE TextOf(f) # Cut
  <2>1. library'["top"] = TextOf(f)
    BY <1>1, <1>2, <1>3, <1>6, TopTexts
  <2>2. library'["top"] \in {source["dir"], generated}
    BY <1>1, <2>1, TopTexts
  <2> QED  BY <1>1, <1>4, <2>2 DEF LoopInv
<1>7. CASE TextOf(f) = Cut
  <2>1. f = "generated" /\ generated = Cut /\ library' = library
    BY <1>1, <1>5, <1>7, TopTexts
  <2>2. source["dir"] # None
    BY <2>1, MadeIsNoOther DEF ProjectInv, MadeInv
  <2>3. "top" \in todo => "top" \in todo'
    BY <1>1, <2>1
  <2> QED  BY <1>1, <1>4, <2>1, <2>2, <2>3 DEF ProjectInv, LoopInv
<1> QED  BY <1>6, <1>7

LEMMA LoopStep == ProjectInv /\ [RunNext]_<<scriptVars, runVars>> => LoopInv'
<1> SUFFICES ASSUME ProjectInv, [RunNext]_<<scriptVars, runVars>> PROVE LoopInv'
  OBVIOUS
<1>0. source["dir"] = None => generated # None
  BY MadeIsNoOther DEF ProjectInv, MadeInv
<1>1. CASE Start
  <2>1. UNCHANGED <<source, generated, library>> /\ todo' = {f \in File : IsFile(f)}
        /\ step' = "analyze"
    BY <1>1 DEF Start, scriptVars
  <2>2. /\ source["dir"] # None => "top" \in todo'
        /\ source["dir"] = None => "generated" \in todo'
    BY <1>0, <2>1, TopTexts DEF File, IsFile
  <2> QED  BY <2>1, <2>2 DEF ProjectInv, LoopInv
<1>2. ASSUME NEW f \in todo, SkipFile(f) PROVE LoopInv'
  <2>1. /\ UNCHANGED <<source, generated, library, steady, step>>
        /\ todo' = todo \ {f} /\ ~ (IsFile(f) /\ IsAnalysed(f))
    BY <1>2 DEF SkipFile, scriptVars
  <2>2. TopVhdl => /\ source["dir"] # None => f # "top"
                   /\ source["dir"] = None => f # "generated"
    BY <1>0, <2>1, TopTexts DEF IsFile, IsAnalysed
  <2> QED  BY <2>1, <2>2 DEF ProjectInv, LoopInv
<1>3. ASSUME NEW f \in todo, Analyze(f) PROVE LoopInv'
  BY <1>3, AnalyzeStep
<1>4. CASE Elaborate \/ Run \/ Exit
  <2>1. UNCHANGED <<source, generated, library, steady>>
    BY <1>4 DEF Elaborate, Run, Exit, scriptVars
  <2>2. \/ step' = "elaborated" /\ step = "analyze" /\ todo = {}
        \/ step' = "run" /\ step = "elaborated"
        \/ step' = "idle"
    BY <1>4 DEF Elaborate, Run, Exit
  <2> QED  BY <2>1, <2>2 DEF ProjectInv, LoopInv
<1>5. CASE ProjectChanges
  <2>1. /\ UNCHANGED <<library, step, todo>>
        /\ steady' => steady /\ UNCHANGED <<source, generated>>
    BY <1>5 DEF ProjectChanges
  <2> QED  BY <2>1 DEF ProjectInv, LoopInv
<1>6. CASE UNCHANGED <<scriptVars, runVars>>
  BY <1>6 DEF scriptVars, runVars, ProjectInv, LoopInv
<1> QED
  BY <1>1, <1>2, <1>3, <1>4, <1>5, <1>6 DEF RunNext

\* virtual_board.py changes no file of the project.
LEMMA RunRefinesScript == [RunNext]_<<scriptVars, runVars>> => [ScriptNext]_scriptVars
  BY DEF RunNext, Start, SkipFile, Analyze, Elaborate, Run, Exit, ProjectChanges
-----------------------------------------------------------------------------
\* Whatever virtual_board.py does beside it, the conversion takes only the steps
\* it takes alone: what is proved of it holds in the whole project.
THEOREM RunImplementsScript == RunSpec => ScriptSpec
<1>1. RunInit => ScriptInit
  BY DEF RunInit
<1> QED
  BY <1>1, RunRefinesScript, PTL DEF RunSpec, ScriptSpec

LEMMA InitLibrary ==
  ASSUME RunInit
  PROVE  library \in [Entity -> (Text \cup {DefaultPort, NewUsbPort}) \ {Cut}]
<1>1. None # Cut /\ DefaultPort # Cut /\ \A v : Source(v) # Cut
  BY DEF None, Cut, DefaultPort, Source
<1>2. 1 \in Version
  BY ScriptAssumption DEF Version
<1>3. None \in Text /\ Source(1) \in Text
  BY <1>2 DEF Text, UserText
<1>4. CASE library = [e \in Entity |-> None]
  BY <1>1, <1>3, <1>4
<1>5. CASE library = [e \in Entity |-> TextOf(e)]
  <2>1. port = {"dir"} /\ source["dir"] = Source(1) /\ newPort = None
    BY DEF RunInit, ScriptInit
  <2>2. \A e \in Entity : TextOf(e) \in {DefaultPort, Source(1), None}
    <3>1. TextOf("UsbPort") = DefaultPort /\ TextOf("newPort") = None
      BY <2>1 DEF TextOf
    <3> QED  BY <2>1, <3>1, TopTexts DEF Entity, File
  <2> QED  BY <1>1, <1>3, <1>5, <2>2
<1> QED  BY <1>4, <1>5 DEF RunInit

LEMMA ProjectInvariant == ASSUME VhdName PROVE RunSpec => []ProjectInv
<1>1. RunInit => ScriptInv /\ MadeInv /\ LoopInv
  <2> SUFFICES ASSUME RunInit PROVE MadeInv /\ LoopInv
    BY InitScriptInv DEF RunInit
  <2>1. MadeInv /\ step = "idle"
    BY TextsDiffer DEF RunInit, ScriptInit, MadeInv
  <2> QED  BY <2>1, InitLibrary DEF LoopInv
<1>2. ProjectInv /\ [RunNext]_<<scriptVars, runVars>> => MadeInv' /\ LoopInv'
  BY LoopStep, RunRefinesScript, MadeStep DEF ProjectInv
<1>3. RunSpec => []ScriptInv /\ []ScriptTypeOK
  BY RunImplementsScript, ScriptInvariant, ScriptTypeCorrect, PTL
<1>4. ScriptInv /\ ScriptTypeOK /\ MadeInv /\ LoopInv <=> ProjectInv
  BY DEF ProjectInv
<1> QED
  BY <1>1, <1>2, <1>3, <1>4, PTL DEF RunSpec

\* For any number of versions, runs, stops and edits, and whatever the library
\* held: a simulation is of a text that the project has, unless a top entity
\* file changed after virtual_board.py was started.
THEOREM SimulatedOfTheProject ==
  ASSUME VhdName PROVE RunSpec => []SimulatedIsOfTheProject
<1>1. ProjectInv => SimulatedIsOfTheProject
  BY DEF ProjectInv, LoopInv, SimulatedIsOfTheProject
<1> QED
  BY <1>1, ProjectInvariant, PTL

\* The library, the loop's files and virtual_board.py's place keep their types.
THEOREM RunTypeCorrect == ASSUME VhdName PROVE RunSpec => []RunTypeOK
<1> DEFINE PlacesOK == /\ step \in {"idle", "analyze", "elaborated", "run"}
                       /\ todo \subseteq File /\ skipped \subseteq File
                       /\ steady \in BOOLEAN
<1>1. RunInit => PlacesOK
  BY DEF RunInit
<1>2. PlacesOK /\ [RunNext]_<<scriptVars, runVars>> => PlacesOK'
  <2> SUFFICES ASSUME PlacesOK, [RunNext]_<<scriptVars, runVars>>
               PROVE  PlacesOK'
    OBVIOUS
  <2>1. CASE Start
    BY <2>1 DEF Start, File
  <2>2. ASSUME NEW f \in todo, SkipFile(f) PROVE PlacesOK'
    BY <2>2 DEF SkipFile
  <2>3. ASSUME NEW f \in todo, Analyze(f) PROVE PlacesOK'
    BY <2>3 DEF Analyze
  <2>4. CASE Elaborate \/ Run \/ Exit
    BY <2>4 DEF Elaborate, Run, Exit
  <2>5. CASE ProjectChanges
    BY <2>5 DEF ProjectChanges
  <2>6. CASE UNCHANGED <<scriptVars, runVars>>
    BY <2>6 DEF runVars
  <2> QED
    BY <2>1, <2>2, <2>3, <2>4, <2>5, <2>6 DEF RunNext
<1>3. PlacesOK /\ ProjectInv => RunTypeOK
  BY DEF RunTypeOK, ProjectInv, LoopInv
<1> QED
  BY <1>1, <1>2, <1>3, ProjectInvariant, PTL DEF RunSpec
=============================================================================
