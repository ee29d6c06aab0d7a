-------------------------- MODULE OptForwardEngine --------------------------
(***************************************************************************)
(* AIPUOptForwardEngine (relay/backend/contrib/aipu_compass/engine/        *)
(* opt_forward_engine.py) builds each Compass function of a Relay model    *)
(* for the AIPU Optimizer in three handlers:                               *)
(*   pre_build          Relay -> Compass IR file, optionally simplified by *)
(*                      aipugsim and quantized by aipuopt, read back and   *)
(*                      embedded in the function as attributes;            *)
(*   create_func_data   the attribute text is unescaped, written back to   *)
(*                      disk and loaded by an OptForward executor;         *)
(*   run                the executor runs, quantized or float.             *)
(*                                                                         *)
(* An IR is a record: `stage`, the tools applied to the Compass IR the     *)
(* code generator produced (<<>>, <<"gsim">>, <<"opt">>, ...), and `txt`,  *)
(* the characters of its text form.  A tool call is check_call_aipu_tool   *)
(* taken as one step: module AipuTool proves that it returns exactly when  *)
(* the tool succeeded.                                                     *)
(***************************************************************************)
EXTENDS Naturals, Sequences, SequencesExt, FiniteSets

CONSTANTS
  Funcs,        \* the Compass functions of the model (global symbols)
  GsimFuncs,    \* those whose config sets use_gsim_float
  QuantModes,   \* the values of is_quant the engine may be built with
  DumpOn,       \* AipuCompassConfig runtime["dump"] == "true"
  Texts,        \* IR texts the code generator may produce
  ToolMayFail,  \* whether aipugsim / aipuopt may report errors
  MaxRuns,      \* bound on the runs of one function
  NoFile, NoExec

ASSUME EngineAssumption ==
  /\ GsimFuncs \subseteq Funcs
  /\ QuantModes \subseteq BOOLEAN /\ DumpOn \in BOOLEAN /\ ToolMayFail \in BOOLEAN
  /\ MaxRuns \in Nat
  \* gen2file writes a Compass IR text, never an empty one (it opens with
  \* the model header); the empty sequence stands for "not generated".
  /\ Texts \subseteq Seq(STRING) \ {<<>>}

-----------------------------------------------------------------------------
(* Text.  A character of an IR text is "g" (any printable ASCII character  *)
(* that is not special below), "n", "x", a hex digit, "\\" (a backslash),  *)
(* "NL" (a newline) or "U+E9" (a non-ASCII character, 2 bytes in UTF-8). *)
(* Bytes are the ASCII characters themselves and "0xC3", "0xA9".           *)

Err == "UnicodeDecodeError"

\* str.encode("utf-8") of one character.
Utf8(c) == IF c = "U+E9" THEN <<"0xC3", "0xA9">> ELSE <<c>>

\* A byte read as a Latin-1 character (what unicode_escape does with a
\* byte that is not part of an escape).
Latin1(b) == CASE b = "0xC3" -> "U+C3" [] b = "0xA9" -> "U+A9" [] OTHER -> b

\* The hex digits of a byte and back.
HexOf(b) == IF b = "0xC3" THEN <<"C", "3">> ELSE <<"A", "9">>
HexPairs == {<<"C", "3">>, <<"A", "9">>}
ByteOfHex(h) == IF h = <<"C", "3">> THEN "0xC3" ELSE "0xA9"

EncodeUtf8(s) == FlattenSeq([i \in DOMAIN s |-> Utf8(s[i])])

(* The Relay text printer writes a string attribute byte by byte:          *)
(* printable ASCII as is, a backslash as \\, a newline as \n and any other *)
(* byte as \xHH; the Relay parser then keeps the escapes as they are (the  *)
(* bug the comment at line 92 works around).                              *)
EscapeByte(b) ==
  CASE b = "\\" -> <<"\\", "\\">>
    [] b = "NL" -> <<"\\", "n">>
    [] b \in {"0xC3", "0xA9"} -> <<"\\", "x">> \o HexOf(b)
    [] OTHER -> <<b>>

RelayRoundTrip(s) ==
  LET bs == EncodeUtf8(s) IN FlattenSeq([i \in DOMAIN bs |-> EscapeByte(bs[i])])

(* bytes.decode("unicode_escape") (line 93): \\, \n and \xHH are escapes, *)
(* an unknown escape is kept with its backslash, a backslash at the end or *)
(* a \x without two hex digits raises; any other byte is read as Latin-1.  *)
UnicodeEscape(bs) ==
  LET \* dec[i]: the decoding of the bytes from position i on.
      dec[i \in 1..(Len(bs) + 1)] ==
        IF i > Len(bs) THEN <<>>
        ELSE IF bs[i] # "\\" THEN <<Latin1(bs[i])>> \o dec[i + 1]
        ELSE IF i = Len(bs) THEN <<Err>>
        ELSE CASE bs[i + 1] = "\\" -> <<"\\">> \o dec[i + 2]
               [] bs[i + 1] = "n" -> <<"NL">> \o dec[i + 2]
               [] bs[i + 1] = "x" ->
                    IF i + 3 <= Len(bs) /\ <<bs[i + 2], bs[i + 3]>> \in HexPairs
                    THEN <<Latin1(ByteOfHex(<<bs[i + 2], bs[i + 3]>>))>> \o dec[i + 4]
                    ELSE <<Err>>
               [] OTHER -> <<"\\", Latin1(bs[i + 1])>> \o dec[i + 2]
  IN  dec[1]

\* Mutant: the attribute taken as it is, without the unescaping.
UnescapeDropped(s) == EncodeUtf8(s)

\* Line 93: .encode("utf-8").decode("unicode_escape") of the attribute.
Unescape(s) == UnicodeEscape(EncodeUtf8(s))

-----------------------------------------------------------------------------
\* The files of one function's config: compass_ir_path, gsim_float_ir_path
\* and quant_compass_ir_path (each a .txt/.bin pair, taken together).
Kinds == {"compass", "gsim_float", "quant"}

\* What a file may hold before the build: nothing, or an earlier build's IR.
StaleIR == [stage |-> <<"old">>, txt |-> <<>>]

Phases == {"new", "prebuilt", "created", "failed"}

VARIABLES
  isQuant,   \* the engine's _is_quant, set by __init__ (lines 17-19)
  disk,      \* disk[f][k]: content of file k of function f
  phase,     \* phase[f]: how far f got
  genTxt,    \* genTxt[f]: the text the code generator produced (history)
  attr,      \* attr[f]: "compass.pre_build.ir_txt"/"ir_bin" as an IR
  exec,      \* exec[f]: the IR the OptForward executor loaded
  forwards,  \* forwards[f]: the forward calls made, "quantized" or "float"
  dumped     \* dumped[f]: input/output .bin files were dumped

vars == <<isQuant, disk, phase, genTxt, attr, exec, forwards, dumped>>

Init ==
  /\ isQuant \in QuantModes
  /\ disk \in [Funcs -> [Kinds -> {NoFile, StaleIR}]]
  /\ phase = [f \in Funcs |-> "new"]
  /\ genTxt = [f \in Funcs |-> <<>>]
  /\ attr = [f \in Funcs |-> NoFile]
  /\ exec = [f \in Funcs |-> NoExec]
  /\ forwards = [f \in Funcs |-> <<>>]
  /\ dumped = [f \in Funcs |-> FALSE]

-----------------------------------------------------------------------------
(* A tool reads its input through the symlink relative_symlink_in_dir made *)
(* (so the file's content at the time of the call) and writes its output   *)
(* file; it fails if the input is missing, or may report errors.           *)
ToolOk(in) == in # NoFile
Apply(in, tool) == [in EXCEPT !.stage = Append(@, tool)]

\* Mutant: aipuopt always reads the code generator's IR.
FloatIRPathCompass(gsim) == "compass"
\* Line 60: float_ir_path, the input of aipuopt.
FloatIRPath(gsim) == IF gsim THEN "gsim_float" ELSE "compass"

\* Lines 48, 55 and 63: the IR read back at the end of pre_build.
IrPath(gsim) ==
  IF isQuant THEN "quant" ELSE IF gsim THEN "gsim_float" ELSE "compass"

(* pre_build (lines 42-78), the whole handler.  CodeGenAipuCompass writes  *)
(* the Compass IR; if use_gsim_float, aipugsim turns it into the gsim      *)
(* float IR; if _is_quant, aipuopt quantizes the float IR (the gsim one if *)
(* gsim ran); the last IR is read back into the attributes.  A failing     *)
(* tool makes check_call_aipu_tool raise, which aborts pre_build.          *)
PreBuild(f) ==
  LET gsim == f \in GsimFuncs IN
  /\ phase[f] = "new"
  /\ \E t \in Texts, gsimFails, optFails \in IF ToolMayFail THEN BOOLEAN ELSE {FALSE} :
      LET d0 == [disk[f] EXCEPT !["compass"] = [stage |-> <<>>, txt |-> t]]
          gsimIn == d0["compass"]
          gsimUp == ~gsim \/ (ToolOk(gsimIn) /\ ~gsimFails)
          d1 == IF gsim THEN [d0 EXCEPT !["gsim_float"] = Apply(gsimIn, "gsim")]
                        ELSE d0
          floatIn == d1[FloatIRPath(gsim)]
          optUp == ~isQuant \/ (ToolOk(floatIn) /\ ~optFails)
          d2 == IF isQuant THEN [d1 EXCEPT !["quant"] = Apply(floatIn, "opt")]
                           ELSE d1
          irPath == IrPath(gsim)
      IN /\ genTxt' = [genTxt EXCEPT ![f] = t]
         /\ \/ /\ gsimUp /\ optUp
               /\ disk' = [disk EXCEPT ![f] = d2]
               /\ attr' = [attr EXCEPT ![f] = d2[irPath]]
               /\ phase' = [phase EXCEPT ![f] = "prebuilt"]
            \/ /\ ~gsimUp
               /\ disk' = [disk EXCEPT ![f] = d0]
               /\ phase' = [phase EXCEPT ![f] = "failed"]
               /\ UNCHANGED attr
            \/ /\ gsimUp /\ ~optUp
               /\ disk' = [disk EXCEPT ![f] = d1]
               /\ phase' = [phase EXCEPT ![f] = "failed"]
               /\ UNCHANGED attr
  /\ UNCHANGED <<isQuant, exec, forwards, dumped>>

(* create_func_data (lines 80-103): the attribute text has gone through    *)
(* the Relay printer and parser; it is unescaped, written to the quantized *)
(* or float Compass IR path with the binary part, and OptForward loads     *)
(* those files.  An undecodable text raises UnicodeDecodeError.            *)
\* Mutant: OptForward built on quant_compass_ir_path (line 101) whatever
\* the mode, while the text was written to the path lines 87-89 chose.
CreateFuncDataQuantPath(f) ==
  LET txt == Unescape(RelayRoundTrip(attr[f].txt))
      kind == IF isQuant THEN "quant" ELSE "compass"
      ir == [stage |-> attr[f].stage, txt |-> txt]
  IN /\ phase[f] = "prebuilt"
     /\ \/ /\ Err \notin ToSet(txt)
           /\ disk' = [disk EXCEPT ![f][kind] = ir]
           /\ exec' = [exec EXCEPT ![f] = disk'[f]["quant"]]
           /\ phase' = [phase EXCEPT ![f] = "created"]
        \/ /\ Err \in ToSet(txt)
           /\ phase' = [phase EXCEPT ![f] = "failed"]
           /\ UNCHANGED <<disk, exec>>
     /\ UNCHANGED <<isQuant, genTxt, attr, forwards, dumped>>

CreateFuncData(f) ==
  LET txt == Unescape(RelayRoundTrip(attr[f].txt))
      kind == IF isQuant THEN "quant" ELSE "compass"
      ir == [stage |-> attr[f].stage, txt |-> txt]
  IN /\ phase[f] = "prebuilt"
     /\ \/ /\ Err \notin ToSet(txt)
           /\ disk' = [disk EXCEPT ![f][kind] = ir]
           /\ exec' = [exec EXCEPT ![f] = disk'[f][kind]]
           /\ phase' = [phase EXCEPT ![f] = "created"]
        \/ /\ Err \in ToSet(txt)
           /\ phase' = [phase EXCEPT ![f] = "failed"]
           /\ UNCHANGED <<disk, exec>>
     /\ UNCHANGED <<isQuant, genTxt, attr, forwards, dumped>>

\* Mutant: the two branches of line 25 swapped.
RunSwapped(f) ==
  /\ phase[f] = "created"
  /\ Len(forwards[f]) < MaxRuns
  /\ forwards' = [forwards EXCEPT ![f] =
                    Append(@, IF isQuant THEN "float" ELSE "quantized")]
  /\ UNCHANGED <<isQuant, disk, phase, genTxt, attr, exec, dumped>>

(* run (lines 21-40): the quantized engine calls                           *)
(* forward_with_quantized_data and, when the runtime dump option is on,    *)
(* dumps inputs and outputs; the float engine calls forward.               *)
Run(f) ==
  /\ phase[f] = "created"
  /\ Len(forwards[f]) < MaxRuns
  /\ \/ /\ isQuant
        /\ forwards' = [forwards EXCEPT ![f] = Append(@, "quantized")]
        /\ dumped' = [dumped EXCEPT ![f] = @ \/ DumpOn]
     \/ /\ ~isQuant
        /\ forwards' = [forwards EXCEPT ![f] = Append(@, "float")]
        /\ UNCHANGED dumped
  /\ UNCHANGED <<isQuant, disk, phase, genTxt, attr, exec>>

Next ==
  \E f \in Funcs : PreBuild(f) \/ CreateFuncData(f) \/ Run(f)

Spec == Init /\ [][Next]_vars

-----------------------------------------------------------------------------
IRs == [stage : Seq({"gsim", "opt", "old"}), txt : Seq(STRING)]

TypeOK ==
  /\ isQuant \in QuantModes
  /\ disk \in [Funcs -> [Kinds -> IRs \cup {NoFile}]]
  /\ phase \in [Funcs -> Phases]
  /\ attr \in [Funcs -> IRs \cup {NoFile}]
  /\ exec \in [Funcs -> IRs \cup {NoExec}]
  /\ forwards \in [Funcs -> Seq({"quantized", "float"})]
  /\ dumped \in [Funcs -> BOOLEAN]

\* The tools a function's IR must have gone through, in order.
ExpectedStage(f) ==
  (IF f \in GsimFuncs THEN <<"gsim">> ELSE <<>>) \o (IF isQuant THEN <<"opt">> ELSE <<>>)

(* The executor of every function runs the IR this build produced for it:  *)
(* simplified by aipugsim exactly when its config asks, then quantized     *)
(* exactly when the engine is quantized, never an earlier build's file     *)
(* left in the work directories (pre_build lines 47-63 and the path choice *)
(* of create_func_data, lines 87-89).                                      *)
ExecutorLoadsPipelineIR ==
  \A f \in Funcs : exec[f] # NoExec => exec[f].stage = ExpectedStage(f)

(* The IR text the executor loads is the text pre_build read back: the     *)
(* unescaping of line 93 undoes   what the Relay printer did to it.         *)
IrTextRoundTrip ==
  \A f \in Funcs : exec[f] # NoExec => exec[f].txt = genTxt[f]

-----------------------------------------------------------------------------
(* The refinement: a function is pending until create_func_data has given  *)
(* it an executor or the build has raised.                                 *)
BuildState(ph) ==
  CASE ph \in {"new", "prebuilt"} -> "pending"
    [] ph = "created" -> "built"
    [] ph = "failed" -> "failed"

Abstract == INSTANCE CompassBuild WITH state <- [f \in Funcs |-> BuildState(phase[f])]

(* The engine implements CompassBuild: every step of pre_build,           *)
(* create_func_data and run is a step of the abstract build or leaves it   *)
(* unchanged -- in particular no executor is ever made on an IR that       *)
(* skipped a configured tool or lost its text, none is replaced, and a     *)
(* function runs only once built, in the engine's mode.                    *)
BuildSpec == Abstract!Spec

=============================================================================
