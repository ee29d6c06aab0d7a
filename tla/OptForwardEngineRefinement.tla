--------------------- MODULE OptForwardEngineRefinement ---------------------
(***************************************************************************)
(* AIPUOptForwardEngine implements CompassBuild, and keeps the IR text it  *)
(* generated, for every set of functions, gsim configs, engine modes and   *)
(* texts -- given that the unescaping of create_func_data (line 93) undoes *)
(* what the Relay printer does to every text the code generator may       *)
(* produce.  That hypothesis, TextsRoundTrip, is about the bytes of each   *)
(* text: it holds for ASCII texts and fails for non-ASCII ones (runs       *)
(* engine_build and engine_nonascii), and proving it would take induction  *)
(* over the byte sequence, which is out of the provers' reach.             *)
(***************************************************************************)
EXTENDS OptForwardEngineProofs

\* Line 93 gives back every text the code generator may produce.
TextsRoundTrip == \A t \in Texts : Unescape(RelayRoundTrip(t)) = t

\* The IR the executor of f must load: its pipeline's stages, its text.
PipelineIR(f) == [stage |-> ExpectedStage(f), txt |-> genTxt[f]]

(* The strengthening.  A function has a text exactly when pre_build has    *)
(* run for it; a prebuilt function's attributes hold the IR of its         *)
(* pipeline with that text; and only a created function has an executor,   *)
(* on that same IR.                                                        *)
EngineInv ==
  /\ TypeOK
  /\ genTxt \in [Funcs -> Texts \cup {<<>>}]
  /\ \A f \in Funcs : phase[f] = "new" <=> genTxt[f] = <<>>
  /\ \A f \in Funcs : phase[f] = "prebuilt" => attr[f] = PipelineIR(f)
  /\ \A f \in Funcs : exec[f] # NoExec =>
        phase[f] = "created" /\ exec[f] = PipelineIR(f)

-----------------------------------------------------------------------------
(* Lemmas on the IRs.                                                      *)

\* An IR is the record of its two fields.
LEMMA IRFields ==
  ASSUME NEW r \in IRs
  PROVE  r = [stage |-> r.stage, txt |-> r.txt]
BY DEF IRs

\* A tool applied to an IR gives an IR with the same text.
LEMMA ApplyIR ==
  ASSUME NEW s \in Seq({"gsim", "opt", "old"}), NEW x \in Seq(STRING),
         NEW tool \in {"gsim", "opt"}
  PROVE  /\ Apply([stage |-> s, txt |-> x], tool) \in IRs
         /\ Apply([stage |-> s, txt |-> x], tool).txt = x
<1>1. Apply([stage |-> s, txt |-> x], tool) = [stage |-> Append(s, tool), txt |-> x]
  BY ApplyRecord
<1>2. Append(s, tool) \in Seq({"gsim", "opt", "old"})
  OBVIOUS
<1>3. [stage |-> Append(s, tool), txt |-> x] \in IRs
  BY <1>2 DEF IRs
<1>4. Apply([stage |-> s, txt |-> x], tool).txt = x
  BY <1>1
<1>5. Apply([stage |-> s, txt |-> x], tool) \in IRs
  BY <1>1, <1>3, Zenon
<1>6. QED
  BY <1>4, <1>5

\* The stages of every pipeline are tool names.
LEMMA ExpectedStageType ==
  ASSUME isQuant \in BOOLEAN, NEW f
  PROVE  ExpectedStage(f) \in Seq({"gsim", "opt", "old"})
<1>1. <<>> \in Seq({"gsim", "opt", "old"})
  OBVIOUS
<1>2. <<"gsim">> \in Seq({"gsim", "opt", "old"}) /\ <<"opt">> \in Seq({"gsim", "opt", "old"})
  OBVIOUS
<1>3. <<"gsim">> \o <<"opt">> \in Seq({"gsim", "opt", "old"})
  BY <1>2
<1>4. QED
  BY <1>1, <1>2, <1>3, StageSeqs DEF ExpectedStage

(* The files pre_build writes: a fresh Compass IR, aipugsim's output and   *)
(* aipuopt's, each with the text the code generator wrote; the one it      *)
(* reads back is an IR with that text.                                     *)
LEMMA PreBuildFiles ==
  ASSUME isQuant \in BOOLEAN, NEW f \in Funcs, NEW t \in Seq(STRING),
         NEW d0 \in [Kinds -> IRs \cup {NoFile}], NEW d1, NEW d2,
         PreBuildIRs(f, t, d0, d1, d2)
  PROVE  /\ d1 \in [Kinds -> IRs \cup {NoFile}]
         /\ d2 \in [Kinds -> IRs \cup {NoFile}]
         /\ d2[IrPath(f \in GsimFuncs)] \in IRs
         /\ d2[IrPath(f \in GsimFuncs)].txt = t
<1> DEFINE gsim == f \in GsimFuncs
           pre == IF gsim THEN <<"gsim">> ELSE <<>>
           fresh == [stage |-> <<>>, txt |-> t]
<1>a. d0["compass"] = fresh
  BY DEF PreBuildIRs
<1>b. gsim => d1 = [d0 EXCEPT !["gsim_float"] = Apply(d0["compass"], "gsim")]
  BY DEF PreBuildIRs
<1>c. ~gsim => d1 = d0
  BY DEF PreBuildIRs
<1>d. isQuant => d2 = [d1 EXCEPT !["quant"] = Apply(d1[FloatIRPath(gsim)], "opt")]
  BY DEF PreBuildIRs
<1>e. ~isQuant => d2 = d1
  BY DEF PreBuildIRs
<1>1. pre \in Seq({"gsim", "opt", "old"}) /\ <<>> \in Seq({"gsim", "opt", "old"})
  <2>1. <<>> \in Seq({"gsim", "opt", "old"}) /\ <<"gsim">> \in Seq({"gsim", "opt", "old"})
    OBVIOUS
  <2>2. QED
    BY <2>1
<1>2. Apply(fresh, "gsim") \in IRs /\ Apply(fresh, "gsim").txt = t
  BY <1>1, ApplyIR
<1>3. d1 \in [Kinds -> IRs \cup {NoFile}]
  <2>1. CASE gsim
    BY <1>a, <1>b, <1>2, <2>1 DEF Kinds
  <2>2. CASE ~gsim
    BY <1>c, <2>2
  <2>3. QED
    BY <2>1, <2>2
<1>4. d1[FloatIRPath(gsim)] \in IRs /\ d1[FloatIRPath(gsim)].txt = t
  <2>1. CASE gsim
    BY <1>a, <1>b, <1>2, <2>1 DEF FloatIRPath, Kinds
  <2>2. CASE ~gsim
    <3>1. fresh \in IRs
      BY <1>1 DEF IRs
    <3>2. QED
      BY <1>a, <1>c, <2>2, <3>1 DEF FloatIRPath
  <2>3. QED
    BY <2>1, <2>2
<1>5. Apply(d1[FloatIRPath(gsim)], "opt") \in IRs
      /\ Apply(d1[FloatIRPath(gsim)], "opt").txt = t
  <2>1. d1[FloatIRPath(gsim)] = [stage |-> d1[FloatIRPath(gsim)].stage, txt |-> t]
    BY <1>4, IRFields
  <2>2. d1[FloatIRPath(gsim)].stage \in Seq({"gsim", "opt", "old"})
    BY <1>4 DEF IRs
  <2>3. QED
    BY <2>1, <2>2, ApplyIR
<1>6. d2 \in [Kinds -> IRs \cup {NoFile}]
  <2>1. CASE isQuant
    BY <1>d, <1>3, <1>5, <2>1 DEF Kinds
  <2>2. CASE ~isQuant
    BY <1>e, <1>3, <2>2
  <2>3. QED
    BY <2>1, <2>2
<1>7. d2[IrPath(gsim)] \in IRs /\ d2[IrPath(gsim)].txt = t
  <2>1. CASE isQuant
    BY <1>d, <1>3, <1>5, <2>1 DEF IrPath, Kinds
  <2>2. CASE ~isQuant /\ gsim
    BY <1>b, <1>e, <1>a, <1>2, <2>2 DEF IrPath, Kinds
  <2>3. CASE ~isQuant /\ ~gsim
    <3>1. fresh \in IRs
      BY <1>1 DEF IRs
    <3>2. QED
      BY <1>a, <1>c, <1>e, <2>3, <3>1 DEF IrPath
  <2>4. QED
    BY <2>1, <2>2, <2>3
<1>8. QED
  BY <1>3, <1>6, <1>7

(* What one pre_build does, in the terms of the invariant: from a new      *)
(* function, it records a generated text, writes typed files and either    *)
(* stores the IR of the pipeline with that text in the attributes or       *)
(* fails leaving them alone.                                               *)
LEMMA PreBuildStep ==
  ASSUME EngineInv, NEW f \in Funcs, PreBuild(f)
  PROVE  /\ phase[f] = "new"
         /\ UNCHANGED <<isQuant, exec, forwards, dumped>>
         /\ \E t \in Texts, d \in [Kinds -> IRs \cup {NoFile}] :
              /\ genTxt' = [genTxt EXCEPT ![f] = t]
              /\ disk' = [disk EXCEPT ![f] = d]
              /\ \/ /\ phase' = [phase EXCEPT ![f] = "prebuilt"]
                    /\ attr' = [attr EXCEPT ![f] = [stage |-> ExpectedStage(f), txt |-> t]]
                 \/ /\ phase' = [phase EXCEPT ![f] = "failed"]
                    /\ attr' = attr
<1> DEFINE gsim == f \in GsimFuncs
<1>1. PICK t \in Texts, gsimFails, optFails \in
            IF ToolMayFail THEN BOOLEAN ELSE {FALSE} :
        LET d0 == [disk[f] EXCEPT !["compass"] = [stage |-> <<>>, txt |-> t]]
            gsimIn == d0["compass"]
            gsimUp == ~gsim \/ (ToolOk(gsimIn) /\ ~gsimFails)
            d1 == IF gsim THEN [d0 EXCEPT !["gsim_float"] = Apply(gsimIn, "gsim")]
                          ELSE d0
            floatIn == d1[FloatIRPath(gsim)]
            optUp == ~isQuant \/ (ToolOk(floatIn) /\ ~optFails)
            d2 == IF isQuant THEN [d1 EXCEPT !["quant"] = Apply(floatIn, "opt")]
                             ELSE d1
            irPath == IrPath(gsim)
        IN /\ genTxt' = [genTxt EXCEPT ![f] = t]
           /\ \/ /\ gsimUp /\ optUp
                 /\ disk' = [disk EXCEPT ![f] = d2]
                 /\ attr' = [attr EXCEPT ![f] = d2[irPath]]
                 /\ phase' = [phase EXCEPT ![f] = "prebuilt"]
              \/ /\ ~gsimUp
                 /\ disk' = [disk EXCEPT ![f] = d0]
                 /\ phase' = [phase EXCEPT ![f] = "failed"]
                 /\ UNCHANGED attr
              \/ /\ gsimUp /\ ~optUp
                 /\ disk' = [disk EXCEPT ![f] = d1]
                 /\ phase' = [phase EXCEPT ![f] = "failed"]
                 /\ UNCHANGED attr
  BY DEF PreBuild
<1> DEFINE d0 == [disk[f] EXCEPT !["compass"] = [stage |-> <<>>, txt |-> t]]
           gsimIn == d0["compass"]
           d1 == IF gsim THEN [d0 EXCEPT !["gsim_float"] = Apply(gsimIn, "gsim")]
                         ELSE d0
           floatIn == d1[FloatIRPath(gsim)]
           d2 == IF isQuant THEN [d1 EXCEPT !["quant"] = Apply(floatIn, "opt")]
                            ELSE d1
<1>2. /\ phase[f] = "new"
      /\ UNCHANGED <<isQuant, exec, forwards, dumped>>
  BY DEF PreBuild
<1>3. isQuant \in BOOLEAN
  BY EngineAssumption DEF EngineInv, TypeOK
<1>4. t \in Seq(STRING)
  BY EngineAssumption
<1>5. [stage |-> <<>>, txt |-> t] \in IRs
  BY <1>4 DEF IRs
<1>6. d0 \in [Kinds -> IRs \cup {NoFile}]
  BY <1>5 DEF EngineInv, TypeOK, Kinds
<1>7. PreBuildIRs(f, t, d0, d1, d2)
  BY <1>6 DEF PreBuildIRs, Kinds
<1>8. /\ disk' \in {[disk EXCEPT ![f] = d] : d \in {d0, d1, d2}}
      /\ genTxt' = [genTxt EXCEPT ![f] = t]
      /\ \/ /\ phase' = [phase EXCEPT ![f] = "prebuilt"]
            /\ attr' = [attr EXCEPT ![f] = d2[IrPath(gsim)]]
         \/ /\ phase' = [phase EXCEPT ![f] = "failed"]
            /\ attr' = attr
  BY <1>1
<1> HIDE DEF d0, d1, d2
<1>9. d1 \in [Kinds -> IRs \cup {NoFile}] /\ d2 \in [Kinds -> IRs \cup {NoFile}]
      /\ d2[IrPath(gsim)] \in IRs /\ d2[IrPath(gsim)].txt = t
  BY <1>3, <1>4, <1>6, <1>7, PreBuildFiles
<1>10. d2[IrPath(gsim)].stage = ExpectedStage(f)
  BY <1>3, <1>6, <1>7, PreBuildStage
<1>11. d2[IrPath(gsim)] = [stage |-> ExpectedStage(f), txt |-> t]
  BY <1>9, <1>10, IRFields
<1>12. QED
  BY <1>2, <1>6, <1>8, <1>9, <1>11

(* What one create_func_data does: from a prebuilt function, given the     *)
(* round trip of its text, it writes the pipeline's IR with the generated  *)
(* text to one of the function's files and loads it, or fails.            *)
LEMMA CreateFuncDataStep ==
  ASSUME EngineInv, TextsRoundTrip, NEW f \in Funcs, CreateFuncData(f)
  PROVE  /\ phase[f] = "prebuilt"
         /\ UNCHANGED <<isQuant, genTxt, attr, forwards, dumped>>
         /\ \/ /\ phase' = [phase EXCEPT ![f] = "created"]
               /\ exec' = [exec EXCEPT ![f] = PipelineIR(f)]
               /\ \E k \in Kinds : disk' = [disk EXCEPT ![f][k] = PipelineIR(f)]
            \/ /\ phase' = [phase EXCEPT ![f] = "failed"]
               /\ UNCHANGED <<disk, exec>>
<1> DEFINE kind == IF isQuant THEN "quant" ELSE "compass"
           ir == [stage |-> attr[f].stage,
                  txt |-> Unescape(RelayRoundTrip(attr[f].txt))]
<1>1. /\ phase[f] = "prebuilt"
      /\ UNCHANGED <<isQuant, genTxt, attr, forwards, dumped>>
      /\ \/ /\ disk' = [disk EXCEPT ![f][kind] = ir]
            /\ exec' = [exec EXCEPT ![f] = disk'[f][kind]]
            /\ phase' = [phase EXCEPT ![f] = "created"]
         \/ /\ phase' = [phase EXCEPT ![f] = "failed"]
            /\ UNCHANGED <<disk, exec>>
  BY DEF CreateFuncData
<1>2. attr[f] = PipelineIR(f)
  BY <1>1 DEF EngineInv
<1>3. genTxt[f] \in Texts
  BY <1>1 DEF EngineInv
<1>4. Unescape(RelayRoundTrip(genTxt[f])) = genTxt[f]
  BY <1>3 DEF TextsRoundTrip
<1>5. ir = PipelineIR(f)
  BY <1>2, <1>4 DEF PipelineIR
<1>6. kind \in Kinds /\ kind \in DOMAIN disk[f]
  BY DEF EngineInv, TypeOK, Kinds
<1>7. disk' = [disk EXCEPT ![f][kind] = ir] => disk'[f][kind] = ir
  BY <1>6 DEF EngineInv, TypeOK
<1> HIDE DEF ir, kind
<1>8. QED
  BY <1>1, <1>5, <1>6, <1>7

(* The initial states satisfy the strengthening.                          *)
LEMMA EngineInit == Init => EngineInv
<1> SUFFICES ASSUME Init PROVE EngineInv
  OBVIOUS
<1>1. TypeOK
  <2>1. [stage |-> <<"old">>, txt |-> <<>>] \in IRs
    BY DEF IRs
  <2>2. QED
    BY <2>1 DEF Init, TypeOK, StaleIR, Phases
<1>2. QED
  BY <1>1 DEF Init, EngineInv

(* Every step keeps the strengthening, given the round trip of the texts. *)
LEMMA EngineNext ==
  ASSUME TextsRoundTrip
  PROVE  EngineInv /\ [Next]_vars => EngineInv'
<1> SUFFICES ASSUME EngineInv, [Next]_vars PROVE EngineInv'
  OBVIOUS
<1>0. isQuant \in BOOLEAN
  BY EngineAssumption DEF EngineInv, TypeOK
<1>1. ASSUME NEW f \in Funcs, PreBuild(f) PROVE EngineInv'
  <2>1. /\ phase[f] = "new"
        /\ UNCHANGED <<isQuant, exec, forwards, dumped>>
    BY <1>1, PreBuildStep
  <2>2. PICK t \in Texts, d \in [Kinds -> IRs \cup {NoFile}] :
          /\ genTxt' = [genTxt EXCEPT ![f] = t]
          /\ disk' = [disk EXCEPT ![f] = d]
          /\ \/ /\ phase' = [phase EXCEPT ![f] = "prebuilt"]
                /\ attr' = [attr EXCEPT ![f] = [stage |-> ExpectedStage(f), txt |-> t]]
             \/ /\ phase' = [phase EXCEPT ![f] = "failed"]
                /\ attr' = attr
    BY <1>1, PreBuildStep
  <2>3. t \in Seq(STRING) /\ t # <<>>
    BY EngineAssumption
  <2>4. [stage |-> ExpectedStage(f), txt |-> t] \in IRs
    BY <1>0, <2>3, ExpectedStageType DEF IRs
  <2>5. TypeOK'
    BY <2>1, <2>2, <2>4 DEF EngineInv, TypeOK, Phases
  <2>6. genTxt' \in [Funcs -> Texts \cup {<<>>}]
    BY <2>2 DEF EngineInv
  <2>7. \A g \in Funcs : phase'[g] = "new" <=> genTxt'[g] = <<>>
    BY <2>2, <2>3 DEF EngineInv, TypeOK
  <2>8. \A g \in Funcs : phase'[g] = "prebuilt" => attr'[g] = PipelineIR(g)'
    <3> SUFFICES ASSUME NEW g \in Funcs, phase'[g] = "prebuilt"
                 PROVE  attr'[g] = PipelineIR(g)'
      OBVIOUS
    <3>1. ExpectedStage(g)' = ExpectedStage(g)
      BY <2>1 DEF ExpectedStage
    <3>2. CASE g = f
      <4>1. attr'[f] = [stage |-> ExpectedStage(f), txt |-> t]
        BY <2>2, <3>2 DEF EngineInv, TypeOK
      <4>2. genTxt'[f] = t
        BY <2>2 DEF EngineInv
      <4>3. QED
        BY <3>1, <3>2, <4>1, <4>2 DEF PipelineIR
    <3>3. CASE g # f
      BY <2>2, <3>1, <3>3 DEF EngineInv, TypeOK, PipelineIR
    <3>4. QED
      BY <3>2, <3>3
  <2>9. \A g \in Funcs : exec'[g] # NoExec =>
          phase'[g] = "created" /\ exec'[g] = PipelineIR(g)'
    BY <2>1, <2>2 DEF EngineInv, TypeOK, PipelineIR, ExpectedStage
  <2>10. QED
    BY <2>5, <2>6, <2>7, <2>8, <2>9 DEF EngineInv
<1>2. ASSUME NEW f \in Funcs, CreateFuncData(f) PROVE EngineInv'
  <2>1. /\ phase[f] = "prebuilt"
        /\ UNCHANGED <<isQuant, genTxt, attr, forwards, dumped>>
        /\ \/ /\ phase' = [phase EXCEPT ![f] = "created"]
              /\ exec' = [exec EXCEPT ![f] = PipelineIR(f)]
              /\ \E k \in Kinds : disk' = [disk EXCEPT ![f][k] = PipelineIR(f)]
           \/ /\ phase' = [phase EXCEPT ![f] = "failed"]
              /\ UNCHANGED <<disk, exec>>
    BY <1>2, CreateFuncDataStep
  <2>2. PipelineIR(f) \in IRs
    <3>1. genTxt[f] \in Seq(STRING)
      BY <2>1, EngineAssumption DEF EngineInv
    <3>2. QED
      BY <1>0, <3>1, ExpectedStageType DEF PipelineIR, IRs
  <2>3. TypeOK'
    <3>1. disk' \in [Funcs -> [Kinds -> IRs \cup {NoFile}]]
      <4>1. CASE UNCHANGED disk
        BY <4>1 DEF EngineInv, TypeOK
      <4>2. CASE \E k \in Kinds : disk' = [disk EXCEPT ![f][k] = PipelineIR(f)]
        <5>1. PICK k \in Kinds : disk' = [disk EXCEPT ![f][k] = PipelineIR(f)]
          BY <4>2
        <5>2. QED
          BY <2>2, <5>1 DEF EngineInv, TypeOK
      <4>3. QED
        BY <2>1, <4>1, <4>2
    <3>2. exec' \in [Funcs -> IRs \cup {NoExec}]
      BY <2>1, <2>2 DEF EngineInv, TypeOK
    <3>3. phase' \in [Funcs -> Phases]
      BY <2>1 DEF EngineInv, TypeOK, Phases
    <3>4. QED
      BY <2>1, <3>1, <3>2, <3>3 DEF EngineInv, TypeOK
  <2>4. \A g \in Funcs : phase'[g] = "new" <=> genTxt'[g] = <<>>
    BY <2>1 DEF EngineInv, TypeOK
  <2>5. \A g \in Funcs : phase'[g] = "prebuilt" => attr'[g] = PipelineIR(g)'
    BY <2>1 DEF EngineInv, TypeOK, PipelineIR, ExpectedStage
  <2>6. \A g \in Funcs : exec'[g] # NoExec =>
          phase'[g] = "created" /\ exec'[g] = PipelineIR(g)'
    BY <2>1 DEF EngineInv, TypeOK, PipelineIR, ExpectedStage
  <2>7. QED
    BY <2>1, <2>3, <2>4, <2>5, <2>6 DEF EngineInv
<1>3. ASSUME NEW f \in Funcs, Run(f) PROVE EngineInv'
  <2>1. /\ UNCHANGED <<isQuant, disk, phase, genTxt, attr, exec>>
        /\ \/ forwards' = [forwards EXCEPT ![f] = Append(@, "quantized")]
              /\ dumped' = [dumped EXCEPT ![f] = @ \/ DumpOn]
           \/ forwards' = [forwards EXCEPT ![f] = Append(@, "float")]
              /\ UNCHANGED dumped
    BY <1>3 DEF Run
  <2>2. TypeOK'
    <3>1. forwards' \in [Funcs -> Seq({"quantized", "float"})]
      <4>1. forwards[f] \in Seq({"quantized", "float"})
        BY DEF EngineInv, TypeOK
      <4>2. Append(forwards[f], "quantized") \in Seq({"quantized", "float"})
            /\ Append(forwards[f], "float") \in Seq({"quantized", "float"})
        BY <4>1
      <4>3. QED
        BY <2>1, <4>2 DEF EngineInv, TypeOK
    <3>2. dumped' \in [Funcs -> BOOLEAN]
      BY <2>1, EngineAssumption DEF EngineInv, TypeOK
    <3>3. QED
      BY <2>1, <3>1, <3>2 DEF EngineInv, TypeOK
  <2>3. QED
    BY <2>1, <2>2 DEF EngineInv, PipelineIR, ExpectedStage
<1>4. CASE UNCHANGED vars
  BY <1>4 DEF vars, EngineInv, TypeOK, PipelineIR, ExpectedStage
<1>5. QED
  BY <1>1, <1>2, <1>3, <1>4 DEF Next

-----------------------------------------------------------------------------
(* The refinement.                                                         *)

\* The abstract build states of the functions.
BuildStates == [g \in Funcs |-> BuildState(phase[g])]

\* A step that moves one function to a new phase moves it, in the
\* abstract, to that phase's build state.
LEMMA BuildStatesExcept ==
  ASSUME phase \in [Funcs -> Phases], NEW f \in Funcs, NEW p \in Phases,
         phase' = [phase EXCEPT ![f] = p]
  PROVE  BuildStates' = [BuildStates EXCEPT ![f] = BuildState(p)]
BY DEF BuildStates

\* The initial states of the engine are initial states of CompassBuild.
LEMMA RefineInit == Init => Abstract!Init
BY DEF Init, Abstract!Init, BuildState

\* Every step of the engine is a step of CompassBuild or leaves it
\* unchanged, given the round trip of the texts.
LEMMA RefineNext ==
  ASSUME TextsRoundTrip
  PROVE  EngineInv /\ [Next]_vars => [Abstract!Next]_Abstract!vars
<1> SUFFICES ASSUME EngineInv, [Next]_vars PROVE [Abstract!Next]_Abstract!vars
  OBVIOUS
<1>0. phase \in [Funcs -> Phases]
  BY DEF EngineInv, TypeOK
<1>1. ASSUME NEW f \in Funcs, PreBuild(f) PROVE Abstract!Generate(f)
  <2>1. /\ phase[f] = "new"
        /\ UNCHANGED <<isQuant, exec, forwards, dumped>>
    BY <1>1, PreBuildStep
  <2>2. PICK t \in Texts, d \in [Kinds -> IRs \cup {NoFile}] :
          /\ genTxt' = [genTxt EXCEPT ![f] = t]
          /\ disk' = [disk EXCEPT ![f] = d]
          /\ \/ /\ phase' = [phase EXCEPT ![f] = "prebuilt"]
                /\ attr' = [attr EXCEPT ![f] = [stage |-> ExpectedStage(f), txt |-> t]]
             \/ /\ phase' = [phase EXCEPT ![f] = "failed"]
                /\ attr' = attr
    BY <1>1, PreBuildStep
  <2>3. BuildStates[f] = "pending" /\ genTxt[f] = <<>>
    BY <2>1 DEF BuildStates, BuildState, EngineInv
  <2>4. BuildStates' \in {[BuildStates EXCEPT ![f] = "pending"],
                          [BuildStates EXCEPT ![f] = "failed"]}
    BY <1>0, <2>2, BuildStatesExcept DEF BuildState, Phases
  <2>5. QED
    BY <2>1, <2>2, <2>3, <2>4 DEF Abstract!Generate, BuildStates
<1>2. ASSUME NEW f \in Funcs, CreateFuncData(f) PROVE Abstract!Build(f)
  <2>1. /\ phase[f] = "prebuilt"
        /\ UNCHANGED <<isQuant, genTxt, attr, forwards, dumped>>
        /\ \/ /\ phase' = [phase EXCEPT ![f] = "created"]
              /\ exec' = [exec EXCEPT ![f] = PipelineIR(f)]
              /\ \E k \in Kinds : disk' = [disk EXCEPT ![f][k] = PipelineIR(f)]
           \/ /\ phase' = [phase EXCEPT ![f] = "failed"]
              /\ UNCHANGED <<disk, exec>>
    BY <1>2, CreateFuncDataStep
  <2>2. BuildStates[f] = "pending" /\ genTxt[f] # <<>>
    BY <2>1 DEF BuildStates, BuildState, EngineInv
  <2>3. PipelineIR(f) = [stage |-> Abstract!Pipeline(f), txt |-> genTxt[f]]
    BY DEF PipelineIR, ExpectedStage, Abstract!Pipeline
  <2>4. \/ /\ BuildStates' = [BuildStates EXCEPT ![f] = "built"]
           /\ exec' = [exec EXCEPT ![f] = [stage |-> Abstract!Pipeline(f), txt |-> genTxt[f]]]
        \/ /\ BuildStates' = [BuildStates EXCEPT ![f] = "failed"]
           /\ UNCHANGED exec
    BY <1>0, <2>1, <2>3, BuildStatesExcept DEF BuildState, Phases
  <2>5. QED
    BY <2>1, <2>2, <2>4 DEF Abstract!Build, BuildStates
<1>3. ASSUME NEW f \in Funcs, Run(f) PROVE Abstract!Run(f)
  <2>1. BuildStates[f] = "built" /\ BuildStates' = BuildStates
    BY <1>3 DEF Run, BuildStates, BuildState
  <2>2. forwards' = [forwards EXCEPT ![f] =
                      Append(@, IF isQuant THEN "quantized" ELSE "float")]
    BY <1>3 DEF Run
  <2>3. QED
    BY <1>3, <2>1, <2>2 DEF Run, Abstract!Run, BuildStates
<1>4. CASE UNCHANGED vars
  BY <1>4 DEF vars, Abstract!vars
<1>5. QED
  BY <1>1, <1>2, <1>3, <1>4 DEF Next, Abstract!Next

-----------------------------------------------------------------------------
(* The theorems.                                                           *)

\* Every behaviour keeps the strengthening.
LEMMA EngineInvariant ==
  ASSUME TextsRoundTrip
  PROVE  Spec => []EngineInv
BY EngineInit, EngineNext, PTL DEF Spec

(* The engine's state is always well typed: files, attributes and the     *)
(* executor hold IRs or nothing, and the forward calls are "quantized" or *)
(* "float" -- whatever the order of pre_build, create_func_data and run,  *)
(* the failures of aipugsim and aipuopt and the stale files on disk.      *)
THEOREM TypeCorrect ==
  ASSUME TextsRoundTrip
  PROVE  Spec => []TypeOK
<1>1. EngineInv => TypeOK
  BY DEF EngineInv
<1>2. QED
  BY EngineInvariant, <1>1, PTL

(* The executor create_func_data makes loads the very text pre_build read  *)
(* back from the tools (lines 67 and 93): the Relay printer's escapes are  *)
(* undone, for every model whose IR texts the unescaping gives back.       *)
THEOREM IrTextRoundTripCorrect ==
  ASSUME TextsRoundTrip
  PROVE  Spec => []IrTextRoundTrip
<1>1. EngineInv => IrTextRoundTrip
  <2> SUFFICES ASSUME EngineInv, NEW f \in Funcs, exec[f] # NoExec
               PROVE  exec[f].txt = genTxt[f]
    BY DEF IrTextRoundTrip
  <2>1. exec[f] = PipelineIR(f)
    BY DEF EngineInv
  <2>2. QED
    BY <2>1 DEF PipelineIR
<1>2. QED
  BY EngineInvariant, <1>1, PTL

(* AIPUOptForwardEngine implements CompassBuild: pre_build is the code    *)
(* generation of a function (which may fail), create_func_data its build  *)
(* on the IR of its pipeline with its text (which may fail), and run a run *)
(* of a built function in the engine's mode; no other step changes what   *)
(* the abstract build shows.                                              *)
THEOREM BuildSpecCorrect ==
  ASSUME TextsRoundTrip
  PROVE  Spec => BuildSpec
<1>1. Spec => []EngineInv
  BY EngineInvariant
<1>2. EngineInv /\ [Next]_vars => [Abstract!Next]_Abstract!vars
  BY RefineNext
<1>3. QED
  BY <1>1, <1>2, RefineInit, PTL DEF Spec, BuildSpec, Abstract!Spec

=============================================================================
