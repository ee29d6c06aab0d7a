------------------------ MODULE OptForwardEngineProofs ------------------------
(***************************************************************************)
(* Proofs about AIPUOptForwardEngine (module OptForwardEngine), for every  *)
(* set of functions, gsim configs, engine modes and IR texts.              *)
(***************************************************************************)
EXTENDS OptForwardEngine, TLAPS

(* ExecutorLoadsPipelineIR speaks of the executor only, but create_func_  *)
(* data makes the executor from the attributes pre_build left: the         *)
(* strengthening says that a prebuilt function's attributes already hold   *)
(* the IR of its pipeline.  It also keeps the shape of the state (which    *)
(* files, attributes and executors exist), and leaves the texts out: what  *)
(* the unescaping computes is a matter of induction over the bytes.        *)
PipelineInv ==
  /\ isQuant \in BOOLEAN
  /\ phase \in [Funcs -> Phases]
  /\ DOMAIN disk = Funcs /\ \A f \in Funcs : DOMAIN disk[f] = Kinds
  /\ DOMAIN attr = Funcs /\ DOMAIN exec = Funcs
  /\ \A f \in Funcs : phase[f] = "prebuilt" => attr[f].stage = ExpectedStage(f)
  /\ ExecutorLoadsPipelineIR

-----------------------------------------------------------------------------
(* pre_build.                                                              *)

\* A tool appends its name to the stages of the IR it reads.
LEMMA ApplyRecord ==
  ASSUME NEW st, NEW x, NEW tool
  PROVE  Apply([stage |-> st, txt |-> x], tool) = [stage |-> Append(st, tool), txt |-> x]
BY DEF Apply

\* The stages of the pipelines, as the tools append them.
LEMMA StageSeqs ==
  /\ Append(<<>>, "gsim") = <<"gsim">> /\ <<"gsim">> \o <<>> = <<"gsim">>
  /\ Append(<<>>, "opt") = <<"opt">> /\ <<>> \o <<"opt">> = <<"opt">>
  /\ Append(<<"gsim">>, "opt") = <<"gsim">> \o <<"opt">>
  /\ <<>> \o <<>> = <<>>
OBVIOUS

\* The files of one function as pre_build leaves them after the code
\* generator wrote text t (d0), after aipugsim (d1) and after aipuopt (d2).
PreBuildIRs(f, t, d0, d1, d2) ==
  /\ d0["compass"] = [stage |-> <<>>, txt |-> t]
  /\ d1 = IF f \in GsimFuncs
          THEN [d0 EXCEPT !["gsim_float"] = Apply(d0["compass"], "gsim")]
          ELSE d0
  /\ d2 = IF isQuant
          THEN [d1 EXCEPT !["quant"] = Apply(d1[FloatIRPath(f \in GsimFuncs)], "opt")]
          ELSE d1

\* The IR pre_build reads back after its tools succeeded went through the
\* tools of the function's pipeline, whatever the files held before.
LEMMA PreBuildStage ==
  ASSUME isQuant \in BOOLEAN, NEW f \in Funcs, NEW t,
         NEW d0, NEW d1, NEW d2, DOMAIN d0 = Kinds,
         PreBuildIRs(f, t, d0, d1, d2)
  PROVE  d2[IrPath(f \in GsimFuncs)].stage = ExpectedStage(f)
<1> DEFINE gsim == f \in GsimFuncs
           pre == IF gsim THEN <<"gsim">> ELSE <<>>
<1>a. d0["compass"] = [stage |-> <<>>, txt |-> t]
  BY DEF PreBuildIRs
<1>b. gsim => d1 = [d0 EXCEPT !["gsim_float"] = Apply(d0["compass"], "gsim")]
  BY DEF PreBuildIRs
<1>c. ~gsim => d1 = d0
  BY DEF PreBuildIRs
<1>d. isQuant => d2 = [d1 EXCEPT !["quant"] = Apply(d1[FloatIRPath(gsim)], "opt")]
  BY DEF PreBuildIRs
<1>e. ~isQuant => d2 = d1
  BY DEF PreBuildIRs
<1>f. DOMAIN d1 = Kinds
  BY <1>b, <1>c
<1>1. Apply(d0["compass"], "gsim") = [stage |-> <<"gsim">>, txt |-> t]
  <2>1. Apply(d0["compass"], "gsim") = [stage |-> Append(<<>>, "gsim"), txt |-> t]
    BY <1>a, ApplyRecord
  <2>2. QED
    BY <2>1, StageSeqs
<1>2. d1[FloatIRPath(gsim)] = [stage |-> pre, txt |-> t]
  <2>1. CASE gsim
    BY <1>b, <1>1, <2>1 DEF FloatIRPath, Kinds
  <2>2. CASE ~gsim
    BY <1>a, <1>c, <2>2 DEF FloatIRPath, Kinds
  <2>3. QED
    BY <2>1, <2>2
<1>3. CASE isQuant
  <2>1. d2[IrPath(gsim)] = Apply(d1[FloatIRPath(gsim)], "opt")
    BY <1>d, <1>f, <1>3 DEF IrPath, Kinds
  <2>2. Apply([stage |-> pre, txt |-> t], "opt") = [stage |-> Append(pre, "opt"), txt |-> t]
    BY ApplyRecord
  <2>3. d2[IrPath(gsim)].stage = Append(pre, "opt")
    BY <1>2, <2>1, <2>2
  <2>4. Append(pre, "opt") = pre \o <<"opt">>
    BY StageSeqs
  <2>5. QED
    BY <1>3, <2>3, <2>4 DEF ExpectedStage
<1>4. CASE ~isQuant /\ gsim
  <2>1. d2[IrPath(gsim)] = Apply(d0["compass"], "gsim")
    BY <1>b, <1>e, <1>4 DEF IrPath, Kinds
  <2>2. QED
    BY <1>1, <1>4, <2>1, StageSeqs DEF ExpectedStage
<1>5. CASE ~isQuant /\ ~gsim
  <2>1. d2[IrPath(gsim)] = d0["compass"]
    BY <1>c, <1>e, <1>5 DEF IrPath
  <2>2. QED
    BY <1>a, <1>5, <2>1, StageSeqs DEF ExpectedStage
<1>6. QED
  BY <1>3, <1>4, <1>5

-----------------------------------------------------------------------------
(* The invariant.                                                          *)

\* The initial states satisfy the strengthening.
LEMMA PipelineInit == Init => PipelineInv
BY EngineAssumption DEF Init, PipelineInv, ExecutorLoadsPipelineIR, Phases

\* Every step keeps the strengthening.
LEMMA PipelineNext == PipelineInv /\ [Next]_vars => PipelineInv'
<1> SUFFICES ASSUME PipelineInv, [Next]_vars PROVE PipelineInv'
  OBVIOUS
<1>1. ASSUME NEW f \in Funcs, PreBuild(f) PROVE PipelineInv'
  <2> DEFINE gsim == f \in GsimFuncs
  <2>1. PICK t \in Texts, gsimFails, optFails \in
              IF ToolMayFail THEN BOOLEAN ELSE {FALSE} :
          LET d0 == [disk[f] EXCEPT !["compass"] = [stage |-> <<>>, txt |-> t]]
              gsimIn == d0["compass"]
              gsimUp == ~gsim \/ (ToolOk(gsimIn) /\ ~gsimFails)
              d1 == IF gsim THEN [d0 EXCEPT !["gsim_float"] = Apply(gsimIn, "gsim")]
                            ELSE d0
              floatIn == d1[FloatIRPath(gsim)]
              optUp == ~isQuant \/ (ToolOk(floatIn) /\ ~optFails)
              d2 == IF isQuant THEN [d1 EXCEPT !["quant"] = Apply(floatIn, "opt")]
                               ELSE d1
              irPath == IrPath(gsim)
          IN /\ genTxt' = [genTxt EXCEPT ![f] = t]
             /\ \/ /\ gsimUp /\ optUp
                   /\ disk' = [disk EXCEPT ![f] = d2]
                   /\ attr' = [attr EXCEPT ![f] = d2[irPath]]
                   /\ phase' = [phase EXCEPT ![f] = "prebuilt"]
                \/ /\ ~gsimUp
                   /\ disk' = [disk EXCEPT ![f] = d0]
                   /\ phase' = [phase EXCEPT ![f] = "failed"]
                   /\ UNCHANGED attr
                \/ /\ gsimUp /\ ~optUp
                   /\ disk' = [disk EXCEPT ![f] = d1]
                   /\ phase' = [phase EXCEPT ![f] = "failed"]
                   /\ UNCHANGED attr
    BY <1>1 DEF PreBuild
  <2> DEFINE d0 == [disk[f] EXCEPT !["compass"] = [stage |-> <<>>, txt |-> t]]
             gsimIn == d0["compass"]
             d1 == IF gsim THEN [d0 EXCEPT !["gsim_float"] = Apply(gsimIn, "gsim")]
                           ELSE d0
             floatIn == d1[FloatIRPath(gsim)]
             d2 == IF isQuant THEN [d1 EXCEPT !["quant"] = Apply(floatIn, "opt")]
                              ELSE d1
  <2>2. d2[IrPath(gsim)].stage = ExpectedStage(f)
    <3>1. isQuant \in BOOLEAN
      BY DEF PipelineInv
    <3>2. DOMAIN d0 = Kinds
      BY DEF PipelineInv, Kinds
    <3>3. PreBuildIRs(f, t, d0, d1, d2)
      BY DEF PreBuildIRs, PipelineInv, Kinds
    <3> HIDE DEF d0, d1, d2
    <3>4. QED
      BY <3>1, <3>2, <3>3, PreBuildStage
  <2>3. /\ isQuant' = isQuant /\ exec' = exec
        /\ phase' \in [Funcs -> Phases]
        /\ DOMAIN disk' = Funcs /\ DOMAIN attr' = Funcs
    BY <1>1, <2>1 DEF PreBuild, PipelineInv, Phases
  <2>4. \A g \in Funcs : DOMAIN disk'[g] = Kinds
    BY <2>1 DEF PipelineInv
  <2>5. \A g \in Funcs : phase'[g] = "prebuilt" => attr'[g].stage = ExpectedStage(g)'
    BY <2>1, <2>2, <2>3 DEF PipelineInv, ExpectedStage
  <2>6. ExecutorLoadsPipelineIR'
    BY <2>3 DEF PipelineInv, ExecutorLoadsPipelineIR, ExpectedStage
  <2>7. QED
    BY <2>3, <2>4, <2>5, <2>6 DEF PipelineInv
<1>2. ASSUME NEW f \in Funcs, CreateFuncData(f) PROVE PipelineInv'
  <2> DEFINE kind == IF isQuant THEN "quant" ELSE "compass"
             ir == [stage |-> attr[f].stage,
                    txt |-> Unescape(RelayRoundTrip(attr[f].txt))]
  <2>1. /\ phase[f] = "prebuilt"
        /\ isQuant' = isQuant /\ attr' = attr
        /\ \/ disk' = [disk EXCEPT ![f][kind] = ir] /\ exec' = [exec EXCEPT ![f] = ir]
              /\ phase' = [phase EXCEPT ![f] = "created"]
           \/ UNCHANGED <<disk, exec>> /\ phase' = [phase EXCEPT ![f] = "failed"]
    <3>1. kind \in DOMAIN disk[f]
      BY DEF PipelineInv, Kinds
    <3>2. QED
      BY <1>2, <3>1 DEF CreateFuncData, PipelineInv
  <2>2. ir.stage = ExpectedStage(f)
    BY <2>1 DEF PipelineInv
  <2>3. /\ phase' \in [Funcs -> Phases]
        /\ DOMAIN disk' = Funcs /\ \A g \in Funcs : DOMAIN disk'[g] = Kinds
        /\ DOMAIN exec' = Funcs
    BY <2>1 DEF PipelineInv, Phases
  <2>4. \A g \in Funcs : phase'[g] = "prebuilt" => attr'[g].stage = ExpectedStage(g)'
    BY <2>1 DEF PipelineInv, ExpectedStage
  <2>5. ExecutorLoadsPipelineIR'
    BY <2>1, <2>2 DEF PipelineInv, ExecutorLoadsPipelineIR, ExpectedStage
  <2>6. QED
    BY <2>1, <2>3, <2>4, <2>5 DEF PipelineInv
<1>3. ASSUME NEW f \in Funcs, Run(f) PROVE PipelineInv'
  BY <1>3 DEF Run, PipelineInv, ExecutorLoadsPipelineIR, ExpectedStage
<1>4. CASE UNCHANGED vars
  BY <1>4 DEF vars, PipelineInv, ExecutorLoadsPipelineIR, ExpectedStage
<1>5. QED
  BY <1>1, <1>2, <1>3, <1>4 DEF Next

(* Every executor create_func_data makes loads the IR of its function's    *)
(* pipeline -- simplified by aipugsim exactly when the function's config   *)
(* sets use_gsim_float, then quantized by aipuopt exactly when the engine  *)
(* is quantized -- never an IR a failed tool or an earlier build left in   *)
(* the work directories.  For every model, config and engine mode, and     *)
(* every order in which pre_build, create_func_data and run are called.    *)
THEOREM ExecutorLoadsPipelineIRCorrect == Spec => []ExecutorLoadsPipelineIR
<1>1. Spec => []PipelineInv
  BY PipelineInit, PipelineNext, PTL DEF Spec
<1>2. QED
  BY <1>1, PTL DEF PipelineInv

=============================================================================
