---------------------------- MODULE CompassBuild -----------------------------
(***************************************************************************)
(* What the AIPU Optimizer forward engine promises for each Compass        *)
(* function of a model, with the files, the attributes and the text round  *)
(* trip left out.  The code generator produces a text; the build then      *)
(* either fails, or gives the function an executor whose IR went through   *)
(* exactly the tools its configuration asks for (aipugsim when             *)
(* use_gsim_float, aipuopt when quantized) and carries that text; only a   *)
(* built function runs, in the engine's mode.  OptForwardEngine            *)
(* implements this specification (see MCOptForwardEngine).                 *)
(***************************************************************************)
EXTENDS Naturals, Sequences

CONSTANTS
  Funcs, GsimFuncs, QuantModes, Texts, MaxRuns, NoExec

VARIABLES
  isQuant,   \* the mode the engine was created in
  state,     \* state[f]: "pending", "built" or "failed"
  genTxt,    \* genTxt[f]: the text generated for f, <<>> before
  exec,      \* exec[f]: the IR the executor of f runs, NoExec before
  forwards   \* forwards[f]: the runs of f, in order

vars == <<isQuant, state, genTxt, exec, forwards>>

\* The tools the IR of f goes through, in order.
Pipeline(f) ==
  (IF f \in GsimFuncs THEN <<"gsim">> ELSE <<>>) \o (IF isQuant THEN <<"opt">> ELSE <<>>)

Init ==
  /\ isQuant \in QuantModes
  /\ state = [f \in Funcs |-> "pending"]
  /\ genTxt = [f \in Funcs |-> <<>>]
  /\ exec = [f \in Funcs |-> NoExec]
  /\ forwards = [f \in Funcs |-> <<>>]

\* The code generator produces the text of f; the build may fail there.
Generate(f) ==
  /\ state[f] = "pending"
  /\ genTxt[f] = <<>>
  /\ \E t \in Texts : genTxt' = [genTxt EXCEPT ![f] = t]
  /\ state' \in {[state EXCEPT ![f] = "pending"], [state EXCEPT ![f] = "failed"]}
  /\ UNCHANGED <<isQuant, exec, forwards>>

\* f gets its executor, on the IR of its pipeline with its text, or fails.
Build(f) ==
  /\ state[f] = "pending"
  /\ genTxt[f] # <<>>
  /\ \/ /\ state' = [state EXCEPT ![f] = "built"]
        /\ exec' = [exec EXCEPT ![f] = [stage |-> Pipeline(f), txt |-> genTxt[f]]]
     \/ /\ state' = [state EXCEPT ![f] = "failed"]
        /\ UNCHANGED exec
  /\ UNCHANGED <<isQuant, genTxt, forwards>>

\* A built function runs in the engine's mode.
Run(f) ==
  /\ state[f] = "built"
  /\ Len(forwards[f]) < MaxRuns
  /\ forwards' = [forwards EXCEPT ![f] =
                    Append(@, IF isQuant THEN "quantized" ELSE "float")]
  /\ UNCHANGED <<isQuant, state, genTxt, exec>>

Next == \E f \in Funcs : Generate(f) \/ Build(f) \/ Run(f)

Spec == Init /\ [][Next]_vars

=============================================================================
