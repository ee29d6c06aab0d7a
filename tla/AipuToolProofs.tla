--------------------------- MODULE AipuToolProofs ---------------------------
(***************************************************************************)
(* Proofs about check_call_aipu_tool (module AipuTool), for every set of   *)
(* threads, directories, return codes, log lines and bounds.               *)
(***************************************************************************)
EXTENDS AipuTool, WellFoundedInduction, TLAPS

-----------------------------------------------------------------------------
(* Lemmas about the log scan of lines 53-65.                               *)

\* A non-empty set of naturals has a least element, and Least picks it.
LEMMA LeastIsLeast ==
  ASSUME NEW S \in SUBSET Nat, S # {}
  PROVE  /\ Least(S) \in S
         /\ \A j \in S : Least(S) <= j
<1>1. \E x \in S : \A y \in S : ~(<<y, x>> \in OpToRel(<, Nat))
  BY WFMin, NatLessThanWellFounded
<1>2. \E x \in S : \A y \in S : x <= y
  <2>1. PICK x \in S : \A y \in S : ~(<<y, x>> \in OpToRel(<, Nat))
    BY <1>1
  <2>2. \A y \in S : ~(y < x)
    BY <2>1 DEF OpToRel
  <2>3. QED
    BY <2>2
<1>3. QED
  BY <1>2 DEF Least

\* The inner loop finds a non-zero count exactly when the line has a
\* positive number on it.
LEMMA LineErrorsCorrect ==
  ASSUME NEW line \in Seq(Nat)
  PROVE  /\ LineErrors(line) \in Nat
         /\ LineErrors(line) # 0 <=> \E j \in DOMAIN line : line[j] > 0
<1> DEFINE hits == {j \in DOMAIN line : line[j] > 0}
<1>1. hits \in SUBSET Nat
  OBVIOUS
<1>2. CASE hits = {}
  BY <1>2 DEF LineErrors
<1>3. CASE hits # {}
  <2>1. Least(hits) \in hits
    BY <1>1, <1>3, LeastIsLeast
  <2>2. QED
    BY <1>3, <2>1 DEF LineErrors
<1>4. QED
  BY <1>2, <1>3

\* The whole scan: count_errors is non-zero exactly when some line of the
\* log reports a positive number of errors.
LEMMA CountErrorsCorrect ==
  ASSUME LogLines \subseteq Seq(Nat), NEW lg \in Logs
  PROVE  CountErrors(lg) # 0
           <=> \E i \in DOMAIN lg : \E j \in DOMAIN lg[i] : lg[i][j] > 0
<1> DEFINE bad == {i \in DOMAIN lg : LineErrors(lg[i]) # 0}
<1>1. PICK n \in 0..MaxLogLen : lg \in [1..n -> LogLines]
  BY DEF Logs
<1>2. \A i \in DOMAIN lg : lg[i] \in Seq(Nat)
  BY <1>1
<1>3. bad \in SUBSET Nat
  BY <1>1
<1>4. CASE bad = {}
  BY <1>2, <1>4, LineErrorsCorrect DEF CountErrors
<1>5. CASE bad # {}
  <2>1. Least(bad) \in bad
    BY <1>3, <1>5, LeastIsLeast
  <2>2. QED
    BY <1>2, <1>5, <2>1, LineErrorsCorrect DEF CountErrors
<1>6. QED
  BY <1>4, <1>5

-----------------------------------------------------------------------------
(* Type correctness.                                                       *)

\* Every step of every thread keeps the state well typed.
LEMMA TypeStep == TypeOK /\ [Next]_vars => TypeOK'
<1> SUFFICES ASSUME TypeOK, [Next]_vars PROVE TypeOK'
  OBVIOUS
<1>1. ASSUME NEW t \in Threads, NEW d \in Dirs, Call(t, d) PROVE TypeOK'
  BY <1>1, ConstAssumption DEF Call, TypeOK, AllDirs, PCs, Outcomes
<1>2. ASSUME NEW t \in Threads, ChangeDir(t) PROVE TypeOK'
  BY <1>2 DEF ChangeDir, TypeOK, PCs
<1>3. ASSUME NEW t \in Threads, RunTool(t) PROVE TypeOK'
  BY <1>3 DEF RunTool, TypeOK, AllDirs, PCs, Outcomes
<1>4. ASSUME NEW t \in Threads, Finish(t) PROVE TypeOK'
  BY <1>4 DEF Finish, TypeOK, PCs, Outcomes
<1>5. CASE UNCHANGED vars
  BY <1>5 DEF vars, TypeOK
<1>6. QED
  BY <1>1, <1>2, <1>3, <1>4, <1>5 DEF Next

\* The initial state is well typed.
LEMMA TypeInit == Init => TypeOK
<1> SUFFICES ASSUME Init PROVE TypeOK
  OBVIOUS
<1>1. <<>> \in Logs
  <2>1. <<>> \in [1..0 -> LogLines]
    OBVIOUS
  <2>2. QED
    BY <2>1, ConstAssumption DEF Logs
<1>2. log \in [Threads -> Logs]
  BY <1>1 DEF Init
<1>3. /\ cwd \in AllDirs
      /\ pc \in [Threads -> PCs]
      /\ wdir \in [Threads -> AllDirs]
      /\ oldCwd \in [Threads -> AllDirs]
      /\ spawnedIn \in [Threads -> AllDirs \cup {NoDir}]
  BY DEF Init, AllDirs, PCs
<1>4. /\ ret \in [Threads -> RetCodes]
      /\ outcome \in [Threads -> Outcomes]
      /\ calls \in [Threads -> 0..MaxCalls]
  BY ConstAssumption DEF Init, Outcomes
<1>5. QED
  BY <1>2, <1>3, <1>4 DEF TypeOK

\* Every reachable state is well typed.
THEOREM TypeCorrect == Spec => []TypeOK
<1>1. QED
  BY TypeInit, TypeStep, PTL DEF Spec

-----------------------------------------------------------------------------
(* The outcome of every call matches its tool.                             *)

(* OutcomeMatchesTool is not inductive by itself: RunTool writes a new     *)
(* return code and log while outcome still holds the previous call's      *)
(* result.  It is, once we add that a thread inside a call has no outcome  *)
(* yet (Call resets it to "none").                                         *)
IInv ==
  /\ TypeOK
  /\ OutcomeMatchesTool
  /\ \A t \in Threads : pc[t] # "idle" => outcome[t] = "none"

LEMMA IInvInit == Init => IInv
<1> SUFFICES ASSUME Init PROVE IInv
  OBVIOUS
<1>1. TypeOK
  BY TypeInit
<1>2. \A t \in Threads : outcome[t] = "none"
  BY DEF Init
<1>3. OutcomeMatchesTool
  BY <1>2 DEF OutcomeMatchesTool
<1>4. QED
  BY <1>1, <1>2, <1>3 DEF IInv

LEMMA IInvNext == IInv /\ [Next]_vars => IInv'
<1> SUFFICES ASSUME IInv, [Next]_vars PROVE IInv'
  OBVIOUS
<1>1. TypeOK'
  BY TypeStep DEF IInv
<1>2. ASSUME NEW t \in Threads, NEW d \in Dirs, Call(t, d) PROVE IInv'
  BY <1>2, <1>1 DEF IInv, Call, TypeOK, OutcomeMatchesTool, ToolFailed
<1>3. ASSUME NEW t \in Threads, ChangeDir(t) PROVE IInv'
  BY <1>3, <1>1 DEF IInv, ChangeDir, TypeOK, OutcomeMatchesTool, ToolFailed
<1>4. ASSUME NEW t \in Threads, RunTool(t) PROVE IInv'
  BY <1>4, <1>1 DEF IInv, RunTool, TypeOK, OutcomeMatchesTool, ToolFailed
<1>5. ASSUME NEW t \in Threads, Finish(t) PROVE IInv'
  <2>1. CountErrors(log[t]) # 0
          <=> \E i \in DOMAIN log[t] : \E j \in DOMAIN log[t][i] : log[t][i][j] > 0
    BY ConstAssumption, CountErrorsCorrect DEF IInv, TypeOK
  <2>2. QED
    BY <1>5, <1>1, <2>1 DEF IInv, Finish, TypeOK, OutcomeMatchesTool, ToolFailed
<1>6. CASE UNCHANGED vars
  BY <1>6 DEF vars, IInv, TypeOK, OutcomeMatchesTool, ToolFailed
<1>7. QED
  BY <1>2, <1>3, <1>4, <1>5, <1>6 DEF Next

(* Whatever the threads, directories and logs, a call of                   *)
(* check_call_aipu_tool returns normally only when its tool exited 0 with  *)
(* no positive "Total errors" count, and raises RuntimeError only when it  *)
(* did not.                                                                *)
THEOREM OutcomeCorrect == Spec => []OutcomeMatchesTool
<1>1. Spec => []IInv
  BY IInvInit, IInvNext, PTL DEF Spec
<1>2. QED
  BY <1>1, PTL DEF IInv

-----------------------------------------------------------------------------
(* A single compilation task runs every tool in its work directory.        *)

\* Only one thread calls check_call_aipu_tool.
SingleThread == \A t, u \in Threads : t = u

(* ToolRunsInWorkDir is not inductive by itself: it speaks of the tool     *)
(* once spawned, but the directory it is spawned in is set two steps       *)
(* earlier.  The strengthening follows the call: between lines 27 and 30   *)
(* the process is still in old_cwd, and from line 30 to subprocess.run it  *)
(* is in work_dir (chdir'd there, or already there).                       *)
WorkDirInv ==
  /\ TypeOK
  /\ \A t \in Threads :
       /\ pc[t] = "chdir" => oldCwd[t] = cwd
       /\ pc[t] = "run" => cwd = wdir[t]
  /\ ToolRunsInWorkDir

LEMMA WorkDirInit == Init => WorkDirInv
<1> SUFFICES ASSUME Init PROVE WorkDirInv
  OBVIOUS
<1>1. TypeOK
  BY TypeInit
<1>2. QED
  BY <1>1 DEF Init, WorkDirInv, ToolRunsInWorkDir

LEMMA WorkDirNext ==
  ASSUME SingleThread
  PROVE  WorkDirInv /\ [Next]_vars => WorkDirInv'
<1> SUFFICES ASSUME WorkDirInv, [Next]_vars PROVE WorkDirInv'
  OBVIOUS
<1>1. TypeOK'
  BY TypeStep DEF WorkDirInv
<1>2. ASSUME NEW u \in Threads, NEW d \in Dirs, Call(u, d) PROVE WorkDirInv'
  BY <1>1, <1>2 DEF SingleThread, Call, WorkDirInv, ToolRunsInWorkDir, TypeOK
<1>3. ASSUME NEW u \in Threads, ChangeDir(u) PROVE WorkDirInv'
  <2>1. cwd' = wdir[u]
    BY <1>3 DEF ChangeDir, WorkDirInv
  <2>2. QED
    BY <1>1, <1>3, <2>1 DEF SingleThread, ChangeDir, WorkDirInv, ToolRunsInWorkDir, TypeOK
<1>4. ASSUME NEW u \in Threads, RunTool(u) PROVE WorkDirInv'
  BY <1>1, <1>4 DEF SingleThread, RunTool, WorkDirInv, ToolRunsInWorkDir, TypeOK
<1>5. ASSUME NEW u \in Threads, Finish(u) PROVE WorkDirInv'
  BY <1>1, <1>5 DEF SingleThread, Finish, WorkDirInv, ToolRunsInWorkDir, TypeOK
<1>6. CASE UNCHANGED vars
  BY <1>6 DEF vars, WorkDirInv, ToolRunsInWorkDir, TypeOK
<1>7. QED
  BY <1>2, <1>3, <1>4, <1>5, <1>6 DEF Next

(* When a single compilation task calls check_call_aipu_tool, every tool   *)
(* it spawns runs in that call's work directory, whatever the directories, *)
(* return codes and failures of subprocess.run.  The hypothesis is needed: *)
(* run tool_cwd_race shows a second thread's chdir moving the tool.        *)
THEOREM ToolRunsInWorkDirCorrect ==
  ASSUME SingleThread
  PROVE  Spec => []ToolRunsInWorkDir
<1>1. Spec => []WorkDirInv
  BY WorkDirInit, WorkDirNext, PTL DEF Spec
<1>2. QED
  BY <1>1, PTL DEF WorkDirInv

=============================================================================
