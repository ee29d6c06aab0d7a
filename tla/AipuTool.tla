------------------------------ MODULE AipuTool ------------------------------
(***************************************************************************)
(* check_call_aipu_tool (python/tvm/aipu/utils.py) runs one AIPUBuilder    *)
(* tool (aipugsim, aipuopt, ...) as a subprocess inside a work directory.  *)
(* It changes the *process-wide* current directory to the work directory,  *)
(* spawns the tool (which inherits that directory), scans the tool's log   *)
(* for "Total errors: N" and restores the old directory.                   *)
(*                                                                         *)
(* Every thread of Threads is one compilation task that calls the function *)
(* up to MaxCalls times.  The process current directory `cwd` is the one   *)
(* piece of state the threads share.  The log is abstracted to, per line,  *)
(* the list of numbers the regex "(?<=Total errors: )\d+" finds in it.     *)
(***************************************************************************)
EXTENDS Naturals, Sequences, FiniteSets

CONSTANTS
  Threads,      \* compilation tasks calling check_call_aipu_tool
  Dirs,         \* absolute, normalised work directories
  InitCwd,      \* the process directory when compilation starts
  NoDir,        \* "no tool spawned in this call (yet)"
  RetCodes,     \* return codes a tool may exit with
  LogLines,     \* possible lines of a log, as lists of error counts found
  MaxLogLen,    \* bound on the number of lines of a log
  MaxCalls,     \* bound on the calls one thread makes
  RunMayRaise   \* whether subprocess.run itself may raise (tool missing)

ASSUME ConstAssumption ==
  /\ Threads # {}
  /\ InitCwd \notin {NoDir}
  /\ NoDir \notin Dirs
  /\ 0 \in RetCodes /\ RetCodes \subseteq Nat
  /\ LogLines \subseteq Seq(Nat)
  /\ MaxLogLen \in Nat
  /\ MaxCalls \in Nat
  /\ RunMayRaise \in BOOLEAN

\* The directories the process can be in.
AllDirs == Dirs \cup {InitCwd}

\* The logs a tool can write: up to MaxLogLen lines.
Logs == UNION {[1..n -> LogLines] : n \in 0..MaxLogLen}

\* Program counters: "idle" between calls, then the points of the function
\* at which another thread may be scheduled.
PCs == {"idle", "chdir", "run", "check"}

\* How the last call of a thread ended.
Outcomes == {"none", "ok", "RuntimeError", "OSError"}

VARIABLES
  cwd,        \* the process current directory (os.getcwd())
  pc,         \* pc[t]: where thread t is in check_call_aipu_tool
  wdir,       \* wdir[t]: the local work_dir of the current call
  oldCwd,     \* oldCwd[t]: the local old_cwd of the current call
  spawnedIn,  \* spawnedIn[t]: directory the tool of this call ran in
  ret,        \* ret[t]: the local ret_code
  log,        \* log[t]: the content of the call's log file
  outcome,    \* outcome[t]: how the last call of t ended
  calls       \* calls[t]: number of calls t has made (bounded)

vars == <<cwd, pc, wdir, oldCwd, spawnedIn, ret, log, outcome, calls>>

-----------------------------------------------------------------------------
(* The log scan, lines 53-65: for each line, for each number found on it,  *)
(* the first one that is > 0 becomes count_errors and ends both loops.     *)

\* The least element of a non-empty set of naturals.
Least(S) == CHOOSE i \in S : \A j \in S : i <= j

\* Mutant: the first number found, whether it is > 0 or not.
LineErrorsFirst(line) == IF line = <<>> THEN 0 ELSE line[1]

\* Inner loop: the first positive number of one line, 0 if there is none.
LineErrors(line) ==
  LET hits == {j \in DOMAIN line : line[j] > 0}
  IN  IF hits = {} THEN 0 ELSE line[Least(hits)]

\* Outer loop: count_errors for a whole log.
CountErrors(lg) ==
  LET bad == {i \in DOMAIN lg : LineErrors(lg[i]) # 0}
  IN  IF bad = {} THEN 0 ELSE LineErrors(lg[Least(bad)])

-----------------------------------------------------------------------------
Init ==
  /\ cwd = InitCwd
  /\ pc = [t \in Threads |-> "idle"]
  /\ wdir = [t \in Threads |-> InitCwd]
  /\ oldCwd = [t \in Threads |-> InitCwd]
  /\ spawnedIn = [t \in Threads |-> NoDir]
  /\ ret = [t \in Threads |-> 0]
  /\ log = [t \in Threads |-> <<>>]
  /\ outcome = [t \in Threads |-> "none"]
  /\ calls = [t \in Threads |-> 0]

(* Lines 24-27: the call with work_dir d; work_dir is made absolute (d is  *)
(* already) and old_cwd = os.getcwd() reads the shared directory.          *)
Call(t, d) ==
  /\ pc[t] = "idle"
  /\ calls[t] < MaxCalls
  /\ pc' = [pc EXCEPT ![t] = "chdir"]
  /\ wdir' = [wdir EXCEPT ![t] = d]
  /\ oldCwd' = [oldCwd EXCEPT ![t] = cwd]
  /\ spawnedIn' = [spawnedIn EXCEPT ![t] = NoDir]
  /\ outcome' = [outcome EXCEPT ![t] = "none"]
  /\ calls' = [calls EXCEPT ![t] = @ + 1]
  /\ UNCHANGED <<cwd, ret, log>>

\* Mutant: makedirs without the os.chdir of line 30.
ChangeDirNoChdir(t) ==
  /\ pc[t] = "chdir"
  /\ pc' = [pc EXCEPT ![t] = "run"]
  /\ UNCHANGED <<cwd, wdir, oldCwd, spawnedIn, ret, log, outcome, calls>>

(* Lines 28-30: if work_dir != old_cwd, makedirs and os.chdir(work_dir).   *)
(* The comparison is against the local old_cwd read at line 27.            *)
ChangeDir(t) ==
  /\ pc[t] = "chdir"
  /\ \/ /\ wdir[t] # oldCwd[t]
        /\ cwd' = wdir[t]
     \/ /\ wdir[t] = oldCwd[t]
        /\ UNCHANGED cwd
  /\ pc' = [pc EXCEPT ![t] = "run"]
  /\ UNCHANGED <<wdir, oldCwd, spawnedIn, ret, log, outcome, calls>>

\* Mutant: the log opened in append mode ("a" for "w" at line 34), so a
\* call sees the lines of the earlier calls too.
RunToolAppendLog(t) ==
  /\ pc[t] = "run"
  /\ spawnedIn' = [spawnedIn EXCEPT ![t] = cwd]
  /\ \E r \in RetCodes, lg \in Logs :
       /\ ret' = [ret EXCEPT ![t] = r]
       /\ log' = [log EXCEPT ![t] = @ \o lg]
  /\ pc' = [pc EXCEPT ![t] = "check"]
  /\ UNCHANGED <<cwd, wdir, oldCwd, calls, outcome>>

(* Lines 32-51: open the log, subprocess.run(cmd) without cwd=, so the     *)
(* tool runs in the process directory of the moment; it exits with some    *)
(* return code after writing its log.  If run() itself raises (the tool    *)
(* cannot be executed) the exception leaves the function at once: lines    *)
(* 53-74, the directory restore included, are skipped.                     *)
RunTool(t) ==
  /\ pc[t] = "run"
  /\ \/ /\ spawnedIn' = [spawnedIn EXCEPT ![t] = cwd]
        /\ \E r \in RetCodes, lg \in Logs :
             /\ ret' = [ret EXCEPT ![t] = r]
             /\ log' = [log EXCEPT ![t] = lg]
        /\ pc' = [pc EXCEPT ![t] = "check"]
        /\ UNCHANGED outcome
     \/ /\ RunMayRaise
        /\ pc' = [pc EXCEPT ![t] = "idle"]
        /\ outcome' = [outcome EXCEPT ![t] = "OSError"]
        /\ UNCHANGED <<spawnedIn, ret, log>>
  /\ UNCHANGED <<cwd, wdir, oldCwd, calls>>

(* Lines 53-74: scan the log, restore old_cwd if the process is elsewhere  *)
(* (after the check the directory is old_cwd either way), then raise       *)
(* RuntimeError if ret_code != 0 or count_errors != 0, else return.        *)
Finish(t) ==
  /\ pc[t] = "check"
  /\ cwd' = oldCwd[t]
  /\ outcome' = [outcome EXCEPT ![t] =
                   IF ret[t] # 0 \/ CountErrors(log[t]) # 0
                   THEN "RuntimeError" ELSE "ok"]
  /\ pc' = [pc EXCEPT ![t] = "idle"]
  /\ UNCHANGED <<wdir, oldCwd, spawnedIn, ret, log, calls>>

Next ==
  \E t \in Threads :
    \/ \E d \in Dirs : Call(t, d)
    \/ ChangeDir(t)
    \/ RunTool(t)
    \/ Finish(t)

Spec == Init /\ [][Next]_vars

-----------------------------------------------------------------------------
TypeOK ==
  /\ cwd \in AllDirs
  /\ pc \in [Threads -> PCs]
  /\ wdir \in [Threads -> AllDirs]
  /\ oldCwd \in [Threads -> AllDirs]
  /\ spawnedIn \in [Threads -> AllDirs \cup {NoDir}]
  /\ ret \in [Threads -> RetCodes]
  /\ log \in [Threads -> Logs]
  /\ outcome \in [Threads -> Outcomes]
  /\ calls \in [Threads -> 0..MaxCalls]

\* A tool is failed when it exits non-zero or its log reports errors.
ToolFailed(t) ==
  \/ ret[t] # 0
  \/ \E i \in DOMAIN log[t] : \E j \in DOMAIN log[t][i] : log[t][i][j] > 0

(* The call raises RuntimeError exactly when its tool failed: a normal     *)
(* return of check_call_aipu_tool never hides a non-zero exit code or a    *)
(* "Total errors: N" line with N > 0 anywhere in the log (lines 53-74).    *)
OutcomeMatchesTool ==
  \A t \in Threads :
    /\ outcome[t] = "ok" => ~ToolFailed(t)
    /\ outcome[t] = "RuntimeError" => ToolFailed(t)

(* Every tool a call spawns runs in that call's work directory: the        *)
(* process directory at subprocess.run (line 43) is the work_dir of the    *)
(* calling thread, so the tool reads and writes that function's files.     *)
ToolRunsInWorkDir ==
  \A t \in Threads : spawnedIn[t] # NoDir => spawnedIn[t] = wdir[t]

(* Whenever no thread is inside check_call_aipu_tool, the process is back  *)
(* in the directory compilation started in: a call, failed or not, leaves  *)
(* os.getcwd() as it found it (lines 27-30 and 67-68).                     *)
CwdRestoredWhenIdle ==
  (\A t \in Threads : pc[t] = "idle") => cwd = InitCwd

=============================================================================
