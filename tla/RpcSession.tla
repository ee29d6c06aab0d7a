----------------------------- MODULE RpcSession -----------------------------
(***************************************************************************)
(* check_remote (python/tvm/aipu/utils.py, lines 162-173) asks whether an  *)
(* AIPU device is reachable: it runs get_rpc_session (lines 106-159) in a  *)
(* one-worker PopenPoolExecutor whose calls time out after 10 seconds,     *)
(* returns False on TimeoutError and True when the call returns.           *)
(*                                                                         *)
(* get_rpc_session resolves each setting from its argument and an         *)
(* environment variable with Python's `or`, asserts every setting is       *)
(* truthy and the key is among AIPU_TVM_VALID_RPC_KEYS when that is set,   *)
(* and requests a session from the RPC tracker.  The tracker may grant     *)
(* one, answer with an error (an unknown key: the call raises) or keep the*)
(* request waiting for a free device, which takes no step at all.          *)
(***************************************************************************)
EXTENDS Naturals

CONSTANTS
  Keys, Hosts, Ports,  \* values of the key, tracker host and tracker port
  EnvPriorities,       \* numbers AIPU_TVM_RPC_PRIORITY may hold, as text
  None,                \* an unset argument or environment variable
  MaxCalls             \* bound on the calls of check_remote

ASSUME RpcAssumption ==
  /\ None \notin Keys \cup Hosts \cup Ports
  /\ None \notin [key : Keys, host : Hosts, port : Ports, priority : Nat]
  /\ EnvPriorities \subseteq Nat
  /\ MaxCalls \in Nat

\* The environment variables get_rpc_session reads.  An empty variable is
\* falsy like an unset one; AIPU_TVM_VALID_RPC_KEYS is given by the keys
\* it lists after the split and strip of line 152 (a non-empty text such
\* as "|" lists none).
Envs ==
  [key : Keys \cup {None}, host : Hosts \cup {None}, port : Ports \cup {None},
   priority : {None} \cup {[text |-> n] : n \in EnvPriorities},
   valid : {None} \cup SUBSET Keys]

\* The arguments check_remote is called with.
Args == [key : Keys \cup {None}, host : Hosts \cup {None}, port : Ports \cup {None}]

\* A priority argument: the int n.
IntArg(n) == [int |-> n]

\* Python truthiness of a setting: None and the int 0 are falsy; a text,
\* "0" included, is not.
Truthy(x) == x # None /\ x # IntArg(0)

\* Python's `x or y`.
Or(x, y) == IF Truthy(x) THEN x ELSE y

\* int() of a resolved priority.
IntOf(p) == IF "int" \in DOMAIN p THEN p.int ELSE p.text

\* Mutant: AIPU_TVM_VALID_RPC_KEYS not consulted.
KeyAllowedAlways(key, e) == TRUE

(* Lines 150-155: with AIPU_TVM_VALID_RPC_KEYS set, the key must be one   *)
(* of those it lists.                                                      *)
KeyAllowed(key, e) == IF e.valid = None THEN TRUE ELSE key \in e.valid

(* Lines 139-147: the settings get_rpc_session resolves from arguments a  *)
(* and the priority argument prio.  The key argument wins over the         *)
(* environment; for host, port and priority the environment wins.          *)
Resolve(a, e, prio) ==
  [key |-> Or(a.key, e.key), host |-> Or(e.host, a.host),
   port |-> Or(e.port, a.port), priority |-> Or(e.priority, prio)]

\* Lines 141-155: the asserts on the resolved settings s.
Asserted(s, e) ==
  /\ Truthy(s.key) /\ Truthy(s.host) /\ Truthy(s.port) /\ Truthy(s.priority)
  /\ KeyAllowed(s.key, e)

\* Lines 157-159: the request made with them.
Request(s) == [s EXCEPT !.priority = IntOf(@)]

\* Mutant: a pool made without timeout=.
PoolTimeoutNone == None

\* Line 164: the pool's timeout, in seconds.
PoolTimeout == 10

VARIABLES
  env,     \* the process environment
  pc,      \* the caller: "idle", "waiting" on result(), "done"
  args,    \* the arguments of the current call
  worker,  \* the pool worker running _check
  req,     \* the request the worker made, None before
  result,  \* how the last call of check_remote ended
  calls    \* calls of check_remote made

vars == <<env, pc, args, worker, req, result, calls>>

Workers == {"none", "started", "requesting", "granted", "raised", "killed"}
Results == {"none", "True", "False", "raised"}

Init ==
  /\ env \in Envs
  /\ pc = "idle"
  /\ args = [key |-> None, host |-> None, port |-> None]
  /\ worker = "none"
  /\ req = None
  /\ result = "none"
  /\ calls = 0

\* Lines 164-170: a new pool, _check submitted, the caller blocks on result().
CheckRemote(a) ==
  /\ pc \in {"idle", "done"}
  /\ calls < MaxCalls
  /\ pc' = "waiting"
  /\ args' = a
  /\ worker' = "started"
  /\ req' = None
  /\ result' = "none"
  /\ calls' = calls + 1
  /\ UNCHANGED env

(* Line 167 in the worker: get_rpc_session(5, key, host, port, 100)        *)
(* resolves its settings; an assert failing raises in the worker.          *)
ResolveSettings ==
  LET s == Resolve(args, env, IntArg(100)) IN
  /\ worker = "started"
  /\ \/ /\ ~Asserted(s, env)
        /\ worker' = "raised"
        /\ UNCHANGED req
     \/ /\ Asserted(s, env)
        /\ worker' = "requesting"
        /\ req' = Request(s)
  /\ UNCHANGED <<env, pc, args, result, calls>>

\* Lines 157-159: the tracker grants a session; _check returns.
Grant ==
  /\ worker = "requesting"
  /\ worker' = "granted"
  /\ UNCHANGED <<env, pc, args, req, result, calls>>

\* The tracker answers the request with an error: the call raises.
Refuse ==
  /\ worker = "requesting"
  /\ worker' = "raised"
  /\ UNCHANGED <<env, pc, args, req, result, calls>>

(* The pool's timer: a worker still running when the timeout expires is   *)
(* killed and result() raises TimeoutError, which lines 171-172 turn into  *)
(* False.  It races a late answer of the tracker.                          *)
Timeout ==
  /\ PoolTimeout # None
  /\ pc = "waiting"
  /\ worker \in {"started", "requesting"}
  /\ worker' = "killed"
  /\ result' = "False"
  /\ pc' = "done"
  /\ UNCHANGED <<env, args, req, calls>>

(* Lines 170-173: result() returns what the worker did: True after a       *)
(* normal return; an exception of the worker propagates out of             *)
(* check_remote unless it is a TimeoutError.                               *)
Collect ==
  /\ pc = "waiting"
  /\ worker \in {"granted", "raised"}
  /\ result' = IF worker = "granted" THEN "True" ELSE "raised"
  /\ pc' = "done"
  /\ UNCHANGED <<env, args, worker, req, calls>>

Next ==
  \/ \E a \in Args : CheckRemote(a)
  \/ ResolveSettings
  \/ Grant
  \/ Refuse
  \/ Timeout
  \/ Collect

Spec == Init /\ [][Next]_vars

(* The pool's timer fires once its timeout has passed, and a waiting       *)
(* caller is handed the result of a finished worker; neither the tracker   *)
(* nor the worker is assumed to answer.                                    *)
FairSpec == Spec /\ WF_vars(Timeout) /\ WF_vars(Collect)

-----------------------------------------------------------------------------
TypeOK ==
  /\ env \in Envs
  /\ pc \in {"idle", "waiting", "done"}
  /\ args \in Args \cup {[key |-> None, host |-> None, port |-> None]}
  /\ worker \in Workers
  /\ req = None \/ req.priority \in Nat
  /\ result \in Results
  /\ calls \in 0..MaxCalls

(* check_remote always comes back, even when the tracker never answers:    *)
(* the 10 second timeout of its pool (line 164) ends every wait.           *)
CheckRemoteReturns == pc = "waiting" ~> pc = "done"

(* check_remote says a device is available only when a session was       *)
(* granted on a request that passed get_rpc_session's checks: a key that   *)
(* AIPU_TVM_VALID_RPC_KEYS lists when it is set, and a non-zero port,      *)
(* host and key (lines 140-155).                                           *)
TrueOnlyForAllowedSession ==
  result = "True" =>
    /\ worker = "granted"
    /\ req # None
    /\ env.valid # None => req.key \in env.valid
    /\ req.key # None /\ req.host # None /\ req.port # None

(* The docstring: check_remote checks whether the remote device is         *)
(* available or not -- every call ends with True or False.                 *)
CheckRemoteAnswers == pc = "done" => result \in {"True", "False"}

=============================================================================
