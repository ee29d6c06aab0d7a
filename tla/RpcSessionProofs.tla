-------------------------- MODULE RpcSessionProofs ---------------------------
(***************************************************************************)
(* Proofs about check_remote and get_rpc_session (module RpcSession), for  *)
(* every set of keys, hosts, ports and environment priorities.             *)
(***************************************************************************)
EXTENDS RpcSession, TLAPS

\* The settings the worker of the current call resolves (lines 139-147).
Settings == Resolve(args, env, IntArg(100))

(* TrueOnlyForAllowedSession is not inductive by itself: it speaks of the  *)
(* request only once result() has returned True, while the request is     *)
(* made two steps earlier.  The strengthening says that a worker that is   *)
(* requesting or was granted a session passed the asserts of lines         *)
(* 141-155 and requested exactly the resolved settings, and that True is   *)
(* only ever returned for the granted worker of the current call.          *)
IInv ==
  /\ TypeOK
  /\ worker \in {"requesting", "granted"} =>
       Asserted(Settings, env) /\ req = Request(Settings)
  /\ result = "True" => worker = "granted"

-----------------------------------------------------------------------------
(* The request made with resolved settings.                                *)

\* The priority get_rpc_session passes to the tracker is a natural: the
\* number of AIPU_TVM_RPC_PRIORITY when that is set, else the 100 of
\* check_remote.
LEMMA RequestPriority ==
  ASSUME NEW e \in Envs, NEW a \in Args
  PROVE  Request(Resolve(a, e, IntArg(100))).priority \in Nat
<1> DEFINE p == Or(e.priority, IntArg(100))
<1>1. Request(Resolve(a, e, IntArg(100))).priority = IntOf(p)
  BY DEF Request, Resolve
<1>2. CASE Truthy(e.priority)
  <2>1. PICK n \in EnvPriorities : e.priority = [text |-> n]
    BY <1>2 DEF Truthy, Envs
  <2>2. p = [text |-> n]
    BY <1>2, <2>1 DEF Or
  <2>3. IntOf(p) = n
    BY <2>2 DEF IntOf
  <2>4. QED
    BY <1>1, <2>3, RpcAssumption
<1>3. CASE ~Truthy(e.priority)
  <2>1. p = IntArg(100)
    BY <1>3 DEF Or
  <2>2. IntOf(p) = 100
    BY <2>1 DEF IntOf, IntArg
  <2>3. QED
    BY <1>1, <2>2
<1>4. QED
  BY <1>2, <1>3

-----------------------------------------------------------------------------
(* Type correctness.                                                       *)

\* No step leaves the types.
LEMMA TypeStep == TypeOK /\ [Next]_vars => TypeOK'
<1> SUFFICES ASSUME TypeOK, [Next]_vars PROVE TypeOK'
  OBVIOUS
<1>1. ASSUME NEW a \in Args, CheckRemote(a) PROVE TypeOK'
  <2>1. calls' \in 0..MaxCalls
    BY <1>1, RpcAssumption DEF CheckRemote, TypeOK
  <2>2. env' \in Envs /\ args' \in Args
    BY <1>1 DEF CheckRemote, TypeOK
  <2>3. pc' \in {"idle", "waiting", "done"} /\ worker' \in Workers /\ req' = None
        /\ result' \in Results
    BY <1>1 DEF CheckRemote, Workers, Results
  <2>4. QED
    BY <2>1, <2>2, <2>3 DEF TypeOK
<1>2. CASE ResolveSettings
  <2>1. args \in Args
    BY DEF TypeOK, Args
  <2>2. req' = None \/ req'.priority \in Nat
    BY <1>2, <2>1, RequestPriority DEF ResolveSettings, TypeOK
  <2>3. QED
    BY <1>2, <2>2 DEF ResolveSettings, TypeOK, Workers
<1>3. CASE Grant
  BY <1>3 DEF Grant, TypeOK, Workers
<1>4. CASE Refuse
  BY <1>4 DEF Refuse, TypeOK, Workers
<1>5. CASE Timeout
  BY <1>5 DEF Timeout, TypeOK, Workers, Results
<1>6. CASE Collect
  BY <1>6 DEF Collect, TypeOK, Results
<1>7. CASE UNCHANGED vars
  BY <1>7 DEF vars, TypeOK
<1>8. QED
  BY <1>1, <1>2, <1>3, <1>4, <1>5, <1>6, <1>7 DEF Next

\* The initial states are well typed.
LEMMA TypeInit == Init => TypeOK
BY RpcAssumption DEF Init, TypeOK, Workers, Results, Args

(* Every state check_remote can reach is well typed; in particular every   *)
(* request made to the tracker carries an integer priority (the int() of   *)
(* line 158 never fails on the values the model allows).                   *)
THEOREM TypeCorrect == Spec => []TypeOK
BY TypeInit, TypeStep, PTL DEF Spec

-----------------------------------------------------------------------------
(* True only for an allowed session.                                       *)

\* A request made after the asserts passed names a real key, host and port
\* (none of them unset or empty) and a key the valid-key list allows.
LEMMA AssertedRequest ==
  ASSUME NEW e \in Envs, NEW a \in Args,
         Asserted(Resolve(a, e, IntArg(100)), e)
  PROVE  LET r == Request(Resolve(a, e, IntArg(100)))
         IN  /\ r \in [key : Keys, host : Hosts, port : Ports, priority : Nat]
             /\ e.valid # None => r.key \in e.valid
<1> DEFINE s == Resolve(a, e, IntArg(100))
           r == Request(s)
<1>1. r = [key |-> s.key, host |-> s.host, port |-> s.port,
           priority |-> IntOf(s.priority)]
  BY DEF Request, Resolve
<1>2. s.key \in Keys
  <2>1. s.key = Or(a.key, e.key) /\ Truthy(s.key)
    BY DEF Resolve, Asserted
  <2>2. QED
    BY <2>1 DEF Or, Truthy, Args, Envs
<1>3. s.host \in Hosts
  <2>1. s.host = Or(e.host, a.host) /\ Truthy(s.host)
    BY DEF Resolve, Asserted
  <2>2. QED
    BY <2>1 DEF Or, Truthy, Args, Envs
<1>4. s.port \in Ports
  <2>1. s.port = Or(e.port, a.port) /\ Truthy(s.port)
    BY DEF Resolve, Asserted
  <2>2. QED
    BY <2>1 DEF Or, Truthy, Args, Envs
<1>5. r.priority \in Nat
  BY RequestPriority
<1>6. e.valid # None => s.key \in e.valid
  BY DEF Asserted, KeyAllowed
<1>7. QED
  BY <1>1, <1>2, <1>3, <1>4, <1>5, <1>6

\* The initial states satisfy the strengthening.
LEMMA IInvInit == Init => IInv
BY TypeInit DEF Init, IInv

\* Every step keeps the strengthening.
LEMMA IInvNext == IInv /\ [Next]_vars => IInv'
<1> SUFFICES ASSUME IInv, [Next]_vars PROVE IInv'
  OBVIOUS
<1>1. TypeOK'
  BY TypeStep DEF IInv
<1>2. ASSUME NEW a \in Args, CheckRemote(a) PROVE IInv'
  BY <1>1, <1>2 DEF CheckRemote, IInv
<1>3. CASE ResolveSettings
  <2>1. Settings' = Settings
    BY <1>3 DEF ResolveSettings, Settings
  <2>2. result # "True"
    BY <1>3 DEF ResolveSettings, IInv
  <2>3. QED
    BY <1>1, <1>3, <2>1, <2>2 DEF ResolveSettings, IInv, Settings
<1>4. CASE Grant
  BY <1>1, <1>4 DEF Grant, IInv, Settings
<1>5. CASE Refuse
  BY <1>1, <1>5 DEF Refuse, IInv
<1>6. CASE Timeout
  BY <1>1, <1>6 DEF Timeout, IInv
<1>7. CASE Collect
  BY <1>1, <1>7 DEF Collect, IInv, Settings
<1>8. CASE UNCHANGED vars
  BY <1>1, <1>8 DEF vars, IInv, Settings
<1>9. QED
  BY <1>2, <1>3, <1>4, <1>5, <1>6, <1>7, <1>8 DEF Next

\* The strengthening implies the property.
LEMMA IInvTrueOnly == IInv => TrueOnlyForAllowedSession
<1> SUFFICES ASSUME IInv, result = "True"
             PROVE  /\ worker = "granted"
                    /\ req # None
                    /\ env.valid # None => req.key \in env.valid
                    /\ req.key # None /\ req.host # None /\ req.port # None
  BY DEF TrueOnlyForAllowedSession
<1>1. worker = "granted" /\ Asserted(Settings, env) /\ req = Request(Settings)
  BY DEF IInv
<1>2. env \in Envs /\ args \in Args
  BY DEF IInv, TypeOK, Args
<1>3. /\ req \in [key : Keys, host : Hosts, port : Ports, priority : Nat]
      /\ env.valid # None => req.key \in env.valid
  BY <1>1, <1>2, AssertedRequest DEF Settings
<1>4. QED
  BY <1>1, <1>3, RpcAssumption

(* check_remote returns True only when the tracker granted a session to a  *)
(* request that passed get_rpc_session's asserts: a key, host and port     *)
(* that are set, and a key AIPU_TVM_VALID_RPC_KEYS lists when it is set.   *)
(* This holds for every environment and every sequence of calls, timeouts *)
(* and tracker answers.                                                    *)
THEOREM TrueOnlyForAllowedSessionCorrect == Spec => []TrueOnlyForAllowedSession
<1>1. Spec => []IInv
  BY IInvInit, IInvNext, PTL DEF Spec
<1>2. QED
  BY <1>1, IInvTrueOnly, PTL

=============================================================================
