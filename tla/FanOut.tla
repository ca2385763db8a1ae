------------------------------- MODULE FanOut -------------------------------
(***************************************************************************)
(* One tool call that runs against several targets at once:                *)
(* getClusterKubeconfigFanOut, execInClusterFanOut with execOneTarget, and *)
(* runFanOut with callOneTarget for the embedded tools.  The handler       *)
(* starts a goroutine per target, waits for all of them on a               *)
(* sync.WaitGroup and answers with one result per target.                  *)
(*                                                                         *)
(* Which targets are selected is TargetSelection's matter: here they are   *)
(* 1 .. n.  fault[i] is the one thing that is wrong with target i, if any. *)
(* A goroutine's steps are those at which others may come in between: a    *)
(* request to an API server, a command, the assignment to results[i], and  *)
(* the deferred wg.Done.                                                   *)
(***************************************************************************)
EXTENDS Naturals

CONSTANT N   \* the most targets a call has

ASSUME NAssumption == N \in Nat

Positions == 1 .. N

Tools == {"kubeconfig", "exec", "embedded"}

Faults == {"none",
           "resolve",      \* no admin kubeconfig for the target
           "credential",   \* no read-only token, or no OpenStack credentials
           "run",          \* the command or the handler returns an error
           "exit"}         \* the command exits with another code than 0, or the
                           \* handler's result has IsError

VARIABLES
  tool, readonly, n, fault,   \* the call and its targets, which never change
  phase,      \* the handler: selecting, spawning, answered
  next,       \* the loop variable i
  cancelled,  \* the request's context
  pending,    \* the goroutines the WaitGroup counts
  pc,         \* where each goroutine is
  cred,       \* the kubeconfig it works with: none, admin, readonly
  osEnv,      \* the goroutines that have OpenStack credentials
  outcome,    \* what came of a target
  results,    \* results[i]
  answer      \* none, rejected, ok, error (IsError is set)

input == <<tool, readonly, n, fault>>
worker == <<pc, cred, osEnv, outcome>>
vars == <<input, phase, next, cancelled, pending, worker, results, answer>>

Outcomes == {"admin", "readonly", "ok", "failed", "error"}

\* The embedded tools are not told readonly: they work with admin kubeconfigs.
Init ==
  /\ tool \in Tools
  /\ readonly \in IF tool = "embedded" THEN {FALSE} ELSE BOOLEAN
  /\ n \in 0 .. N
  /\ fault \in {f \in [Positions -> Faults] : \A i \in Positions : i > n => f[i] = "none"}
  /\ phase = "selecting" /\ next = 1 /\ cancelled = FALSE /\ pending = {}
  /\ pc = [i \in Positions |-> "none"]
  /\ cred = [i \in Positions |-> "none"]
  /\ osEnv = {}
  /\ outcome = [i \in Positions |-> "none"]
  /\ results = [i \in Positions |-> "none"]
  /\ answer = "none"

-----------------------------------------------------------------------------
(* The handler.                                                            *)

\* ResolveClusterPatterns: an error, like an empty command, ends the call.
SelectTargets ==
  /\ phase = "selecting"
  /\ \/ phase' = "spawning" /\ UNCHANGED answer
     \/ phase' = "answered" /\ answer' = "rejected"
  /\ UNCHANGED <<input, next, cancelled, pending, worker, results>>

\* Mutant: wg.Add(1) is left to the goroutine, which may be late.
SpawnUncounted ==
  /\ phase = "spawning"
  /\ next <= n
  /\ next' = next + 1
  /\ pc' = [pc EXCEPT ![next] = IF tool = "embedded" THEN "handle" ELSE "resolve"]
  /\ UNCHANGED <<input, phase, cancelled, pending, cred, osEnv, outcome, results, answer>>

\* Mutant: the loop runs past its last target.
SpawnPastLast ==
  /\ phase = "spawning"
  /\ next <= n + 1
  /\ next' = next + 1
  /\ pending' = pending \cup {next}
  /\ pc' = [pc EXCEPT ![next] = IF tool = "embedded" THEN "handle" ELSE "resolve"]
  /\ UNCHANGED <<input, phase, cancelled, cred, osEnv, outcome, results, answer>>

\* wg.Add(1) and the go statement.
Spawn ==
  /\ phase = "spawning"
  /\ next <= n
  /\ next' = next + 1
  /\ pending' = pending \cup {next}
  /\ pc' = [pc EXCEPT ![next] = IF tool = "embedded" THEN "handle" ELSE "resolve"]
  /\ UNCHANGED <<input, phase, cancelled, cred, osEnv, outcome, results, answer>>

\* Mutant: an exit code is not an error.
FailedOnlyByError(r) == r = "error"

\* A result that sets IsError on the whole answer: an error, an exit code other
\* than 0, an embedded result with IsError.
Failed(r) == r \in {"error", "failed"}

\* wg.Wait returns; the flag is computed from the results.
Answer ==
  /\ phase = "spawning"
  /\ next > n
  /\ pending = {}
  /\ phase' = "answered"
  /\ answer' = IF \E i \in 1 .. n : Failed(results[i]) THEN "error" ELSE "ok"
  /\ UNCHANGED <<input, next, cancelled, pending, worker, results>>

\* The client goes away.
Cancel ==
  /\ phase # "answered"
  /\ ~cancelled
  /\ cancelled' = TRUE
  /\ UNCHANGED <<input, phase, next, pending, worker, results, answer>>

-----------------------------------------------------------------------------
(* The goroutine of target i.                                              *)

main == <<input, phase, next, cancelled, pending, answer>>

\* The goroutine has its result.
Yields(i, o) ==
  /\ outcome' = [outcome EXCEPT ![i] = o]
  /\ pc' = [pc EXCEPT ![i] = "store"]

\* Mutant: one failure cancels the context that all goroutines share.
FailsTogether(i, f, o) ==
  /\ fault[i] = f \/ cancelled \/ \E j \in Positions : outcome[j] \in {"error", "failed"}
  /\ Yields(i, o)
  /\ UNCHANGED <<main, cred, osEnv, results>>

\* A step of i fails, because of i's own fault or of the cancelled request.
Fails(i, f, o) ==
  /\ fault[i] = f \/ cancelled
  /\ Yields(i, o)
  /\ UNCHANGED <<main, cred, osEnv, results>>

\* ResolveTarget, or its equivalent in execOneTarget, and what comes next.  A
\* hit in the kubeconfig cache is an answer also after the cancellation.
Resolve(i) ==
  /\ pc[i] = "resolve"
  /\ \/ Fails(i, "resolve", "error")
     \/ /\ fault[i] # "resolve"
        /\ cred' = [cred EXCEPT ![i] = "admin"]
        /\ \/ /\ readonly
              /\ pc' = [pc EXCEPT ![i] = "mint"]
              /\ UNCHANGED outcome
           \/ /\ ~readonly /\ tool = "exec"
              /\ pc' = [pc EXCEPT ![i] = "env"]
              /\ UNCHANGED outcome
           \/ /\ ~readonly /\ tool = "kubeconfig"
              /\ Yields(i, "admin")
        /\ UNCHANGED <<main, osEnv, results>>

\* Mutant: without a token the call goes on with the admin kubeconfig.
MintOrAdmin(i) ==
  /\ pc[i] = "mint"
  /\ cred' = [cred EXCEPT ![i] = IF fault[i] = "credential" THEN "admin" ELSE "readonly"]
  /\ \/ tool = "exec" /\ pc' = [pc EXCEPT ![i] = "run"] /\ UNCHANGED outcome
     \/ tool = "kubeconfig" /\ Yields(i, cred'[i])
  /\ UNCHANGED <<main, osEnv, results>>

\* readOnlyKubeconfig.
Mint(i) ==
  /\ pc[i] = "mint"
  /\ \/ Fails(i, "credential", "error")
     \/ /\ fault[i] # "credential" /\ ~cancelled
        /\ cred' = [cred EXCEPT ![i] = "readonly"]
        /\ \/ tool = "exec" /\ pc' = [pc EXCEPT ![i] = "run"] /\ UNCHANGED outcome
           \/ tool = "kubeconfig" /\ Yields(i, "readonly")
        /\ UNCHANGED <<main, osEnv, results>>

\* FetchOpenStackEnv: a cluster without OpenStackCluster, Secret or cloud is an
\* error, too.
FetchEnv(i) ==
  /\ pc[i] = "env"
  /\ \/ Fails(i, "credential", "error")
     \/ /\ fault[i] # "credential" /\ ~cancelled
        /\ osEnv' = osEnv \cup {i}
        /\ pc' = [pc EXCEPT ![i] = "run"]
        /\ UNCHANGED <<main, cred, outcome, results>>

\* exec.WithKubeconfig.  A command that is killed, or not started, because of
\* the cancellation has an exit code other than 0.
Run(i) ==
  /\ pc[i] = "run"
  /\ \/ fault[i] = "run" /\ Yields(i, "error")
     \/ fault[i] = "exit" /\ Yields(i, "failed")
     \/ fault[i] \notin {"run", "exit"} /\ cancelled /\ Yields(i, "failed")
     \/ fault[i] \notin {"run", "exit"} /\ Yields(i, "ok")
  /\ UNCHANGED <<main, cred, osEnv, results>>

\* The handler of kubernetes-mcp-server, which makes a result of an unknown
\* target, too.
CallHandler(i) ==
  /\ pc[i] = "handle"
  /\ \/ fault[i] = "run" /\ Yields(i, "error")
     \/ fault[i] \in {"resolve", "exit"} /\ Yields(i, "failed")
     \/ cancelled /\ (Yields(i, "error") \/ Yields(i, "failed"))
     \/ fault[i] \notin {"resolve", "run", "exit"} /\ Yields(i, "ok")
  /\ UNCHANGED <<main, cred, osEnv, results>>

Store(i) ==
  /\ pc[i] = "store"
  /\ results' = [results EXCEPT ![i] = outcome[i]]
  /\ pc' = [pc EXCEPT ![i] = "done"]
  /\ UNCHANGED <<main, cred, osEnv, outcome>>

\* Mutant: wg.Done is not deferred, and an early return forgets it.
DoneOnSuccess(i) ==
  /\ pc[i] = "done"
  /\ pending' = IF outcome[i] = "error" THEN pending ELSE pending \ {i}
  /\ pc' = [pc EXCEPT ![i] = "ended"]
  /\ UNCHANGED <<input, phase, next, cancelled, cred, osEnv, outcome, results, answer>>

\* The deferred wg.Done.
Done(i) ==
  /\ pc[i] = "done"
  /\ pending' = pending \ {i}
  /\ pc' = [pc EXCEPT ![i] = "ended"]
  /\ UNCHANGED <<input, phase, next, cancelled, cred, osEnv, outcome, results, answer>>

-----------------------------------------------------------------------------
HandlerStep == SelectTargets \/ Spawn \/ Answer

TargetStep(i) ==
  Resolve(i) \/ Mint(i) \/ FetchEnv(i) \/ Run(i) \/ CallHandler(i) \/ Store(i) \/ Done(i)

Next ==
  \/ HandlerStep \/ Cancel
  \/ \E i \in Positions : TargetStep(i)

Spec == Init /\ [][Next]_vars

\* The goroutines run.  What they ask others for may never come: nothing bounds
\* how long a request or a command takes, nor does its client have to go away.
FairSpec ==
  /\ Spec
  /\ WF_vars(Spawn \/ Answer)
  /\ \A i \in Positions : WF_vars(Store(i) \/ Done(i))

-----------------------------------------------------------------------------
(* Properties.                                                             *)

\* The handler and its goroutines have their types.
TypeOK ==
  /\ tool \in Tools /\ readonly \in BOOLEAN /\ n \in 0 .. N
  /\ fault \in [Positions -> Faults]
  /\ phase \in {"selecting", "spawning", "answered"}
  /\ next \in 1 .. (N + 1)
  /\ cancelled \in BOOLEAN
  /\ pending \in SUBSET Positions
  /\ pc \in [Positions -> {"none", "resolve", "mint", "env", "run", "handle", "store",
                           "done", "ended"}]
  /\ cred \in [Positions -> {"none", "admin", "readonly"}]
  /\ osEnv \in SUBSET Positions
  /\ outcome \in [Positions -> Outcomes \cup {"none"}]
  /\ results \in [Positions -> Outcomes \cup {"none"}]
  /\ answer \in {"none", "rejected", "ok", "error"}

\* What target i gives when it is the only one.
Alone(i) ==
  CASE fault[i] = "resolve" -> IF tool = "embedded" THEN "failed" ELSE "error"
    [] fault[i] = "credential" /\ (readonly \/ tool = "exec") -> "error"
    [] fault[i] = "run" /\ tool # "kubeconfig" -> "error"
    [] fault[i] = "exit" /\ tool # "kubeconfig" -> "failed"
    [] OTHER -> CASE tool # "kubeconfig" -> "ok"
                  [] tool = "kubeconfig" /\ readonly -> "readonly"
                  [] tool = "kubeconfig" /\ ~readonly -> "admin"

Answered == phase = "answered" /\ answer # "rejected"

\* execOneTarget's and runFanOut's comments: a failure is isolated into its own
\* target's entry.  The answer has an entry for every target, the one the target
\* gives when it is the only one, whatever happens to the others; a cancelled
\* request may turn an entry into a failure and into nothing else.
FailuresAreIsolated ==
  Answered => \A i \in 1 .. n :
    results[i] = Alone(i) \/ (cancelled /\ results[i] \in {"error", "failed"})

\* IsError tells the client whether everything went well: it is set on the
\* answer exactly when some goroutine ended with an error, an exit code other
\* than 0 or an embedded IsError.
ErrorFlagIsExact ==
  Answered => (answer = "error" <=> \E i \in 1 .. n : outcome[i] \in {"error", "failed"})

\* A read-only call hands out no admin kubeconfig and runs no command with one
\* or with OpenStack credentials, not even when minting the token fails or the
\* request is cancelled halfway.
ReadOnlyHolds ==
  readonly => \A i \in Positions :
    /\ results[i] # "admin"
    /\ pc[i] = "run" => cred[i] = "readonly" /\ i \notin osEnv

\* Nothing is touched after the answer: when wg.Wait has returned, no goroutine
\* of the call is still using a credential or writing a result.
QuietAfterAnswer ==
  phase = "answered" => \A i \in Positions : pc[i] \in {"none", "ended"}

\* Goroutine i waits for a request, a command or a handler.
Waits(i) == pc[i] \in {"resolve", "mint", "env", "run", "handle"}

\* The call is answered if the clusters get listed and no goroutine waits for ever
\* for a request or for its command, whatever comes of them and whether or not
\* the client stays: the handler and its WaitGroup add no wait of their own.
CallReturns ==
  <>(phase # "selecting") /\ (\A i \in Positions : []<>~Waits(i)) => <>(phase = "answered")
=============================================================================
