---------------------------- MODULE FanOutProofs ----------------------------
(***************************************************************************)
(* Proofs about FanOut for any number of targets.  The properties are not  *)
(* inductive by themselves; FanOutInv adds what the WaitGroup counts, what *)
(* a goroutine has in hand at each of its places, and how results[i]       *)
(* relates to the outcome of goroutine i.                                  *)
(***************************************************************************)
EXTENDS FanOut, TLAPS

Running == {"resolve", "mint", "env", "run", "handle", "store", "done"}

\* The WaitGroup counts the goroutines that are under way, and the loop has
\* started exactly those before next.
CountInv ==
  /\ next <= n + 1
  /\ \A i \in Positions : pc[i] \in Running <=> i \in pending
  /\ \A i \in Positions : pc[i] # "none" <=> i < next
  /\ phase = "selecting" => next = 1
  /\ phase = "answered" => pending = {} /\ (answer = "rejected" => next = 1)
  /\ Answered => next = n + 1

\* What a goroutine holds at each of its places.
CredentialInv ==
  \A i \in Positions :
    /\ pc[i] \in {"none", "resolve", "mint", "env", "handle"} => i \notin osEnv
    /\ readonly => i \notin osEnv /\ pc[i] # "env" /\ outcome[i] # "admin"
    /\ readonly /\ pc[i] = "run" => cred[i] = "readonly"

\* results[i] is goroutine i's outcome, once it has been stored.
ResultInv ==
  \A i \in Positions :
    /\ pc[i] \in {"none", "resolve", "mint", "env", "run", "handle"} => outcome[i] = "none"
    /\ pc[i] \in {"done", "ended"} => results[i] = outcome[i]
    /\ pc[i] \notin {"done", "ended"} => results[i] = "none"

\* Where a goroutine may be for its tool and its fault, and that its outcome is
\* its own, unless the request was cancelled.
PathInv ==
  /\ tool = "embedded" => ~readonly
  /\ \A i \in Positions :
       /\ pc[i] = "resolve" => tool # "embedded"
       /\ pc[i] = "mint" => readonly /\ fault[i] # "resolve"
       /\ pc[i] = "env" => ~readonly /\ tool = "exec" /\ fault[i] # "resolve"
       /\ pc[i] = "run" => tool = "exec" /\ fault[i] \notin {"resolve", "credential"}
       /\ pc[i] = "handle" => tool = "embedded"
       /\ pc[i] \in {"store", "done", "ended"} =>
            outcome[i] = Alone(i) \/ (cancelled /\ outcome[i] \in {"error", "failed"})

\* The answer's flag is computed from the results.
FlagInv ==
  Answered => (answer = "error" <=> \E i \in 1 .. n : Failed(results[i]))

FanOutInv == TypeOK /\ CountInv /\ CredentialInv /\ ResultInv /\ PathInv /\ FlagInv

-----------------------------------------------------------------------------
(* Every action preserves the invariant.                                   *)

\* The initial states satisfy the invariant.
LEMMA InitInv == Init => FanOutInv
<1> SUFFICES ASSUME Init PROVE FanOutInv
  OBVIOUS
<1>1. TypeOK
  <2>1. tool \in Tools /\ readonly \in BOOLEAN /\ n \in 0 .. N /\ cancelled \in BOOLEAN
    BY Zenon DEF Init
  <2>2. fault \in [Positions -> Faults] /\ next \in 1 .. (N + 1)
    BY NAssumption DEF Init
  <2> QED
    BY <2>1, <2>2 DEF TypeOK, Init
<1>2. CountInv
  BY NAssumption DEF CountInv, Init, Positions, Running, Answered
<1>3. CredentialInv
  BY NAssumption DEF CredentialInv, Init, Positions
<1>4. ResultInv
  BY NAssumption DEF ResultInv, Init, Positions
<1>5. PathInv
  BY NAssumption DEF PathInv, Init, Positions, Alone
<1>6. FlagInv
  BY NAssumption DEF FlagInv, Init, Positions, Answered, Failed
<1> QED
  BY <1>1, <1>2, <1>3, <1>4, <1>5, <1>6 DEF FanOutInv

\* Selecting the targets, or rejecting the call, preserves it.
LEMMA SelectTargetsInv ==
  ASSUME FanOutInv, SelectTargets
  PROVE  FanOutInv'
<1>1. TypeOK'
  BY NAssumption DEF FanOutInv, TypeOK, SelectTargets, input, worker, Positions,
                     Outcomes, Faults, Tools
<1>2. CountInv'
  BY NAssumption DEF FanOutInv, TypeOK, CountInv, SelectTargets, input, worker,
                     Positions, Running, Answered
<1>3. CredentialInv'
  BY NAssumption DEF FanOutInv, TypeOK, CredentialInv, SelectTargets, input, worker,
                     Positions
<1>4. ResultInv'
  BY NAssumption DEF FanOutInv, TypeOK, ResultInv, SelectTargets, input, worker, Positions
<1>5. PathInv'
  BY NAssumption DEF FanOutInv, TypeOK, PathInv, SelectTargets, input, worker,
                     Positions, Alone
<1>6. FlagInv'
  BY NAssumption DEF FanOutInv, TypeOK, FlagInv, SelectTargets, input, worker,
                     Positions, Answered, Failed
<1> QED
  BY <1>1, <1>2, <1>3, <1>4, <1>5, <1>6 DEF FanOutInv

\* So does starting the next goroutine: it has touched nothing yet.
LEMMA SpawnInv ==
  ASSUME FanOutInv, Spawn
  PROVE  FanOutInv'
<1>1. TypeOK'
  BY NAssumption DEF FanOutInv, TypeOK, Spawn, input, Positions, Outcomes, Faults, Tools
<1>2. CountInv'
  BY NAssumption DEF FanOutInv, TypeOK, CountInv, Spawn, input, Positions, Running, Answered
<1>3. CredentialInv'
  BY NAssumption DEF FanOutInv, TypeOK, CountInv, CredentialInv, Spawn, input, Positions
<1>4. ResultInv'
  BY NAssumption DEF FanOutInv, TypeOK, CountInv, ResultInv, Spawn, input, Positions
<1>5. PathInv'
  BY NAssumption DEF FanOutInv, TypeOK, PathInv, Spawn, input, Positions, Alone
<1>6. FlagInv'
  BY NAssumption DEF FanOutInv, TypeOK, FlagInv, Spawn, input, Positions, Answered, Failed
<1> QED
  BY <1>1, <1>2, <1>3, <1>4, <1>5, <1>6 DEF FanOutInv

\* So does the answer: no goroutine is counted any more, so all have ended.
LEMMA AnswerInv ==
  ASSUME FanOutInv, Answer
  PROVE  FanOutInv'
<1>1. TypeOK'
  BY NAssumption DEF FanOutInv, TypeOK, Answer, input, worker, Positions, Outcomes,
                     Faults, Tools
<1>2. CountInv'
  BY NAssumption DEF FanOutInv, TypeOK, CountInv, Answer, input, worker, Positions,
                     Running, Answered
<1>3. CredentialInv'
  BY NAssumption DEF FanOutInv, TypeOK, CredentialInv, Answer, input, worker, Positions
<1>4. ResultInv'
  BY NAssumption DEF FanOutInv, TypeOK, ResultInv, Answer, input, worker, Positions
<1>5. PathInv'
  BY NAssumption DEF FanOutInv, TypeOK, PathInv, Answer, input, worker, Positions, Alone
<1>6. FlagInv'
  BY NAssumption DEF FanOutInv, TypeOK, FlagInv, Answer, input, worker, Positions,
                     Answered, Failed
<1> QED
  BY <1>1, <1>2, <1>3, <1>4, <1>5, <1>6 DEF FanOutInv

\* So does a cancellation, which only allows more outcomes.
LEMMA CancelInv ==
  ASSUME FanOutInv, Cancel
  PROVE  FanOutInv'
<1>1. TypeOK'
  BY NAssumption DEF FanOutInv, TypeOK, Cancel, input, worker, Positions, Outcomes,
                     Faults, Tools
<1>2. CountInv'
  BY NAssumption DEF FanOutInv, TypeOK, CountInv, Cancel, input, worker, Positions,
                     Running, Answered
<1>3. CredentialInv'
  BY NAssumption DEF FanOutInv, TypeOK, CredentialInv, Cancel, input, worker, Positions
<1>4. ResultInv'
  BY NAssumption DEF FanOutInv, TypeOK, ResultInv, Cancel, input, worker, Positions
<1>5. PathInv'
  BY NAssumption DEF FanOutInv, TypeOK, PathInv, Cancel, input, worker, Positions, Alone
<1>6. FlagInv'
  BY NAssumption DEF FanOutInv, TypeOK, FlagInv, Cancel, input, worker, Positions,
                     Answered, Failed
<1> QED
  BY <1>1, <1>2, <1>3, <1>4, <1>5, <1>6 DEF FanOutInv

\* So does resolving a target,
LEMMA ResolveInv ==
  ASSUME FanOutInv, NEW i \in Positions, Resolve(i)
  PROVE  FanOutInv'
<1>1. TypeOK'
  BY NAssumption DEF FanOutInv, TypeOK, Resolve, Fails, Yields, main, input, Positions,
                     Outcomes, Faults, Tools
<1>2. CountInv'
  BY NAssumption DEF FanOutInv, TypeOK, CountInv, Resolve, Fails, Yields, main, input,
                     Positions, Running, Answered
<1>3. CredentialInv'
  BY NAssumption DEF FanOutInv, TypeOK, CredentialInv, Resolve, Fails, Yields, main,
                     input, Positions
<1>4. ResultInv'
  BY NAssumption DEF FanOutInv, TypeOK, ResultInv, Resolve, Fails, Yields, main, input,
                     Positions
<1>5. PathInv'
  BY NAssumption DEF FanOutInv, TypeOK, PathInv, Resolve, Fails, Yields, main, input,
                     Positions, Alone
<1>6. FlagInv'
  BY NAssumption DEF FanOutInv, TypeOK, FlagInv, Resolve, Fails, Yields, main, input,
                     Positions, Answered, Failed
<1> QED
  BY <1>1, <1>2, <1>3, <1>4, <1>5, <1>6 DEF FanOutInv

\* minting its token,
LEMMA MintInv ==
  ASSUME FanOutInv, NEW i \in Positions, Mint(i)
  PROVE  FanOutInv'
<1>1. TypeOK'
  BY NAssumption DEF FanOutInv, TypeOK, Mint, Fails, Yields, main, input, Positions,
                     Outcomes, Faults, Tools
<1>2. CountInv'
  BY NAssumption DEF FanOutInv, TypeOK, CountInv, Mint, Fails, Yields, main, input,
                     Positions, Running, Answered
<1>3. CredentialInv'
  BY NAssumption DEF FanOutInv, TypeOK, CredentialInv, Mint, Fails, Yields, main, input,
                     Positions
<1>4. ResultInv'
  BY NAssumption DEF FanOutInv, TypeOK, ResultInv, Mint, Fails, Yields, main, input,
                     Positions
<1>5. PathInv'
  BY NAssumption DEF FanOutInv, TypeOK, PathInv, Mint, Fails, Yields, main, input,
                     Positions, Alone
<1>6. FlagInv'
  BY NAssumption DEF FanOutInv, TypeOK, FlagInv, Mint, Fails, Yields, main, input,
                     Positions, Answered, Failed
<1> QED
  BY <1>1, <1>2, <1>3, <1>4, <1>5, <1>6 DEF FanOutInv

\* fetching its OpenStack credentials,
LEMMA FetchEnvInv ==
  ASSUME FanOutInv, NEW i \in Positions, FetchEnv(i)
  PROVE  FanOutInv'
<1>1. TypeOK'
  BY NAssumption DEF FanOutInv, TypeOK, FetchEnv, Fails, Yields, main, input, Positions,
                     Outcomes, Faults, Tools
<1>2. CountInv'
  BY NAssumption DEF FanOutInv, TypeOK, CountInv, FetchEnv, Fails, Yields, main, input,
                     Positions, Running, Answered
<1>3. CredentialInv'
  BY NAssumption DEF FanOutInv, TypeOK, CredentialInv, FetchEnv, Fails, Yields, main,
                     input, Positions
<1>4. ResultInv'
  BY NAssumption DEF FanOutInv, TypeOK, ResultInv, FetchEnv, Fails, Yields, main, input,
                     Positions
<1>5. PathInv'
  BY NAssumption DEF FanOutInv, TypeOK, PathInv, FetchEnv, Fails, Yields, main, input,
                     Positions, Alone
<1>6. FlagInv'
  BY NAssumption DEF FanOutInv, TypeOK, FlagInv, FetchEnv, Fails, Yields, main, input,
                     Positions, Answered, Failed
<1> QED
  BY <1>1, <1>2, <1>3, <1>4, <1>5, <1>6 DEF FanOutInv

\* running the command,
LEMMA RunInv ==
  ASSUME FanOutInv, NEW i \in Positions, Run(i)
  PROVE  FanOutInv'
<1>1. TypeOK'
  BY NAssumption DEF FanOutInv, TypeOK, Run, Yields, main, input, Positions, Outcomes,
                     Faults, Tools
<1>2. CountInv'
  BY NAssumption DEF FanOutInv, TypeOK, CountInv, Run, Yields, main, input, Positions,
                     Running, Answered
<1>3. CredentialInv'
  BY NAssumption DEF FanOutInv, TypeOK, CredentialInv, Run, Yields, main, input, Positions
<1>4. ResultInv'
  <2>1. PICK o \in {"ok", "failed", "error"} : Yields(i, o)
    BY DEF Run
  <2>2. results' = results /\ pc[i] = "run"
    BY DEF Run
  <2> QED
    BY <2>1, <2>2 DEF FanOutInv, TypeOK, ResultInv, Yields
<1>5. PathInv'
  <2>1. tool = "exec" /\ fault[i] \in {"none", "run", "exit"}
    BY DEF FanOutInv, TypeOK, PathInv, Run, Faults
  <2>2. /\ fault[i] = "run" => Alone(i) = "error"
        /\ fault[i] = "exit" => Alone(i) = "failed"
        /\ fault[i] = "none" => Alone(i) = "ok"
    BY <2>1 DEF Alone
  <2>3. PICK o \in {"ok", "failed", "error"} :
          Yields(i, o) /\ (o = Alone(i) \/ (cancelled /\ o = "failed"))
    BY <2>1, <2>2 DEF Run
  <2>4. UNCHANGED <<tool, readonly, fault, cancelled>>
    BY DEF Run, main, input
  <2> QED
    BY <2>3, <2>4 DEF FanOutInv, TypeOK, PathInv, Yields, Alone
<1>6. FlagInv'
  BY NAssumption DEF FanOutInv, TypeOK, FlagInv, Run, Yields, main, input, Positions,
                     Answered, Failed
<1> QED
  BY <1>1, <1>2, <1>3, <1>4, <1>5, <1>6 DEF FanOutInv

\* calling the embedded handler,
LEMMA CallHandlerInv ==
  ASSUME FanOutInv, NEW i \in Positions, CallHandler(i)
  PROVE  FanOutInv'
<1>1. TypeOK'
  BY NAssumption DEF FanOutInv, TypeOK, CallHandler, Yields, main, input, Positions,
                     Outcomes, Faults, Tools
<1>2. CountInv'
  BY NAssumption DEF FanOutInv, TypeOK, CountInv, CallHandler, Yields, main, input,
                     Positions, Running, Answered
<1>3. CredentialInv'
  BY NAssumption DEF FanOutInv, TypeOK, CredentialInv, CallHandler, Yields, main, input,
                     Positions
<1>4. ResultInv'
  <2>1. PICK o \in {"ok", "failed", "error"} : Yields(i, o)
    BY DEF CallHandler
  <2>2. results' = results /\ pc[i] = "handle"
    BY DEF CallHandler
  <2> QED
    BY <2>1, <2>2 DEF FanOutInv, TypeOK, ResultInv, Yields
<1>5. PathInv'
  BY NAssumption DEF FanOutInv, TypeOK, PathInv, CallHandler, Yields, main, input,
                     Positions, Alone
<1>6. FlagInv'
  BY NAssumption DEF FanOutInv, TypeOK, FlagInv, CallHandler, Yields, main, input,
                     Positions, Answered, Failed
<1> QED
  BY <1>1, <1>2, <1>3, <1>4, <1>5, <1>6 DEF FanOutInv

\* storing a result, which happens before the answer,
LEMMA StoreInv ==
  ASSUME FanOutInv, NEW i \in Positions, Store(i)
  PROVE  FanOutInv'
<1>1. TypeOK'
  BY NAssumption DEF FanOutInv, TypeOK, Store, main, input, Positions, Outcomes, Faults,
                     Tools
<1>2. CountInv'
  BY NAssumption DEF FanOutInv, TypeOK, CountInv, Store, main, input, Positions,
                     Running, Answered
<1>3. CredentialInv'
  BY NAssumption DEF FanOutInv, TypeOK, CredentialInv, Store, main, input, Positions
<1>4. ResultInv'
  BY NAssumption DEF FanOutInv, TypeOK, ResultInv, Store, main, input, Positions
<1>5. PathInv'
  BY NAssumption DEF FanOutInv, TypeOK, PathInv, Store, main, input, Positions, Alone
<1>6. FlagInv'
  BY NAssumption DEF FanOutInv, TypeOK, CountInv, FlagInv, Store, main, input, Positions,
                     Answered, Failed, Running
<1> QED
  BY <1>1, <1>2, <1>3, <1>4, <1>5, <1>6 DEF FanOutInv

\* and wg.Done, after which the goroutine is neither counted nor running.
LEMMA DoneInv ==
  ASSUME FanOutInv, NEW i \in Positions, Done(i)
  PROVE  FanOutInv'
<1>1. TypeOK'
  BY NAssumption DEF FanOutInv, TypeOK, Done, input, Positions, Outcomes, Faults, Tools
<1>2. CountInv'
  BY NAssumption DEF FanOutInv, TypeOK, CountInv, Done, input, Positions, Running, Answered
<1>3. CredentialInv'
  BY NAssumption DEF FanOutInv, TypeOK, CredentialInv, Done, input, Positions
<1>4. ResultInv'
  BY NAssumption DEF FanOutInv, TypeOK, ResultInv, Done, input, Positions
<1>5. PathInv'
  BY NAssumption DEF FanOutInv, TypeOK, PathInv, Done, input, Positions, Alone
<1>6. FlagInv'
  BY NAssumption DEF FanOutInv, TypeOK, FlagInv, Done, input, Positions, Answered, Failed
<1> QED
  BY <1>1, <1>2, <1>3, <1>4, <1>5, <1>6 DEF FanOutInv

-----------------------------------------------------------------------------
(* The theorems.                                                           *)

\* Every step preserves the invariant.
LEMMA StepInv == FanOutInv /\ [Next]_vars => FanOutInv'
<1> SUFFICES ASSUME FanOutInv, [Next]_vars
             PROVE  FanOutInv'
  OBVIOUS
<1>1. CASE HandlerStep
  BY <1>1, SelectTargetsInv, SpawnInv, AnswerInv DEF HandlerStep
<1>2. CASE Cancel
  BY <1>2, CancelInv
<1>3. ASSUME NEW i \in Positions, TargetStep(i)
      PROVE  FanOutInv'
  BY <1>3, ResolveInv, MintInv, FetchEnvInv, RunInv, CallHandlerInv, StoreInv, DoneInv
     DEF TargetStep
<1>4. CASE UNCHANGED vars
  BY <1>4 DEF vars, input, worker, FanOutInv, TypeOK, CountInv, CredentialInv, ResultInv,
              PathInv, FlagInv, Answered, Alone
<1> QED
  BY <1>1, <1>2, <1>3, <1>4 DEF Next

\* The inductive invariant holds for any number of targets.
THEOREM FanOutInvariance == Spec => []FanOutInv
BY InitInv, StepInv, PTL DEF Spec

\* The handler and its goroutines keep their types.
THEOREM FanOutTypeCorrect == Spec => []TypeOK
<1>1. FanOutInv => TypeOK
  BY DEF FanOutInv
<1> QED
  BY <1>1, FanOutInvariance, PTL

\* execOneTarget and runFanOut: however many targets there are, each has the entry
\* that it gives alone, or a failure after a cancellation.
THEOREM FailuresAreIsolatedHolds == Spec => []FailuresAreIsolated
<1>1. FanOutInv => FailuresAreIsolated
  BY NAssumption DEF FanOutInv, TypeOK, CountInv, ResultInv, PathInv, FailuresAreIsolated,
                     Answered, Running, Positions
<1> QED
  BY <1>1, FanOutInvariance, PTL

\* IsError of the answer is set exactly when some target failed.
THEOREM ErrorFlagIsExactHolds == Spec => []ErrorFlagIsExact
<1>1. FanOutInv => ErrorFlagIsExact
  BY NAssumption DEF FanOutInv, TypeOK, CountInv, ResultInv, FlagInv, ErrorFlagIsExact,
                     Answered, Failed, Running, Positions
<1> QED
  BY <1>1, FanOutInvariance, PTL

\* A read-only call never hands out or uses more than a read-only kubeconfig.
THEOREM ReadOnlyHoldsAlways == Spec => []ReadOnlyHolds
<1>1. FanOutInv => ReadOnlyHolds
  BY DEF FanOutInv, CredentialInv, ResultInv, ReadOnlyHolds
<1> QED
  BY <1>1, FanOutInvariance, PTL

\* When wg.Wait has returned no goroutine of the call is under way.
THEOREM QuietAfterAnswerHolds == Spec => []QuietAfterAnswer
<1>1. FanOutInv => QuietAfterAnswer
  BY DEF FanOutInv, TypeOK, CountInv, QuietAfterAnswer, Running
<1> QED
  BY <1>1, FanOutInvariance, PTL
=============================================================================
