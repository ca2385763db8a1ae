---------------------------- MODULE ReadOnlyRBAC ----------------------------
(***************************************************************************)
(* capi.CreateReadOnlyKubeconfig and capi.EnsureReadOnlyRBAC: every call   *)
(* of a read-only tool brings the ServiceAccount, the ClusterRole and the  *)
(* ClusterRoleBinding of one workload cluster up to date and then asks for *)
(* a token.  Nothing orders the calls of different requests, fan-out       *)
(* targets or daemons that reach the same workload cluster: each request   *)
(* to its API server is one step, and steps of different calls interleave. *)
(***************************************************************************)
CONSTANT Callers    \* calls of CreateReadOnlyKubeconfig for one cluster

VARIABLES
  pc,       \* the request each call makes next
  result,   \* none, ok (a kubeconfig with a token), or an error: err for one the
            \* API server answered with, failed for a request that went wrong
  sa,       \* the ServiceAccount exists
  role,     \* the ClusterRole: absent, stale, good
  binding   \* the ClusterRoleBinding: absent, good, otherRole (its roleRef is
            \* not ours and immutable), otherSubjects (its subjects are not ours)

cluster == <<sa, role, binding>>
vars == <<pc, result, cluster>>

\* What an earlier version of the daemon, or somebody else, may have left behind.
Init ==
  /\ pc = [c \in Callers |-> "parse"]
  /\ result = [c \in Callers |-> "none"]
  /\ sa \in BOOLEAN
  /\ role \in {"absent", "stale", "good"}
  /\ binding \in {"absent", "otherRole", "otherSubjects", "good"}

Goto(c, l) == pc' = [pc EXCEPT ![c] = l] /\ UNCHANGED result

Return(c, r) ==
  /\ pc' = [pc EXCEPT ![c] = "done"]
  /\ result' = [result EXCEPT ![c] = r]

-----------------------------------------------------------------------------
\* The admin kubeconfig is parsed before anything is asked of the cluster.
ParseAdminKubeconfig(c) ==
  /\ pc[c] = "parse"
  /\ \/ Goto(c, "createSA")
     \/ Return(c, "err")
  /\ UNCHANGED cluster

\* AlreadyExists is as good as created.
CreateServiceAccount(c) ==
  /\ pc[c] = "createSA"
  /\ sa' = TRUE
  /\ Goto(c, "createRole")
  /\ UNCHANGED <<role, binding>>

CreateClusterRole(c) ==
  /\ pc[c] = "createRole"
  /\ \/ /\ role = "absent"
        /\ role' = "good"
        /\ Goto(c, "createBinding")
     \/ /\ role # "absent"
        /\ UNCHANGED role
        /\ Goto(c, "updateRole")
  /\ UNCHANGED <<sa, binding>>

UpdateClusterRole(c) ==
  /\ pc[c] = "updateRole"
  /\ role' = "good"
  /\ Goto(c, "createBinding")
  /\ UNCHANGED <<sa, binding>>

\* Mutant: a binding that exists is taken for the right one.
CreateBindingOnly(c) ==
  /\ pc[c] = "createBinding"
  /\ binding' = IF binding = "absent" THEN "good" ELSE binding
  /\ Goto(c, "token")
  /\ UNCHANGED <<sa, role>>

CreateClusterRoleBinding(c) ==
  /\ pc[c] = "createBinding"
  /\ \/ /\ binding = "absent"
        /\ binding' = "good"
        /\ Goto(c, "token")
     \/ /\ binding # "absent"
        /\ UNCHANGED binding
        /\ Goto(c, "updateBinding")
  /\ UNCHANGED <<sa, role>>

\* The roleRef of a binding cannot be changed: such a binding is replaced.
\* A binding that another call has just deleted is NotFound, or is created by
\* an API server that creates on update.
UpdateClusterRoleBinding(c) ==
  /\ pc[c] = "updateBinding"
  /\ \/ /\ binding = "otherRole"
        /\ Goto(c, "deleteBinding")
        /\ UNCHANGED binding
     \/ /\ binding # "otherRole"
        /\ binding' = "good"
        /\ Goto(c, "token")
     \/ /\ binding = "absent"
        /\ Return(c, "err")
        /\ UNCHANGED binding
  /\ UNCHANGED <<sa, role>>

DeleteClusterRoleBinding(c) ==
  /\ pc[c] = "deleteBinding"
  /\ \/ /\ binding # "absent"
        /\ binding' = "absent"
        /\ Goto(c, "recreateBinding")
     \/ /\ binding = "absent"
        /\ UNCHANGED binding
        /\ Return(c, "err")
  /\ UNCHANGED <<sa, role>>

RecreateClusterRoleBinding(c) ==
  /\ pc[c] = "recreateBinding"
  /\ \/ /\ binding = "absent"
        /\ binding' = "good"
        /\ Goto(c, "token")
     \/ /\ binding # "absent"
        /\ UNCHANGED binding
        /\ Return(c, "err")
  /\ UNCHANGED <<sa, role>>

\* TokenRequest for the ServiceAccount; an empty token is an error.
CreateToken(c) ==
  /\ pc[c] = "token"
  /\ sa
  /\ \/ Return(c, "ok")
     \/ Return(c, "err")
  /\ UNCHANGED cluster

\* Mutant: a failed delete or create of the binding goes unreported.
FailSilently(c) ==
  /\ pc[c] \notin {"parse", "done"}
  /\ IF pc[c] = "recreateBinding" THEN Goto(c, "token") ELSE Return(c, "failed")
  /\ UNCHANGED cluster

\* Any other error of any request, a cancelled request included, ends the call.
RequestFails(c) ==
  /\ pc[c] \notin {"parse", "done"}
  /\ Return(c, "failed")
  /\ UNCHANGED cluster

\* The request took effect and its answer was lost: an error for the call.
AnswerLost(c) ==
  /\ Return(c, "failed")
  /\ \/ /\ pc[c] = "createSA"
        /\ sa' = TRUE
        /\ UNCHANGED <<role, binding>>
     \/ /\ \/ pc[c] = "createRole" /\ role = "absent"
           \/ pc[c] = "updateRole"
        /\ role' = "good"
        /\ UNCHANGED <<sa, binding>>
     \/ /\ \/ pc[c] \in {"createBinding", "recreateBinding"} /\ binding = "absent"
           \/ pc[c] = "updateBinding" /\ binding # "otherRole"
        /\ binding' = "good"
        /\ UNCHANGED <<sa, role>>
     \/ /\ pc[c] = "deleteBinding"
        /\ binding' = "absent"
        /\ UNCHANGED <<sa, role>>

Next ==
  \E c \in Callers :
    \/ ParseAdminKubeconfig(c)
    \/ CreateServiceAccount(c)
    \/ CreateClusterRole(c) \/ UpdateClusterRole(c)
    \/ CreateClusterRoleBinding(c) \/ UpdateClusterRoleBinding(c)
    \/ DeleteClusterRoleBinding(c) \/ RecreateClusterRoleBinding(c)
    \/ CreateToken(c)
    \/ RequestFails(c) \/ AnswerLost(c)

Spec == Init /\ [][Next]_vars

-----------------------------------------------------------------------------
(* Properties.                                                             *)

Steps == {"parse", "createSA", "createRole", "updateRole", "createBinding",
          "updateBinding", "deleteBinding", "recreateBinding", "token", "done"}

\* The state of the calls and of the cluster's objects has its type.
TypeOK ==
  /\ pc \in [Callers -> Steps]
  /\ result \in [Callers -> {"none", "ok", "err", "failed"}]
  /\ sa \in BOOLEAN
  /\ role \in {"absent", "stale", "good"}
  /\ binding \in {"absent", "otherRole", "otherSubjects", "good"}

\* A call that has brought the RBAC objects up to date.
Ensured(c) == pc[c] = "token" \/ result[c] = "ok"

\* From the moment EnsureReadOnlyRBAC succeeds for one call, the token that any
\* call hands out has the rules of the read-only role and no others: neither a
\* stale role nor a binding to another role is there, and none comes back,
\* whatever the other calls are doing.
TokenIsReadOnly ==
  (\E c \in Callers : Ensured(c)) =>
    /\ sa
    /\ role = "good"
    /\ binding \in {"absent", "good"}

\* A binding deleted in order to be recreated is not lost silently.  Concurrent
\* calls may delete what another one has just created, and still they heal the
\* binding together: when all have returned and one of them succeeded, it is
\* ours, unless a call reported a request that failed.
LossIsReported ==
  /\ \A c \in Callers : pc[c] = "done"
  /\ \E c \in Callers : result[c] = "ok"
  => \/ binding = "good"
     \/ \E c \in Callers : result[c] = "failed"

\* The inductive invariant behind the two properties above: how far a call has
\* come says what it left in the cluster, and a binding that is missing although
\* a call has ensured it is about to be recreated by the call that deleted it,
\* unless that call has failed.
RBACInv ==
  /\ TypeOK
  /\ \A c \in Callers :
       /\ result[c] # "none" <=> pc[c] = "done"
       /\ pc[c] \notin {"parse", "createSA", "done"} \/ Ensured(c) => sa
       /\ pc[c] = "updateRole" => role # "absent"
       /\ \/ pc[c] \in {"createBinding", "updateBinding", "deleteBinding", "recreateBinding"}
          \/ Ensured(c)
          => role = "good"
       /\ pc[c] = "recreateBinding" \/ Ensured(c) => binding \in {"absent", "good"}
       /\ Ensured(c) /\ binding = "absent" =>
            \/ \E d \in Callers : pc[d] = "recreateBinding"
            \/ \E d \in Callers : result[d] = "failed"
=============================================================================
