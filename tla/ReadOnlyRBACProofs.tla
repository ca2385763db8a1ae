------------------------- MODULE ReadOnlyRBACProofs -------------------------
(***************************************************************************)
(* ReadOnlyRBAC's properties for every number of concurrent calls.         *)
(***************************************************************************)
EXTENDS ReadOnlyRBAC, TLAPS

\* The initial states, whatever is left in the cluster, satisfy the invariant.
LEMMA InitRBACInv == Init => RBACInv
BY DEF Init, RBACInv, TypeOK, Steps, Ensured

\* Every request of every call preserves the invariant.
LEMMA StepKeepsRBACInv == ASSUME RBACInv, [Next]_vars PROVE RBACInv'
<1> USE DEF RBACInv, TypeOK, Steps, Ensured, cluster, Goto, Return
<1>1. ASSUME NEW c \in Callers, ParseAdminKubeconfig(c)
      PROVE  RBACInv'
  BY <1>1 DEF ParseAdminKubeconfig
<1>2. ASSUME NEW c \in Callers, CreateServiceAccount(c)
      PROVE  RBACInv'
  BY <1>2 DEF CreateServiceAccount
<1>3. ASSUME NEW c \in Callers, CreateClusterRole(c)
      PROVE  RBACInv'
  BY <1>3 DEF CreateClusterRole
<1>4. ASSUME NEW c \in Callers, UpdateClusterRole(c)
      PROVE  RBACInv'
  BY <1>4 DEF UpdateClusterRole
<1>5. ASSUME NEW c \in Callers, CreateClusterRoleBinding(c)
      PROVE  RBACInv'
  BY <1>5 DEF CreateClusterRoleBinding
<1>6. ASSUME NEW c \in Callers, UpdateClusterRoleBinding(c)
      PROVE  RBACInv'
  BY <1>6 DEF UpdateClusterRoleBinding
<1>7. ASSUME NEW c \in Callers, DeleteClusterRoleBinding(c)
      PROVE  RBACInv'
  BY <1>7 DEF DeleteClusterRoleBinding
<1>8. ASSUME NEW c \in Callers, RecreateClusterRoleBinding(c)
      PROVE  RBACInv'
  BY <1>8 DEF RecreateClusterRoleBinding
<1>9. ASSUME NEW c \in Callers, CreateToken(c)
      PROVE  RBACInv'
  BY <1>9 DEF CreateToken
<1>10. ASSUME NEW c \in Callers, RequestFails(c)
      PROVE  RBACInv'
  BY <1>10 DEF RequestFails
<1>11. ASSUME NEW c \in Callers, AnswerLost(c)
      PROVE  RBACInv'
  <2>1. CASE pc[c] = "createSA"
    BY <1>11, <2>1 DEF AnswerLost
  <2>2. CASE pc[c] \in {"createRole", "updateRole"}
    BY <1>11, <2>2 DEF AnswerLost
  <2>3. CASE pc[c] \in {"createBinding", "recreateBinding", "updateBinding"}
    BY <1>11, <2>3 DEF AnswerLost
  <2>4. CASE pc[c] = "deleteBinding"
    BY <1>11, <2>4 DEF AnswerLost
  <2>5. QED
    BY <1>11, <2>1, <2>2, <2>3, <2>4 DEF AnswerLost
<1>12. CASE UNCHANGED vars
  BY <1>12 DEF vars
<1>13. QED
  BY <1>1, <1>2, <1>3, <1>4, <1>5, <1>6, <1>7, <1>8, <1>9, <1>10, <1>11, <1>12 DEF Next

\* The invariant holds throughout.
THEOREM RBACInvariance == Spec => []RBACInv
BY InitRBACInv, StepKeepsRBACInv, PTL DEF Spec

\* No token is handed out over a stale role or a binding to another role.
THEOREM TokenIsReadOnlyHolds == Spec => []TokenIsReadOnly
<1>1. RBACInv => TokenIsReadOnly
  BY DEF RBACInv, TokenIsReadOnly
<1>2. QED
  BY <1>1, RBACInvariance, PTL

\* Concurrent calls leave the binding in place, or one reports a failed request.
THEOREM LossIsReportedHolds == Spec => []LossIsReported
<1>1. RBACInv => LossIsReported
  BY DEF RBACInv, LossIsReported, Ensured
<1>2. QED
  BY <1>1, RBACInvariance, PTL
=============================================================================
