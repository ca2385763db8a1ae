------------------------- MODULE SystemdProxyProofs -------------------------
(***************************************************************************)
(* Proofs about SystemdProxy, for every set of calls and keys.             *)
(*                                                                         *)
(* Neither property is inductive: what a call reports depends on what it   *)
(* saw one or two commands earlier, and on nobody else having started the  *)
(* unit since, which the flights rule out.                                 *)
(***************************************************************************)
EXTENDS SystemdProxy, TLAPS

\* singleflight.Group: a leading call is the one recorded for its key, and a
\* recorded call is leading for that key.
FlightInv ==
  /\ \A c \in Calls : Leading(c) => target[c] \in Keys /\ flight[target[c]] = c
  /\ \A k \in Keys : flight[k] # None => Leading(flight[k]) /\ target[flight[k]] = k

\* A call that waits in Group.Do has a leader to wait for, which is on its way.
WaitersHaveLeader ==
  \A c \in Calls : pc[c] = "waiting" =>
    \E d \in Calls : Leading(d) /\ target[d] = target[c] /\ flight[target[c]] = d

\* A call extends a unit only after is-active found it active in this flight.
UpInv ==
  /\ \A c \in Calls : pc[c] = "extend" => c \in upIn
  /\ OkMeansUp

\* Between is-active and systemd-run: a unit that was not there is still not
\* there, since only the key's leader starts one.
ReportInv ==
  /\ \A c \in Calls : pc[c] = "run" =>
       /\ saw[c] # "active"
       /\ saw[c] = "none" => unit[target[c]] = "none"
  /\ NoStartRace

SystemdInv == TypeOK /\ FlightInv /\ WaitersHaveLeader /\ UpInv /\ ReportInv

-----------------------------------------------------------------------------
(* Every action preserves the invariant.                                   *)

\* No unit, no call, no flight.
LEMMA InitInv == Init => SystemdInv
  BY ConstantsAssumption DEF Init, SystemdInv, TypeOK, FlightInv, WaitersHaveLeader, UpInv,
     ReportInv, OkMeansUp, NoStartRace, Leading, Reports, UnitStates, StartLimitBurst

\* A call joins the flight of its key or leads a new one.
LEMMA EnsureProxyInv ==
  ASSUME SystemdInv, NEW c \in Calls, NEW k \in Keys, EnsureProxy(c, k), Watch
  PROVE  SystemdInv'
<1>1. TypeOK'
  BY ConstantsAssumption DEF SystemdInv, TypeOK, Watch, EnsureProxy, Reports, UnitStates,
                             StartLimitBurst, callVars, unitVars
<1>2. FlightInv'
  BY ConstantsAssumption DEF SystemdInv, TypeOK, FlightInv, EnsureProxy, Leading,
                             callVars, unitVars
<1>3. WaitersHaveLeader'
  BY ConstantsAssumption DEF SystemdInv, TypeOK, WaitersHaveLeader, EnsureProxy,
                             Leading, FlightInv, callVars, unitVars
<1>4. UpInv'
  BY ConstantsAssumption DEF SystemdInv, TypeOK, UpInv, EnsureProxy, OkMeansUp,
                             Leading, FlightInv, Watch, callVars, unitVars
<1>5. ReportInv'
  BY ConstantsAssumption DEF SystemdInv, TypeOK, ReportInv, EnsureProxy,
                             NoStartRace, FlightInv, Leading, callVars,
                             unitVars
<1> QED
  BY <1>1, <1>2, <1>3, <1>4, <1>5 DEF SystemdInv

\* is-active: what the leader saw holds until it acts on it.
LEMMA IsUnitActiveInv ==
  ASSUME SystemdInv, NEW c \in Calls, IsUnitActive(c), Watch
  PROVE  SystemdInv'
<1>1. TypeOK'
  <2>1. unit[target[c]] \in UnitStates
    BY DEF SystemdInv, TypeOK, FlightInv, Leading, IsUnitActive
  <2>2. PICK report \in {unit[target[c]], "error"} :
          /\ saw' = [saw EXCEPT ![c] = report]
          /\ pc' = [pc EXCEPT ![c] = IF IsActive(report) THEN "extend" ELSE "run"]
    BY DEF IsUnitActive
  <2>3. saw' \in [Calls -> Reports]
    BY <2>1, <2>2 DEF SystemdInv, TypeOK, Reports, UnitStates
  <2>4. pc' \in [Calls -> {"idle", "waiting", "check", "extend", "run", "finish", "done", "lost"}]
    BY <2>2 DEF SystemdInv, TypeOK
  <2> QED
    BY <2>3, <2>4 DEF SystemdInv, TypeOK, IsUnitActive, Watch, unitVars
<1>2. FlightInv'
  BY ConstantsAssumption DEF SystemdInv, TypeOK, FlightInv, IsUnitActive, IsActive,
                             Leading, callVars, unitVars
<1>3. WaitersHaveLeader'
  BY ConstantsAssumption DEF SystemdInv, TypeOK, WaitersHaveLeader, IsUnitActive,
                             IsActive, Leading, FlightInv, callVars, unitVars
<1>4. UpInv'
  BY ConstantsAssumption DEF SystemdInv, TypeOK, UpInv, IsUnitActive, IsActive,
                             OkMeansUp, Leading, FlightInv, Watch, callVars, unitVars
<1>5. ReportInv'
  BY ConstantsAssumption DEF SystemdInv, TypeOK, ReportInv, IsUnitActive, IsActive,
                             NoStartRace, FlightInv, Leading, callVars,
                             unitVars
<1> QED
  BY <1>1, <1>2, <1>3, <1>4, <1>5 DEF SystemdInv

\* set-property on a unit that was active in this flight.
LEMMA ExtendUnitInv ==
  ASSUME SystemdInv, NEW c \in Calls, ExtendUnit(c), Watch
  PROVE  SystemdInv'
<1>1. TypeOK'
  BY ConstantsAssumption DEF SystemdInv, TypeOK, Watch, ExtendUnit, Returns, Reports, UnitStates,
                             StartLimitBurst, callVars, unitVars
<1>2. FlightInv'
  BY ConstantsAssumption DEF SystemdInv, TypeOK, FlightInv, ExtendUnit, Returns,
                             Leading, callVars, unitVars
<1>3. WaitersHaveLeader'
  BY ConstantsAssumption DEF SystemdInv, TypeOK, WaitersHaveLeader, ExtendUnit,
                             Returns, Leading, FlightInv, callVars, unitVars
<1>4. UpInv'
  BY ConstantsAssumption DEF SystemdInv, TypeOK, UpInv, ExtendUnit, Returns, OkMeansUp,
                             Leading, FlightInv, Watch, callVars, unitVars
<1>5. ReportInv'
  BY ConstantsAssumption DEF SystemdInv, TypeOK, ReportInv, ExtendUnit, Returns,
                             NoStartRace, FlightInv, Leading, callVars,
                             unitVars
<1> QED
  BY <1>1, <1>2, <1>3, <1>4, <1>5 DEF SystemdInv

\* systemd-run: the only step that loads a unit, and its key's leader takes it.
LEMMA SystemdRunInv ==
  ASSUME SystemdInv, NEW c \in Calls, SystemdRun(c), Watch
  PROVE  SystemdInv'
<1>1. TypeOK'
  BY ConstantsAssumption DEF SystemdInv, TypeOK, Watch, SystemdRun, Returns, Reports, UnitStates,
                             StartLimitBurst, callVars, unitVars
<1>2. FlightInv'
  BY ConstantsAssumption DEF SystemdInv, TypeOK, FlightInv, SystemdRun, Returns,
                             Leading, callVars, unitVars
<1>3. WaitersHaveLeader'
  BY ConstantsAssumption DEF SystemdInv, TypeOK, WaitersHaveLeader, SystemdRun,
                             Returns, Leading, FlightInv, callVars, unitVars
<1>4. UpInv'
  <2>1. /\ \A d \in Calls \ {c} : pc'[d] = pc[d] /\ result'[d] = result[d]
        /\ pc'[c] = "finish" /\ target' = target
    BY DEF SystemdInv, TypeOK, SystemdRun, Returns
  <2>2. \A d \in Calls : d \in upIn /\ Leading(d)' => d \in upIn'
    BY DEF Watch
  <2>3. result'[c] = "ok" => unit'[target[c]] = "active"
    BY DEF SystemdInv, TypeOK, FlightInv, Leading, SystemdRun, Returns
  <2>4. result'[c] = "ok" => c \in upIn'
    BY <2>1, <2>3 DEF Watch, Leading
  <2> QED
    BY <2>1, <2>2, <2>4 DEF SystemdInv, UpInv, OkMeansUp, Leading
<1>5. ReportInv'
  <2>1. /\ \A d \in Calls \ {c} : pc'[d] = pc[d] /\ result'[d] = result[d]
        /\ pc'[c] = "finish" /\ target' = target /\ saw' = saw
    BY DEF SystemdInv, TypeOK, SystemdRun, Returns
  <2>2. result'[c] = "exists" => unit[target[c]] # "none"
    BY DEF SystemdInv, TypeOK, SystemdRun, Returns
  <2>3. \A d \in Calls \ {c} : pc[d] = "run" => unit'[target[d]] = unit[target[d]]
    BY DEF SystemdInv, TypeOK, FlightInv, Leading, SystemdRun, unitVars
  <2>4. saw[c] \in Reports
    BY DEF SystemdInv, TypeOK
  <2> QED
    BY <2>1, <2>2, <2>3, <2>4 DEF SystemdInv, ReportInv, NoStartRace, SystemdRun,
                                Reports, UnitStates
<1> QED
  BY <1>1, <1>2, <1>3, <1>4, <1>5 DEF SystemdInv

\* The flight lands with all that wait for it.
LEMMA FinishInv ==
  ASSUME SystemdInv, NEW c \in Calls, Finish(c), Watch
  PROVE  SystemdInv'
<1>1. TypeOK'
  BY ConstantsAssumption DEF SystemdInv, TypeOK, Watch, Finish, Lands, Reports, UnitStates,
                             StartLimitBurst, callVars, unitVars
<1>2. FlightInv'
  BY ConstantsAssumption DEF SystemdInv, TypeOK, FlightInv, Finish, Lands, Leading,
                             callVars, unitVars
<1>3. WaitersHaveLeader'
  BY ConstantsAssumption DEF SystemdInv, TypeOK, WaitersHaveLeader, Finish, Lands,
                             Leading, FlightInv, callVars, unitVars
<1>4. UpInv'
  BY ConstantsAssumption DEF SystemdInv, TypeOK, UpInv, Finish, Lands, OkMeansUp,
                             Leading, FlightInv, Watch, callVars, unitVars
<1>5. ReportInv'
  BY ConstantsAssumption DEF SystemdInv, TypeOK, ReportInv, Finish, Lands,
                             NoStartRace, FlightInv, Leading, callVars,
                             unitVars
<1> QED
  BY <1>1, <1>2, <1>3, <1>4, <1>5 DEF SystemdInv

\* A cancelled context changes no flight.
LEMMA CancelInv ==
  ASSUME SystemdInv, NEW c \in Calls, Cancel(c), Watch
  PROVE  SystemdInv'
<1>1. TypeOK'
  BY ConstantsAssumption DEF SystemdInv, TypeOK, Watch, Cancel, Reports, UnitStates,
                             StartLimitBurst, callVars, unitVars
<1>2. FlightInv'
  BY ConstantsAssumption DEF SystemdInv, TypeOK, FlightInv, Cancel, Leading, callVars,
                             unitVars
<1>3. WaitersHaveLeader'
  BY ConstantsAssumption DEF SystemdInv, TypeOK, WaitersHaveLeader, Cancel, Leading,
                             FlightInv, callVars, unitVars
<1>4. UpInv'
  BY ConstantsAssumption DEF SystemdInv, TypeOK, UpInv, Cancel, OkMeansUp, Leading,
                             FlightInv, Watch, callVars, unitVars
<1>5. ReportInv'
  BY ConstantsAssumption DEF SystemdInv, TypeOK, ReportInv, Cancel,
                             NoStartRace, FlightInv, Leading, callVars,
                             unitVars
<1> QED
  BY <1>1, <1>2, <1>3, <1>4, <1>5 DEF SystemdInv

\* A restart of the daemon ends every flight and every wait with it.
LEMMA DaemonRestartsInv ==
  ASSUME SystemdInv, DaemonRestarts, Watch
  PROVE  SystemdInv'
<1>1. TypeOK'
  BY ConstantsAssumption DEF SystemdInv, TypeOK, Watch, DaemonRestarts, InFlight,
                             Reports, UnitStates, StartLimitBurst, callVars, unitVars
<1>2. FlightInv'
  BY ConstantsAssumption DEF SystemdInv, TypeOK, FlightInv, DaemonRestarts, InFlight,
                             Leading, callVars, unitVars
<1>3. WaitersHaveLeader'
  BY ConstantsAssumption DEF SystemdInv, TypeOK, WaitersHaveLeader, DaemonRestarts,
                             InFlight, Leading, FlightInv, callVars, unitVars
<1>4. UpInv'
  BY ConstantsAssumption DEF SystemdInv, TypeOK, UpInv, DaemonRestarts, InFlight,
                             OkMeansUp, Leading, FlightInv, Watch, callVars, unitVars
<1>5. ReportInv'
  BY ConstantsAssumption DEF SystemdInv, TypeOK, ReportInv, DaemonRestarts, InFlight,
                             NoStartRace, FlightInv, Leading, callVars,
                             unitVars
<1> QED
  BY <1>1, <1>2, <1>3, <1>4, <1>5 DEF SystemdInv

\* sshuttle ends with an error.
LEMMA SshuttleFailsInv ==
  ASSUME SystemdInv, NEW k \in Keys, SshuttleFails(k), Watch
  PROVE  SystemdInv'
<1>1. TypeOK'
  BY ConstantsAssumption DEF SystemdInv, TypeOK, Watch, SshuttleFails, Reports, UnitStates,
                             StartLimitBurst, callVars, unitVars
<1>2. FlightInv'
  BY ConstantsAssumption DEF SystemdInv, TypeOK, FlightInv, SshuttleFails, Leading,
                             callVars, unitVars
<1>3. WaitersHaveLeader'
  BY ConstantsAssumption DEF SystemdInv, TypeOK, WaitersHaveLeader, SshuttleFails,
                             Leading, FlightInv, callVars, unitVars
<1>4. UpInv'
  BY ConstantsAssumption DEF SystemdInv, TypeOK, UpInv, SshuttleFails, OkMeansUp,
                             Leading, FlightInv, Watch, callVars, unitVars
<1>5. ReportInv'
  BY ConstantsAssumption DEF SystemdInv, TypeOK, ReportInv, SshuttleFails,
                             NoStartRace, FlightInv, Leading, callVars,
                             unitVars
<1> QED
  BY <1>1, <1>2, <1>3, <1>4, <1>5 DEF SystemdInv

\* sshuttle ends by itself: the unit is stopping.
LEMMA SshuttleExitsInv ==
  ASSUME SystemdInv, NEW k \in Keys, SshuttleExits(k), Watch
  PROVE  SystemdInv'
<1>1. TypeOK'
  BY ConstantsAssumption DEF SystemdInv, TypeOK, Watch, SshuttleExits, Reports, UnitStates,
                             StartLimitBurst, callVars, unitVars
<1>2. FlightInv'
  BY ConstantsAssumption DEF SystemdInv, TypeOK, FlightInv, SshuttleExits, Leading,
                             callVars, unitVars
<1>3. WaitersHaveLeader'
  BY ConstantsAssumption DEF SystemdInv, TypeOK, WaitersHaveLeader, SshuttleExits,
                             Leading, FlightInv, callVars, unitVars
<1>4. UpInv'
  BY ConstantsAssumption DEF SystemdInv, TypeOK, UpInv, SshuttleExits, OkMeansUp,
                             Leading, FlightInv, Watch, callVars, unitVars
<1>5. ReportInv'
  BY ConstantsAssumption DEF SystemdInv, TypeOK, ReportInv, SshuttleExits,
                             NoStartRace, FlightInv, Leading, callVars,
                             unitVars
<1> QED
  BY <1>1, <1>2, <1>3, <1>4, <1>5 DEF SystemdInv

\* StartLimitIntervalSec is over.
LEMMA IntervalElapsesInv ==
  ASSUME SystemdInv, NEW k \in Keys, IntervalElapses(k), Watch
  PROVE  SystemdInv'
<1>1. TypeOK'
  BY ConstantsAssumption DEF SystemdInv, TypeOK, Watch, IntervalElapses, Reports, UnitStates,
                             StartLimitBurst, callVars, unitVars
<1>2. FlightInv'
  BY ConstantsAssumption DEF SystemdInv, TypeOK, FlightInv, IntervalElapses, Leading,
                             callVars, unitVars
<1>3. WaitersHaveLeader'
  BY ConstantsAssumption DEF SystemdInv, TypeOK, WaitersHaveLeader, IntervalElapses,
                             Leading, FlightInv, callVars, unitVars
<1>4. UpInv'
  BY ConstantsAssumption DEF SystemdInv, TypeOK, UpInv, IntervalElapses, OkMeansUp,
                             Leading, FlightInv, Watch, callVars, unitVars
<1>5. ReportInv'
  BY ConstantsAssumption DEF SystemdInv, TypeOK, ReportInv, IntervalElapses,
                             NoStartRace, FlightInv, Leading, callVars,
                             unitVars
<1> QED
  BY <1>1, <1>2, <1>3, <1>4, <1>5 DEF SystemdInv

\* RuntimeMaxSec is over.
LEMMA RuntimeMaxElapsesInv ==
  ASSUME SystemdInv, NEW k \in Keys, RuntimeMaxElapses(k), Watch
  PROVE  SystemdInv'
<1>1. TypeOK'
  BY ConstantsAssumption DEF SystemdInv, TypeOK, Watch, RuntimeMaxElapses, Reports, UnitStates,
                             StartLimitBurst, callVars, unitVars
<1>2. FlightInv'
  BY ConstantsAssumption DEF SystemdInv, TypeOK, FlightInv, RuntimeMaxElapses, Leading,
                             callVars, unitVars
<1>3. WaitersHaveLeader'
  BY ConstantsAssumption DEF SystemdInv, TypeOK, WaitersHaveLeader, RuntimeMaxElapses,
                             Leading, FlightInv, callVars, unitVars
<1>4. UpInv'
  BY ConstantsAssumption DEF SystemdInv, TypeOK, UpInv, RuntimeMaxElapses, OkMeansUp,
                             Leading, FlightInv, Watch, callVars, unitVars
<1>5. ReportInv'
  BY ConstantsAssumption DEF SystemdInv, TypeOK, ReportInv, RuntimeMaxElapses,
                             NoStartRace, FlightInv, Leading, callVars,
                             unitVars
<1> QED
  BY <1>1, <1>2, <1>3, <1>4, <1>5 DEF SystemdInv

\* The processes of a unit that ends are gone.
LEMMA DeactivatedInv ==
  ASSUME SystemdInv, NEW k \in Keys, Deactivated(k), Watch
  PROVE  SystemdInv'
<1>1. TypeOK'
  BY ConstantsAssumption DEF SystemdInv, TypeOK, Watch, Deactivated, Reports, UnitStates,
                             StartLimitBurst, callVars, unitVars
<1>2. FlightInv'
  BY ConstantsAssumption DEF SystemdInv, TypeOK, FlightInv, Deactivated, Leading,
                             callVars, unitVars
<1>3. WaitersHaveLeader'
  BY ConstantsAssumption DEF SystemdInv, TypeOK, WaitersHaveLeader, Deactivated,
                             Leading, FlightInv, callVars, unitVars
<1>4. UpInv'
  BY ConstantsAssumption DEF SystemdInv, TypeOK, UpInv, Deactivated, OkMeansUp,
                             Leading, FlightInv, Watch, callVars, unitVars
<1>5. ReportInv'
  BY ConstantsAssumption DEF SystemdInv, TypeOK, ReportInv, Deactivated,
                             NoStartRace, FlightInv, Leading, callVars,
                             unitVars
<1> QED
  BY <1>1, <1>2, <1>3, <1>4, <1>5 DEF SystemdInv

\* systemd restarts only a unit that is loaded, within the start limit.
LEMMA RestartInv ==
  ASSUME SystemdInv, NEW k \in Keys, Restart(k), Watch
  PROVE  SystemdInv'
<1>1. TypeOK'
  BY ConstantsAssumption DEF SystemdInv, TypeOK, Watch, Restart, StartAllowed, Reports, UnitStates,
                             StartLimitBurst, callVars, unitVars
<1>2. FlightInv'
  BY ConstantsAssumption DEF SystemdInv, TypeOK, FlightInv, Restart, StartAllowed,
                             Leading, callVars, unitVars
<1>3. WaitersHaveLeader'
  BY ConstantsAssumption DEF SystemdInv, TypeOK, WaitersHaveLeader, Restart,
                             StartAllowed, Leading, FlightInv, callVars, unitVars
<1>4. UpInv'
  BY ConstantsAssumption DEF SystemdInv, TypeOK, UpInv, Restart, StartAllowed,
                             OkMeansUp, Leading, FlightInv, Watch, callVars, unitVars
<1>5. ReportInv'
  BY ConstantsAssumption DEF SystemdInv, TypeOK, ReportInv, Restart, StartAllowed,
                             NoStartRace, FlightInv, Leading, callVars,
                             unitVars
<1> QED
  BY <1>1, <1>2, <1>3, <1>4, <1>5 DEF SystemdInv

\* Every step of the specification preserves the invariant.
LEMMA NextInv == SystemdInv /\ [Next]_vars => SystemdInv'
<1> SUFFICES ASSUME SystemdInv, [Next]_vars PROVE SystemdInv'
  OBVIOUS
<1>1. CASE \E c \in Calls : (CallStep(c) \/ Cancel(c)) /\ Watch
  BY <1>1, EnsureProxyInv, IsUnitActiveInv, ExtendUnitInv, SystemdRunInv, FinishInv, CancelInv
  DEF CallStep
<1>2. CASE DaemonRestarts /\ Watch
  BY <1>2, DaemonRestartsInv
<1>3. CASE \E k \in Keys : UnitStep(k) /\ Watch
  BY <1>3, SshuttleFailsInv, SshuttleExitsInv, IntervalElapsesInv, RuntimeMaxElapsesInv,
     DeactivatedInv, RestartInv DEF UnitStep
<1>4. CASE UNCHANGED vars
  BY <1>4 DEF vars, callVars, unitVars, SystemdInv, TypeOK, FlightInv, WaitersHaveLeader,
              UpInv, OkMeansUp, ReportInv, NoStartRace, Leading
<1> QED
  BY <1>1, <1>2, <1>3, <1>4 DEF Next

-----------------------------------------------------------------------------
(* Theorems.                                                               *)

\* The invariant holds of every behaviour: calls, cancellations, restarts of the
\* daemon and systemd's own steps in any order.
THEOREM Invariance == Spec => []SystemdInv
  BY InitInv, NextInv, PTL DEF Spec

\* The units, the calls, the flights and the start counts have their types; no
\* unit is started more often than StartLimitBurst within an interval.
THEOREM TypeCorrect == Spec => []TypeOK
<1>1. SystemdInv => TypeOK
  BY DEF SystemdInv
<1> QED
  BY <1>1, Invariance, PTL

\* EnsureProxy reports success only if the tunnel's unit was active during the
\* flight: by is-active before set-property, or by systemd-run itself.
THEOREM OkMeansUpTheorem == Spec => []OkMeansUp
<1>1. SystemdInv => OkMeansUp
  BY DEF SystemdInv, UpInv
<1> QED
  BY <1>1, Invariance, PTL

\* systemd-run is refused for a loaded unit only if is-active failed or found the
\* unit ending or between two starts: no two calls race to start it.
THEOREM NoStartRaceTheorem == Spec => []NoStartRace
<1>1. SystemdInv => NoStartRace
  BY DEF SystemdInv, ReportInv
<1> QED
  BY <1>1, Invariance, PTL

\* A call that waits in singleflight.Group.Do has a leader that is on its way, so
\* a restart or a cancellation never leaves it waiting for nobody.
THEOREM WaitersHaveLeaderTheorem == Spec => []WaitersHaveLeader
<1>1. SystemdInv => WaitersHaveLeader
  BY DEF SystemdInv
<1> QED
  BY <1>1, Invariance, PTL
=============================================================================
