---------------------------- MODULE SystemdProxy ----------------------------
(***************************************************************************)
(* proxy.Manager under systemd: every tunnel is a transient user unit,     *)
(* which systemd starts, restarts and ends by itself and which outlives    *)
(* the daemon.  The manager keeps nothing but its singleflight.Group.      *)
(*                                                                         *)
(* Each systemctl or systemd-run command is one step of the call that runs *)
(* it; systemd's own steps and restarts of the daemon come in between.     *)
(* Time is not modelled: an interval may be over at any moment.            *)
(***************************************************************************)
EXTENDS Naturals

CONSTANTS Calls,           \* EnsureProxy calls, of whichever daemon process
          Keys,            \* unitName values
          None             \* no call

ASSUME ConstantsAssumption == None \notin Calls \cup Keys

VARIABLES
  unit,       \* a unit as systemd has it: none (not loaded), active, stopping or
              \* failing (deactivating after a clean end, after a failure), restarting
  starts,     \* starts of a unit within the current StartLimitIntervalSec
  pc,         \* where each call is
  target,     \* the key of a call
  result,     \* what EnsureProxy returns: none, ok, err, exists
  flight,     \* singleflight.Group: the leading call per key
  cancelled,  \* calls whose context is cancelled
  saw,        \* the unit as systemctl is-active reported it; error if it failed
  upIn        \* leading calls during whose flight the unit was active

callVars == <<pc, target, result, flight, cancelled, saw>>
unitVars == <<unit, starts>>
vars == <<callVars, unitVars, upIn>>

StartLimitBurst == 3

Init ==
  /\ unit = [k \in Keys |-> "none"]
  /\ starts = [k \in Keys |-> 0]
  /\ pc = [c \in Calls |-> "idle"]
  /\ target = [c \in Calls |-> None]
  /\ result = [c \in Calls |-> "none"]
  /\ flight = [k \in Keys |-> None]
  /\ cancelled = {}
  /\ saw = [c \in Calls |-> "none"]
  /\ upIn = {}

-----------------------------------------------------------------------------
(* EnsureProxy.                                                            *)

\* Mutant: no singleflight, every call runs.
EnsureProxyUnshared(c, k) ==
  /\ pc[c] = "idle"
  /\ target' = [target EXCEPT ![c] = k]
  /\ flight' = [flight EXCEPT ![k] = c]
  /\ pc' = [pc EXCEPT ![c] = "check"]
  /\ UNCHANGED <<unitVars, result, cancelled, saw>>

\* singleflight.Group.Do: the first call for a key runs, the others wait.
EnsureProxy(c, k) ==
  /\ pc[c] = "idle"
  /\ target' = [target EXCEPT ![c] = k]
  /\ \/ /\ flight[k] = None
        /\ flight' = [flight EXCEPT ![k] = c]
        /\ pc' = [pc EXCEPT ![c] = "check"]
     \/ /\ flight[k] # None
        /\ pc' = [pc EXCEPT ![c] = "waiting"]
        /\ UNCHANGED flight
  /\ UNCHANGED <<unitVars, result, cancelled, saw>>

\* Mutant: a unit that is loaded passes for an active one.
IsLoaded(report) == report \notin {"none", "error"}

\* is-active prints one word; any error means "not active".
IsActive(report) == report = "active"

\* systemctl is-active, which a cancelled context fails.
IsUnitActive(c) ==
  /\ pc[c] = "check"
  /\ \E report \in {unit[target[c]], "error"} :
       /\ c \in cancelled => report = "error"
       /\ saw' = [saw EXCEPT ![c] = report]
       /\ pc' = [pc EXCEPT ![c] = IF IsActive(report) THEN "extend" ELSE "run"]
  /\ UNCHANGED <<unitVars, target, result, flight, cancelled>>

Returns(c, r) ==
  /\ result' = [result EXCEPT ![c] = r]
  /\ pc' = [pc EXCEPT ![c] = "finish"]
  /\ UNCHANGED <<target, flight, cancelled, saw>>

\* systemctl set-property: it needs a unit that is still loaded, be it one that
\* has ended since is-active, and may fail.
ExtendUnit(c) ==
  /\ pc[c] = "extend"
  /\ \/ unit[target[c]] # "none" /\ c \notin cancelled /\ Returns(c, "ok")
     \/ Returns(c, "err")
  /\ UNCHANGED unitVars

\* systemd-run: it refuses a name that is loaded; it may also fail, and the
\* context may end it after systemd has accepted the unit.
SystemdRun(c) ==
  /\ pc[c] = "run"
  /\ LET k == target[c] IN
     \/ /\ unit[k] = "none" /\ c \notin cancelled
        /\ unit' = [unit EXCEPT ![k] = "active"]
        /\ starts' = [starts EXCEPT ![k] = 1]
        /\ Returns(c, "ok") \/ Returns(c, "err")
     \/ unit[k] # "none" /\ c \notin cancelled /\ Returns(c, "exists") /\ UNCHANGED unitVars
     \/ Returns(c, "err") /\ UNCHANGED unitVars

\* Mutant: only the leader returns.
LandsAlone(c) == {c}

\* The flight lands: its leader and every call waiting for it return.
Lands(c) == {c} \cup {d \in Calls : pc[d] = "waiting" /\ target[d] = target[c]}

Finish(c) ==
  /\ pc[c] = "finish"
  /\ flight' = [flight EXCEPT ![target[c]] = None]
  /\ pc' = [d \in Calls |-> IF d \in Lands(c) THEN "done" ELSE pc[d]]
  /\ result' = [d \in Calls |-> IF d \in Lands(c) THEN result[c] ELSE result[d]]
  /\ saw' = [saw EXCEPT ![c] = "none"]
  /\ cancelled' = cancelled \ {c}
  /\ UNCHANGED <<unitVars, target>>

InFlight(c) == pc[c] \notin {"idle", "done", "lost"}

\* A call that runs the function it passed to singleflight.Group.Do.
Leading(c) == pc[c] \in {"check", "extend", "run", "finish"}

\* The client goes away.  Only a leader's commands notice: a call that waits in
\* Group.Do does not look at its context.
Cancel(c) ==
  /\ Leading(c)
  /\ c \notin cancelled
  /\ cancelled' = cancelled \cup {c}
  /\ UNCHANGED <<unitVars, pc, target, result, flight, saw>>

\* The daemon ends and a new one starts, with an empty singleflight.Group; its
\* calls are lost, with the commands they run (systemd ends the service's whole
\* control group), and the units of the tunnels stay.
DaemonRestarts ==
  /\ \E c \in Calls : InFlight(c)
  /\ pc' = [c \in Calls |-> IF InFlight(c) THEN "lost" ELSE pc[c]]
  /\ flight' = [k \in Keys |-> None]
  /\ result' = [c \in Calls |-> IF InFlight(c) THEN "none" ELSE result[c]]
  /\ saw' = [c \in Calls |-> "none"]
  /\ cancelled' = {}
  /\ UNCHANGED <<unitVars, target>>

-----------------------------------------------------------------------------
(* systemd.                                                                *)

\* sshuttle ends with an error, which Restart=on-failure is about.
SshuttleFails(k) ==
  /\ unit[k] = "active"
  /\ unit' = [unit EXCEPT ![k] = "failing"]
  /\ UNCHANGED <<callVars, starts>>

\* sshuttle ends by itself or the unit is stopped.
SshuttleExits(k) ==
  /\ unit[k] = "active"
  /\ unit' = [unit EXCEPT ![k] = "stopping"]
  /\ UNCHANGED <<callVars, starts>>

\* RuntimeMaxSec has passed: systemd ends sshuttle and the unit fails, which
\* Restart=on-failure takes for a failure like any other.
RuntimeMaxElapses(k) ==
  /\ unit[k] = "active"
  /\ unit' = [unit EXCEPT ![k] = "failing"]
  /\ UNCHANGED <<callVars, starts>>

\* The unit's processes are gone.  After a clean end --collect unloads the unit;
\* after a failure it waits for RestartSec.
Deactivated(k) ==
  /\ \/ /\ unit[k] = "stopping"
        /\ unit' = [unit EXCEPT ![k] = "none"]
        /\ starts' = [starts EXCEPT ![k] = 0]
     \/ /\ unit[k] = "failing"
        /\ unit' = [unit EXCEPT ![k] = "restarting"]
        /\ UNCHANGED starts
  /\ UNCHANGED callVars

\* StartLimitIntervalSec is over, whatever the unit does meanwhile: systemd
\* counts the next starts anew.
IntervalElapses(k) ==
  /\ starts[k] > 0
  /\ starts' = [starts EXCEPT ![k] = 0]
  /\ UNCHANGED <<callVars, unit>>

\* Mutant: one start too many.
StartAllowedOnceMore(k) == starts[k] <= StartLimitBurst

StartAllowed(k) == starts[k] < StartLimitBurst

\* RestartSec has passed: systemd starts sshuttle again, or gives up and
\* unloads the unit.
Restart(k) ==
  /\ unit[k] = "restarting"
  /\ \/ /\ StartAllowed(k)
        /\ unit' = [unit EXCEPT ![k] = "active"]
        /\ starts' = [starts EXCEPT ![k] = @ + 1]
     \/ /\ ~StartAllowed(k)
        /\ unit' = [unit EXCEPT ![k] = "none"]
        /\ starts' = [starts EXCEPT ![k] = 0]
  /\ UNCHANGED callVars

-----------------------------------------------------------------------------
CallStep(c) ==
  \/ \E k \in Keys : EnsureProxy(c, k)
  \/ IsUnitActive(c) \/ ExtendUnit(c) \/ SystemdRun(c) \/ Finish(c)

\* What a call does once it has been made.
Proceed(c) == pc[c] # "idle" /\ CallStep(c)

UnitStep(k) ==
  \/ SshuttleFails(k) \/ SshuttleExits(k) \/ RuntimeMaxElapses(k)
  \/ Deactivated(k) \/ IntervalElapses(k) \/ Restart(k)

\* upIn only watches, from a leader's first step to its last.
Watch ==
  upIn' = {c \in Calls : Leading(c)' /\ (c \in upIn \/ unit'[target'[c]] = "active")}

Next ==
  \/ \E c \in Calls : (CallStep(c) \/ Cancel(c)) /\ Watch
  \/ DaemonRestarts /\ Watch
  \/ \E k \in Keys : UnitStep(k) /\ Watch

\* Calls run and commands end.  Requests, cancellations and what systemd and
\* sshuttle do by themselves may never come.
Fairness == \A c \in Calls : WF_vars(Proceed(c) /\ Watch)

Spec == Init /\ [][Next]_vars

FairSpec == Spec /\ Fairness

-----------------------------------------------------------------------------
(* Properties.                                                             *)

UnitStates == {"none", "active", "stopping", "failing", "restarting"}

Reports == UnitStates \cup {"error"}

\* The units, the calls and the flights have their types.
TypeOK ==
  /\ unit \in [Keys -> UnitStates]
  /\ starts \in [Keys -> 0 .. StartLimitBurst]
  /\ pc \in [Calls -> {"idle", "waiting", "check", "extend", "run", "finish", "done", "lost"}]
  /\ target \in [Calls -> Keys \cup {None}]
  /\ result \in [Calls -> {"none", "ok", "err", "exists"}]
  /\ flight \in [Keys -> Calls \cup {None}]
  /\ cancelled \in SUBSET Calls
  /\ saw \in [Calls -> Reports]
  /\ upIn \in SUBSET Calls

\* EnsureProxy reports success only when the tunnel's unit was active at some
\* moment of the flight, although the unit may end or restart between the
\* commands: a unit that is merely loaded is never taken for a tunnel.
OkMeansUp ==
  \A c \in Calls : pc[c] = "finish" /\ result[c] = "ok" => c \in upIn

\* systemd-run is refused for a unit of the same name only when is-active could
\* not be asked or found the unit on its way down or waiting for its restart,
\* never for a unit that was not there: calls of one daemon do not race each
\* other to start a unit, nor does a call race one that a restart has ended.
NoStartRace ==
  \A c \in Calls : pc[c] = "finish" /\ result[c] = "exists" =>
    saw[c] \in {"stopping", "failing", "restarting", "error"}

\* Every call gets an answer or is lost with its daemon, also one that waits for
\* a leader whose client has gone away: there comes a time after which none is
\* on its way (each call is made once).
CallsReturn == <>[](\A c \in Calls : ~InFlight(c))
=============================================================================
