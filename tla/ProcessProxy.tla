---------------------------- MODULE ProcessProxy ----------------------------
(***************************************************************************)
(* proxy.Manager without systemd: sshuttle tunnels spawned as children of  *)
(* the daemon, and the part of main.run that tears them down on exit.      *)
(*                                                                         *)
(* A call of EnsureProxy creates at most one sshuttle process, one         *)
(* processEntry and one TTL timer, so a call c also names the process,     *)
(* the entry and the timer that c created: proc[c], timerOf[c] and         *)
(* tstate[c] belong to the call c, whose target is target[c].  An entry    *)
(* that is refreshed by a later call d has timerOf[c] = d.                 *)
(*                                                                         *)
(* Every step is one critical section of Manager.mu or one statement       *)
(* outside it; goroutines interleave between them.  Timers are untimed:    *)
(* an armed timer may fire at any moment.                                  *)
(***************************************************************************)
CONSTANTS Calls,        \* the EnsureProxy calls made in the daemon's lifetime
          Keys,         \* targetKey values, "ip:port"
          Main,         \* the main goroutine, which runs KillAllProcessProxies
          None,         \* no entry, no timer, no call
          TTLPositive   \* kubeconfig_ttl > 0, so that a TTL timer does not
                        \* fire in the instant in which it is created

ASSUME ConstantsAssumption ==
  /\ None \notin Calls \cup Keys
  /\ Main \notin Calls
  /\ TTLPositive \in BOOLEAN

VARIABLES
  phase,     \* main.run: serving, draining, closed, killing, exited
  drained,   \* http.Server.Shutdown returned before its deadline
  pc,        \* where each call is
  target,    \* the key of a call
  result,    \* what EnsureProxy returned: none, ok, err
  held,      \* the entry a call found in the map (local variable existing)
  flight,    \* singleflight.Group: the leading call per key
  entries,   \* Manager.processEntries
  timerOf,   \* processEntry.timer
  proc,      \* the sshuttle process of a call
  watching,  \* calls whose exit-watching goroutine runs
  tstate,    \* the TTL timer of a call
  victim,    \* local variable e of a running killProcessEntry
  killKeys   \* keys KillAllProcessProxies has still to kill

mainVars  == <<phase, drained, killKeys>>
callVars  == <<pc, target, result, held, flight>>
timerVars == <<timerOf, tstate>>
vars == <<mainVars, callVars, timerVars, entries, proc, watching, victim>>

Runners == Calls \cup {Main}   \* who may run killProcessEntry

Init ==
  /\ phase = "serving" /\ drained = FALSE /\ killKeys = {}
  /\ pc = [c \in Calls |-> "idle"]
  /\ target = [c \in Calls |-> None]
  /\ result = [c \in Calls |-> "none"]
  /\ held = [c \in Calls |-> None]
  /\ flight = [k \in Keys |-> None]
  /\ entries = [k \in Keys |-> None]
  /\ timerOf = [c \in Calls |-> None]
  /\ proc = [c \in Calls |-> "none"]
  /\ watching = {}
  /\ tstate = [c \in Calls |-> "none"]
  /\ victim = [r \in Runners |-> None]

-----------------------------------------------------------------------------
(* Timers.                                                                 *)

\* tstate after Timer.Stop on e.timer: a timer that has fired keeps going.
Stopped(e) ==
  [t \in Calls |-> IF t = timerOf[e] /\ tstate[t] = "armed" THEN "stopped" ELSE tstate[t]]

\* Mutant: the timer is created and not kept in the entry.
ArmTimerUnstored(c, e) ==
  /\ tstate' = [tstate EXCEPT ![c] = "armed"]
  /\ UNCHANGED timerOf

\* The entry e gets a new timer, the one of call c.
ArmTimer(c, e) ==
  /\ tstate' = [tstate EXCEPT ![c] = "armed"]
  /\ timerOf' = [timerOf EXCEPT ![e] = c]

TimerFires(t) ==
  /\ tstate[t] = "armed"
  /\ TTLPositive => pc[t] # "insert"
  /\ tstate' = [tstate EXCEPT ![t] = "fired"]
  /\ UNCHANGED <<mainVars, callVars, timerOf, entries, proc, watching, victim>>

-----------------------------------------------------------------------------
(* EnsureProxy.                                                            *)

\* The HTTP server hands a tool call to its handler.
AcceptRequest(c) ==
  /\ phase = "serving"
  /\ pc[c] = "idle"
  /\ pc' = [pc EXCEPT ![c] = "request"]
  /\ UNCHANGED <<mainVars, timerVars, target, result, held, flight, entries,
                 proc, watching, victim>>

\* Mutant: no singleflight, every call runs.
EnsureProxyUnshared(c, k) ==
  /\ pc[c] = "request"
  /\ target' = [target EXCEPT ![c] = k]
  /\ pc' = [pc EXCEPT ![c] = "lookup"]
  /\ flight' = [flight EXCEPT ![k] = c]
  /\ UNCHANGED <<mainVars, timerVars, result, held, entries, proc, watching, victim>>

\* singleflight.Group.Do: the first call for a key runs, the others wait.
EnsureProxy(c, k) ==
  /\ pc[c] = "request"
  /\ target' = [target EXCEPT ![c] = k]
  /\ \/ /\ flight[k] = None
        /\ flight' = [flight EXCEPT ![k] = c]
        /\ pc' = [pc EXCEPT ![c] = "lookup"]
     \/ /\ flight[k] # None
        /\ pc' = [pc EXCEPT ![c] = "waiting"]
        /\ UNCHANGED flight
  /\ UNCHANGED <<mainVars, timerVars, result, held, entries, proc, watching, victim>>

\* The map is read under the lock; what was found is used after the unlock.
Lookup(c) ==
  /\ pc[c] = "lookup"
  /\ held' = [held EXCEPT ![c] = entries[target[c]]]
  /\ pc' = [pc EXCEPT ![c] = IF entries[target[c]] = None THEN "spawn" ELSE "stop"]
  /\ UNCHANGED <<mainVars, timerVars, target, result, flight, entries, proc,
                 watching, victim>>

\* A running tunnel is reused: its old timer is stopped ...
StopOldTimer(c) ==
  /\ pc[c] = "stop"
  /\ tstate' = Stopped(held[c])
  /\ pc' = [pc EXCEPT ![c] = "rearm"]
  /\ UNCHANGED <<mainVars, target, result, held, flight, timerOf, entries, proc,
                 watching, victim>>

\* Mutant: the refresh forgets to create the new timer.
RearmNothing(c) ==
  /\ pc[c] = "rearm"
  /\ pc' = [pc EXCEPT ![c] = "finish"]
  /\ result' = [result EXCEPT ![c] = "ok"]
  /\ UNCHANGED <<mainVars, timerVars, target, held, flight, entries, proc, watching, victim>>

\* ... and a new one is stored in the entry.
Rearm(c) ==
  /\ pc[c] = "rearm"
  /\ ArmTimer(c, held[c])
  /\ pc' = [pc EXCEPT ![c] = "finish"]
  /\ result' = [result EXCEPT ![c] = "ok"]
  /\ UNCHANGED <<mainVars, target, held, flight, entries, proc, watching, victim>>

Spawn(c) ==
  /\ pc[c] = "spawn"
  /\ proc' = [proc EXCEPT ![c] = "running"]
  /\ pc' = [pc EXCEPT ![c] = "startup"]
  /\ UNCHANGED <<mainVars, timerVars, target, result, held, flight, entries,
                 watching, victim>>

SpawnFails(c) ==
  /\ pc[c] = "spawn"
  /\ pc' = [pc EXCEPT ![c] = "finish"]
  /\ result' = [result EXCEPT ![c] = "err"]
  /\ UNCHANGED <<mainVars, timerVars, target, held, flight, entries, proc,
                 watching, victim>>

\* The select on exited and startupElapsed; when both are ready either wins.
StartupExited(c) ==
  /\ pc[c] = "startup"
  /\ proc[c] = "exited"
  /\ pc' = [pc EXCEPT ![c] = "finish"]
  /\ result' = [result EXCEPT ![c] = "err"]
  /\ UNCHANGED <<mainVars, timerVars, target, held, flight, entries, proc,
                 watching, victim>>

StartupElapsed(c) ==
  /\ pc[c] = "startup"
  /\ ArmTimer(c, c)
  /\ pc' = [pc EXCEPT ![c] = "insert"]
  /\ UNCHANGED <<mainVars, target, result, held, flight, entries, proc,
                 watching, victim>>

Insert(c) ==
  /\ pc[c] = "insert"
  /\ entries' = [entries EXCEPT ![target[c]] = c]
  /\ watching' = watching \cup {c}
  /\ pc' = [pc EXCEPT ![c] = "finish"]
  /\ result' = [result EXCEPT ![c] = "ok"]
  /\ UNCHANGED <<mainVars, timerVars, target, held, flight, proc, victim>>

\* Mutant: only the leader returns.
LandsAlone(c) == {c}

\* The flight lands: its leader and every call waiting for it return.
Lands(c) == {c} \cup {d \in Calls : pc[d] = "waiting" /\ target[d] = target[c]}

Finish(c) ==
  /\ pc[c] = "finish"
  /\ flight' = [flight EXCEPT ![target[c]] = None]
  /\ pc' = [d \in Calls |-> IF d \in Lands(c) THEN "done" ELSE pc[d]]
  /\ result' = [d \in Calls |-> IF d \in Lands(c) THEN result[c] ELSE result[d]]
  /\ UNCHANGED <<mainVars, timerVars, target, held, entries, proc, watching, victim>>

-----------------------------------------------------------------------------
(* The processes and the goroutines that follow them.                      *)

\* sshuttle exits, on its own or after SIGTERM, and cmd.Wait returns.
ProcessExits(p) ==
  /\ proc[p] \in {"running", "terminating"}
  /\ proc' = [proc EXCEPT ![p] = "exited"]
  /\ UNCHANGED <<mainVars, callVars, timerVars, entries, watching, victim>>

\* Mutant: the watcher looks at the key only, not at whose entry it is.
IsCurrentKeyOnly(p) == entries[target[p]] # None

\* The watcher deletes an entry only while the entry is its own.
IsCurrent(p) == entries[target[p]] = p

WatcherRuns(p) ==
  /\ p \in watching
  /\ proc[p] = "exited"
  /\ watching' = watching \ {p}
  /\ \/ /\ IsCurrent(p)
        /\ tstate' = Stopped(entries[target[p]])
        /\ entries' = [entries EXCEPT ![target[p]] = None]
     \/ /\ ~IsCurrent(p)
        /\ UNCHANGED <<tstate, entries>>
  /\ UNCHANGED <<mainVars, callVars, timerOf, proc, victim>>

-----------------------------------------------------------------------------
(* killProcessEntry, run by a fired timer or by KillAllProcessProxies.     *)

\* Under the lock: the entry leaves the map, whoever created it.
TakeEntry(r, k) ==
  /\ victim' = [victim EXCEPT ![r] = entries[k]]
  /\ entries' = [entries EXCEPT ![k] = None]

\* Mutant: SIGTERM is never sent.
TerminateNothing(p) == UNCHANGED proc

\* After the unlock: the entry's timer is stopped and SIGTERM is sent.
Terminate(p) ==
  proc' = [proc EXCEPT ![p] = IF @ = "running" THEN "terminating" ELSE @]

TimerTakesEntry(t) ==
  /\ tstate[t] = "fired"
  /\ victim[t] = None
  /\ TakeEntry(t, target[t])
  /\ tstate' = [tstate EXCEPT ![t] = IF entries[target[t]] = None THEN "done" ELSE @]
  /\ UNCHANGED <<mainVars, callVars, timerOf, proc, watching>>

TimerKills(t) ==
  /\ victim[t] # None
  /\ tstate' = [Stopped(victim[t]) EXCEPT ![t] = "done"]
  /\ Terminate(victim[t])
  /\ victim' = [victim EXCEPT ![t] = None]
  /\ UNCHANGED <<mainVars, callVars, timerOf, entries, watching>>

-----------------------------------------------------------------------------
(* main.run after SIGTERM.                                                 *)

SignalReceived ==
  /\ phase = "serving"
  /\ phase' = "draining"
  /\ UNCHANGED <<drained, killKeys, callVars, timerVars, entries, proc, watching, victim>>

\* Shutdown returns when no request is in flight, or after ten seconds.
CloseServer ==
  /\ phase = "draining"
  /\ phase' = "closed"
  /\ drained' \in {FALSE, \A c \in Calls : pc[c] \in {"idle", "done"}}
  /\ UNCHANGED <<killKeys, callVars, timerVars, entries, proc, watching, victim>>

\* Mutant: the snapshot of the keys misses entries.
KillOneProcessProxy ==
  /\ phase = "closed"
  /\ phase' = "killing"
  /\ killKeys' \in {{k} : k \in {q \in Keys : entries[q] # None}} \cup {{}}
  /\ UNCHANGED <<drained, callVars, timerVars, entries, proc, watching, victim>>

KillAllProcessProxies ==
  /\ phase = "closed"
  /\ phase' = "killing"
  /\ killKeys' = {k \in Keys : entries[k] # None}
  /\ UNCHANGED <<drained, callVars, timerVars, entries, proc, watching, victim>>

MainTakesEntry(k) ==
  /\ phase = "killing"
  /\ victim[Main] = None
  /\ k \in killKeys
  /\ killKeys' = killKeys \ {k}
  /\ TakeEntry(Main, k)
  /\ UNCHANGED <<phase, drained, callVars, timerVars, proc, watching>>

MainKills ==
  /\ victim[Main] # None
  /\ tstate' = Stopped(victim[Main])
  /\ Terminate(victim[Main])
  /\ victim' = [victim EXCEPT ![Main] = None]
  /\ UNCHANGED <<mainVars, callVars, timerOf, entries, watching>>

\* run returns: every goroutine ends where it is.
Exit ==
  /\ phase = "killing"
  /\ killKeys = {}
  /\ victim[Main] = None
  /\ phase' = "exited"
  /\ UNCHANGED <<drained, killKeys, callVars, timerVars, entries, proc, watching, victim>>

-----------------------------------------------------------------------------
\* What a call does by itself once it has been accepted.
CallStep(c) ==
  \/ \E k \in Keys : EnsureProxy(c, k)
  \/ Lookup(c) \/ StopOldTimer(c) \/ Rearm(c)
  \/ Spawn(c) \/ SpawnFails(c) \/ StartupExited(c) \/ StartupElapsed(c)
  \/ Insert(c) \/ Finish(c)

TimerStep(t) == TimerFires(t) \/ TimerTakesEntry(t) \/ TimerKills(t)

MainStep ==
  \/ CloseServer \/ KillAllProcessProxies
  \/ \E k \in Keys : MainTakesEntry(k)
  \/ MainKills \/ Exit

DaemonStep ==
  \/ SignalReceived \/ MainStep
  \/ \E c \in Calls :
       AcceptRequest(c) \/ CallStep(c) \/ TimerStep(c) \/ WatcherRuns(c)

Next ==
  \/ phase # "exited" /\ DaemonStep
  \/ \E p \in Calls : ProcessExits(p)

Spec == Init /\ [][Next]_vars

\* Calls and timers run; requests, signals and sshuttle's exit may never come, and
\* nothing depends on the watchers.
Fairness ==
  /\ WF_vars(MainStep)
  /\ \A c \in Calls :
       /\ WF_vars(phase # "exited" /\ CallStep(c))
       /\ WF_vars(phase # "exited" /\ TimerStep(c))

FairSpec == Spec /\ Fairness

-----------------------------------------------------------------------------
(* Properties.                                                             *)

PcValues == {"idle", "request", "lookup", "waiting", "stop", "rearm", "spawn",
             "startup", "insert", "finish", "done"}

\* The state of the manager, of its calls, timers and processes has its type.
TypeOK ==
  /\ phase \in {"serving", "draining", "closed", "killing", "exited"}
  /\ drained \in BOOLEAN
  /\ killKeys \in SUBSET Keys
  /\ pc \in [Calls -> PcValues]
  /\ target \in [Calls -> Keys \cup {None}]
  /\ result \in [Calls -> {"none", "ok", "err"}]
  /\ held \in [Calls -> Calls \cup {None}]
  /\ flight \in [Keys -> Calls \cup {None}]
  /\ entries \in [Keys -> Calls \cup {None}]
  /\ timerOf \in [Calls -> Calls \cup {None}]
  /\ proc \in [Calls -> {"none", "running", "terminating", "exited"}]
  /\ watching \in SUBSET Calls
  /\ tstate \in [Calls -> {"none", "armed", "stopped", "fired", "done"}]
  /\ victim \in [Runners -> Calls \cup {None}]

Running(p)  == proc[p] = "running"
Starting(p) == pc[p] \in {"startup", "insert"}
Tracked(p)  == entries[target[p]] = p
Doomed(p)   == \E r \in Runners : victim[r] = p

\* No sshuttle process is ever forgotten: while one runs, the call that spawned
\* it is still in its startup window, or the map leads to it, or some
\* killProcessEntry has it in hand.  The watcher's test cur == e is what keeps a
\* late watcher from dropping the entry of a successor.
NoOrphan == \A p \in Calls : Running(p) => Starting(p) \/ Tracked(p) \/ Doomed(p)

\* Two sshuttle processes that nobody is about to kill never run for the same
\* API server: what singleflight and the map are for together.
OneTunnelPerTarget ==
  \A p, q \in Calls :
    /\ Running(p) /\ ~Doomed(p)
    /\ Running(q) /\ ~Doomed(q)
    /\ target[p] = target[q]
    => p = q

\* The TTL bounds every tunnel in the map: its current timer is armed, or a
\* fired timer is about to take the entry, or a refresh that has stopped the
\* old timer is about to store a new one.
TunnelExpires ==
  \A p \in Calls :
    Running(p) /\ Tracked(p) =>
      \/ timerOf[p] # None /\ tstate[timerOf[p]] = "armed"
      \/ \E t \in Calls : tstate[t] = "fired" /\ victim[t] = None /\ target[t] = target[p]
      \/ \E c \in Calls : pc[c] = "rearm" /\ held[c] = p

\* When no tool call was in flight as the HTTP server closed, the exit hook
\* leaves no tunnel running, but for one that a TTL timer had already taken out
\* of the map and not yet signalled as the daemon exited.
DrainedExitTearsDown ==
  phase = "exited" /\ drained =>
    \A p \in Calls : Running(p) => \E t \in Calls : victim[t] = p

\* Every tool call that reaches EnsureProxy gets an answer, as the leader of a
\* flight or by waiting for one, unless the daemon exits first: there comes a
\* time after which none is on its way (each call is made once).
CallsReturn ==
  <>[](phase = "exited" \/ \A c \in Calls : pc[c] \in {"idle", "done"})

\* Once calls stop refreshing it, every tunnel is told to terminate, unless the
\* daemon exits first; none keeps running for ever.
TunnelsEnd ==
  <>[](phase = "exited" \/ \A p \in Calls : ~Running(p))

\* manager_test.go: the timer that a refresh replaced must not remove the entry.
\* Stated of every step: a timer that takes an entry is the entry's own.
OnlyCurrentTimerKills ==
  [][\A t, p \in Calls : victim[t] = None /\ victim'[t] = p => timerOf[p] = t]_vars

-----------------------------------------------------------------------------
(* The inductive invariant behind the safety properties.                   *)

\* A call that runs the function it passed to singleflight.Group.Do.
Leading(c) ==
  pc[c] \in {"lookup", "stop", "rearm", "spawn", "startup", "insert", "finish"}

\* The process of p was spawned and ensureProcessProxy is through with it.
Launched(p) == proc[p] # "none" /\ pc[p] \in {"finish", "done"}

\* The leader of a key is the one call of its flight, and while it is spawning a
\* process no other call puts an entry under its key.
LeaderInv ==
  \A c \in Calls :
    /\ pc[c] \notin {"idle", "request"} => target[c] \in Keys
    /\ Leading(c) => flight[target[c]] = c
    /\ pc[c] \in {"stop", "rearm"} => held[c] # None
    /\ pc[c] \in {"spawn", "startup", "insert"} => entries[target[c]] = None
    /\ held[c] # None => /\ pc[c] \in {"stop", "rearm", "finish", "done"}
                         /\ Launched(held[c])
                         /\ target[held[c]] = target[c]

\* An entry in the map, in the hands of killProcessEntry or of a watcher belongs
\* to a launched process; one that killProcessEntry holds has left the map.
EntryInv ==
  /\ \A p \in Calls :
       /\ proc[p] # "none" => pc[p] \in {"startup", "insert", "finish", "done"}
       /\ pc[p] \in {"startup", "insert"} => proc[p] # "none"
       /\ p \in watching => Launched(p)
  /\ \A k \in Keys : entries[k] # None => Launched(entries[k]) /\ target[entries[k]] = k
  /\ \A r \in Runners : victim[r] # None => Launched(victim[r]) /\ ~Tracked(victim[r])

\* A call creates its timer once; the timer belongs to one entry, of its own key.
TimerInv ==
  /\ \A c \in Calls :
       /\ tstate[c] # "none" => pc[c] \in {"insert", "finish", "done"}
       /\ pc[c] = "insert" => timerOf[c] = c /\ (TTLPositive => tstate[c] = "armed")
       /\ victim[c] # None => tstate[c] = "fired"
       /\ timerOf[c] # None => /\ tstate[timerOf[c]] # "none"
                               /\ target[timerOf[c]] = target[c]
                               /\ pc[c] \in {"insert", "finish", "done"}
  /\ \A p, q \in Calls : timerOf[p] = timerOf[q] /\ timerOf[p] # None => p = q

\* After a clean drain no call is running, and what is left in the map is what
\* KillAllProcessProxies has still to kill.
ExitInv ==
  /\ drained => phase \in {"closed", "killing", "exited"}
  /\ drained => \A c \in Calls : pc[c] \in {"idle", "done"}
  /\ drained /\ phase \in {"killing", "exited"} =>
       \A k \in Keys : entries[k] # None => k \in killKeys
  /\ phase = "exited" => killKeys = {} /\ victim[Main] = None

\* The inductive invariant: what every critical section of the manager may rely
\* on, whatever the other goroutines are doing.  All that is known of a
\* process follows from where its call is and from who holds its entry.
IInv == TypeOK /\ LeaderInv /\ EntryInv /\ TimerInv /\ ExitInv

-----------------------------------------------------------------------------
(* The manager implements TunnelLifecycle.                                 *)

\* A process that runs and is neither starting, nor tracked, nor doomed has no
\* counterpart in TunnelLifecycle.
StageOf(p) ==
  CASE proc[p] = "none"        -> "none"
    [] proc[p] = "exited"      -> "gone"
    [] proc[p] = "terminating" -> "doomed"
    [] Running(p) /\ Doomed(p)                                -> "doomed"
    [] Running(p) /\ ~Doomed(p) /\ Starting(p)                -> "starting"
    [] Running(p) /\ ~Doomed(p) /\ ~Starting(p) /\ Tracked(p)  -> "up"
    [] Running(p) /\ ~Doomed(p) /\ ~Starting(p) /\ ~Tracked(p) -> "lost"

stageBar  == [p \in Calls |-> StageOf(p)]
serverBar == [p \in Calls |-> IF proc[p] = "none" THEN None ELSE target[p]]

TL == INSTANCE TunnelLifecycle
        WITH Tunnels <- Calls, Servers <- Keys, NoServer <- None,
             stage <- stageBar, server <- serverBar

\* Every behaviour of the manager is one of the abstract tunnels: a tunnel is
\* started only for a server that has none starting or up, becomes up when its
\* startup window has passed, and leaves the map only to be killed.
Implements == TL!Spec
=============================================================================
