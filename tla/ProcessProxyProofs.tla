------------------------- MODULE ProcessProxyProofs -------------------------
(***************************************************************************)
(* Proofs about ProcessProxy, for any sets of calls and of API servers.    *)
(* IInv is shown to be inductive, one lemma per action; NoOrphan and       *)
(* TunnelExpires are inductive relative to it, and OneTunnelPerTarget and  *)
(* DrainedExitTearsDown follow from NoOrphan.  The last part shows that    *)
(* ProcessProxy implements TunnelLifecycle under StageOf.                  *)
(***************************************************************************)
EXTENDS ProcessProxy, TLAPS

USE ConstantsAssumption DEF mainVars, callVars, timerVars, Runners, PcValues

\* A timer that fires changes nothing but its own state.
LEMMA TimerFiresKeepsIInv ==
  ASSUME IInv, NEW c \in Calls, phase # "exited", TimerFires(c)
  PROVE  IInv'
<1> USE DEF IInv, TimerFires
<1>1. TypeOK'
  BY DEF TypeOK
<1>2. LeaderInv'
  BY <1>1 DEF LeaderInv, Leading, Launched
<1>3. EntryInv'
  BY <1>1 DEF EntryInv, Launched, Tracked
<1>4. TimerInv'
  BY <1>1 DEF TimerInv
<1>5. ExitInv'
  BY <1>1 DEF ExitInv
<1>6. QED
  BY <1>1, <1>2, <1>3, <1>4, <1>5

\* A request that is accepted leads no flight yet.
LEMMA AcceptRequestKeepsIInv ==
  ASSUME IInv, NEW c \in Calls, phase # "exited", AcceptRequest(c)
  PROVE  IInv'
<1> USE DEF IInv, AcceptRequest
<1>1. TypeOK'
  BY DEF TypeOK
<1>2. LeaderInv'
  BY <1>1 DEF LeaderInv, Leading, Launched
<1>3. EntryInv'
  BY <1>1 DEF EntryInv, Launched, Tracked
<1>4. TimerInv'
  BY <1>1 DEF TimerInv
<1>5. ExitInv'
  BY <1>1 DEF ExitInv
<1>6. QED
  BY <1>1, <1>2, <1>3, <1>4, <1>5

\* A call becomes the leader of a key that has none, or waits for the leader.
LEMMA EnsureProxyKeepsIInv ==
  ASSUME IInv, NEW c \in Calls, NEW k \in Keys, phase # "exited", EnsureProxy(c, k)
  PROVE  IInv'
<1> USE DEF IInv, EnsureProxy
<1>1. TypeOK'
  BY DEF TypeOK
<1>2. LeaderInv'
  BY <1>1 DEF TypeOK, LeaderInv, Leading, Launched
<1>3. EntryInv'
  BY <1>1 DEF TypeOK, EntryInv, Launched, Tracked
<1>4. TimerInv'
  BY <1>1 DEF TypeOK, TimerInv
<1>5. ExitInv'
  BY <1>1 DEF ExitInv
<1>6. QED
  BY <1>1, <1>2, <1>3, <1>4, <1>5

\* What the leader finds in the map is the entry of a launched process of its key,
\* and when it finds none, there is none.
LEMMA LookupKeepsIInv ==
  ASSUME IInv, NEW c \in Calls, phase # "exited", Lookup(c)
  PROVE  IInv'
<1> USE DEF IInv, Lookup
<1>1. TypeOK'
  BY DEF TypeOK, LeaderInv
<1>2. LeaderInv'
  BY <1>1 DEF TypeOK, LeaderInv, EntryInv, Leading, Launched
<1>3. EntryInv'
  BY <1>1 DEF EntryInv, Launched, Tracked
<1>4. TimerInv'
  BY <1>1 DEF TimerInv
<1>5. ExitInv'
  BY <1>1 DEF ExitInv
<1>6. QED
  BY <1>1, <1>2, <1>3, <1>4, <1>5

\* Stopping the timer of the entry in hand disturbs timers only.
LEMMA StopOldTimerKeepsIInv ==
  ASSUME IInv, NEW c \in Calls, phase # "exited", StopOldTimer(c)
  PROVE  IInv'
<1> USE DEF IInv, StopOldTimer, Stopped
<1>1. TypeOK'
  BY DEF TypeOK
<1>2. LeaderInv'
  BY <1>1 DEF LeaderInv, Leading, Launched
<1>3. EntryInv'
  BY <1>1 DEF EntryInv, Launched, Tracked
<1>4. TimerInv'
  BY <1>1 DEF TypeOK, LeaderInv, TimerInv, Leading
<1>5. ExitInv'
  BY <1>1 DEF ExitInv
<1>6. QED
  BY <1>1, <1>2, <1>3, <1>4, <1>5

\* The new timer belongs to the refreshed entry alone: its call never had one.
LEMMA RearmKeepsIInv ==
  ASSUME IInv, NEW c \in Calls, phase # "exited", Rearm(c)
  PROVE  IInv'
<1> USE DEF IInv, Rearm, ArmTimer
<1>1. TypeOK'
  BY DEF TypeOK
<1>2. LeaderInv'
  BY <1>1 DEF LeaderInv, Leading, Launched
<1>3. EntryInv'
  BY <1>1 DEF EntryInv, Launched, Tracked
<1>4. TimerInv'
  BY <1>1 DEF TypeOK, LeaderInv, TimerInv, Launched
<1>5. ExitInv'
  BY <1>1 DEF ExitInv
<1>6. QED
  BY <1>1, <1>2, <1>3, <1>4, <1>5

\* The leader that spawns a process has found no entry, and nobody else adds one.
LEMMA SpawnKeepsIInv ==
  ASSUME IInv, NEW c \in Calls, phase # "exited", Spawn(c)
  PROVE  IInv'
<1> USE DEF IInv, Spawn
<1>1. TypeOK'
  BY DEF TypeOK
<1>2. LeaderInv'
  BY <1>1 DEF LeaderInv, Leading, Launched
<1>3. EntryInv'
  BY <1>1 DEF TypeOK, EntryInv, Launched, Tracked
<1>4. TimerInv'
  BY <1>1 DEF TimerInv
<1>5. ExitInv'
  BY <1>1 DEF ExitInv
<1>6. QED
  BY <1>1, <1>2, <1>3, <1>4, <1>5

\* A leader whose spawn fails leaves nothing behind.
LEMMA SpawnFailsKeepsIInv ==
  ASSUME IInv, NEW c \in Calls, phase # "exited", SpawnFails(c)
  PROVE  IInv'
<1> USE DEF IInv, SpawnFails
<1>1. TypeOK'
  BY DEF TypeOK
<1>2. LeaderInv'
  BY <1>1 DEF LeaderInv, Leading, Launched
<1>3. EntryInv'
  BY <1>1 DEF EntryInv, Launched, Tracked
<1>4. TimerInv'
  BY <1>1 DEF TimerInv
<1>5. ExitInv'
  BY <1>1 DEF ExitInv
<1>6. QED
  BY <1>1, <1>2, <1>3, <1>4, <1>5

\* A process that exits early is launched and never enters the map.
LEMMA StartupExitedKeepsIInv ==
  ASSUME IInv, NEW c \in Calls, phase # "exited", StartupExited(c)
  PROVE  IInv'
<1> USE DEF IInv, StartupExited
<1>1. TypeOK'
  BY DEF TypeOK
<1>2. LeaderInv'
  BY <1>1 DEF LeaderInv, Leading, Launched
<1>3. EntryInv'
  BY <1>1 DEF EntryInv, Launched, Tracked
<1>4. TimerInv'
  BY <1>1 DEF TimerInv
<1>5. ExitInv'
  BY <1>1 DEF ExitInv
<1>6. QED
  BY <1>1, <1>2, <1>3, <1>4, <1>5

\* The timer of a new entry is armed before the entry is in the map.
LEMMA StartupElapsedKeepsIInv ==
  ASSUME IInv, NEW c \in Calls, phase # "exited", StartupElapsed(c)
  PROVE  IInv'
<1> USE DEF IInv, StartupElapsed, ArmTimer
<1>1. TypeOK'
  BY DEF TypeOK
<1>2. LeaderInv'
  BY <1>1 DEF LeaderInv, Leading, Launched
<1>3. EntryInv'
  BY <1>1 DEF EntryInv, Launched, Tracked
<1>4. TimerInv'
  BY <1>1 DEF TypeOK, TimerInv
<1>5. ExitInv'
  BY <1>1 DEF ExitInv
<1>6. QED
  BY <1>1, <1>2, <1>3, <1>4, <1>5

\* The entry stored in the map is that of the process its leader has launched; after
\* a clean drain there is no such leader.
LEMMA InsertKeepsIInv ==
  ASSUME IInv, NEW c \in Calls, phase # "exited", Insert(c)
  PROVE  IInv'
<1> USE DEF IInv, Insert
<1>1. TypeOK'
  BY DEF TypeOK
<1>2. LeaderInv'
  BY <1>1 DEF TypeOK, LeaderInv, Leading, Launched
<1>3. EntryInv'
  BY <1>1 DEF TypeOK, EntryInv, Launched, Tracked
<1>4. TimerInv'
  BY <1>1 DEF TimerInv
<1>5. ExitInv'
  BY <1>1 DEF ExitInv
<1>6. QED
  BY <1>1, <1>2, <1>3, <1>4, <1>5

\* The flight lands: its leader and those waiting for it lead nothing any more.
LEMMA FinishKeepsIInv ==
  ASSUME IInv, NEW c \in Calls, phase # "exited", Finish(c)
  PROVE  IInv'
<1> USE DEF IInv, Finish, Lands
<1>1. TypeOK'
  BY DEF TypeOK
<1>2. LeaderInv'
  BY <1>1 DEF TypeOK, LeaderInv, Leading, Launched
<1>3. EntryInv'
  BY <1>1 DEF TypeOK, EntryInv, Launched, Tracked
<1>4. TimerInv'
  BY <1>1 DEF TimerInv
<1>5. ExitInv'
  BY <1>1 DEF ExitInv
<1>6. QED
  BY <1>1, <1>2, <1>3, <1>4, <1>5

\* A process that exits stays launched.
LEMMA ProcessExitsKeepsIInv ==
  ASSUME IInv, NEW c \in Calls, ProcessExits(c)
  PROVE  IInv'
<1> USE DEF IInv, ProcessExits
<1>1. TypeOK'
  BY DEF TypeOK
<1>2. LeaderInv'
  BY <1>1 DEF LeaderInv, Leading, Launched
<1>3. EntryInv'
  BY <1>1 DEF EntryInv, Launched, Tracked
<1>4. TimerInv'
  BY <1>1 DEF TimerInv
<1>5. ExitInv'
  BY <1>1 DEF ExitInv
<1>6. QED
  BY <1>1, <1>2, <1>3, <1>4, <1>5

\* The watcher removes its own entry from the map, and no other.
LEMMA WatcherRunsKeepsIInv ==
  ASSUME IInv, NEW c \in Calls, phase # "exited", WatcherRuns(c)
  PROVE  IInv'
<1> USE DEF IInv, WatcherRuns, Stopped, IsCurrent
<1>1. TypeOK'
  BY DEF TypeOK
<1>2. LeaderInv'
  BY <1>1 DEF TypeOK, LeaderInv, Leading, Launched
<1>3. EntryInv'
  BY <1>1 DEF TypeOK, EntryInv, LeaderInv, Launched, Tracked
<1>4. TimerInv'
  BY <1>1 DEF TypeOK, TimerInv, LeaderInv, Launched
<1>5. ExitInv'
  BY <1>1 DEF TypeOK, ExitInv
<1>6. QED
  BY <1>1, <1>2, <1>3, <1>4, <1>5

\* An entry taken by a timer has left the map: the map has an entry once only.
LEMMA TimerTakesEntryKeepsIInv ==
  ASSUME IInv, NEW c \in Calls, phase # "exited", TimerTakesEntry(c)
  PROVE  IInv'
<1> USE DEF IInv, TimerTakesEntry, TakeEntry
<1>1. TypeOK'
  BY DEF TypeOK, LeaderInv, EntryInv, TimerInv, Launched
<1>2. LeaderInv'
  BY <1>1 DEF LeaderInv, Leading, Launched
<1>3. EntryInv'
  BY <1>1 DEF TypeOK, EntryInv, Launched, Tracked
<1>4. TimerInv'
  BY <1>1 DEF TimerInv
<1>5. ExitInv'
  BY <1>1 DEF ExitInv
<1>6. QED
  BY <1>1, <1>2, <1>3, <1>4, <1>5

\* A timer that has killed its victim is done, and so is the timer of the victim.
LEMMA TimerKillsKeepsIInv ==
  ASSUME IInv, NEW c \in Calls, phase # "exited", TimerKills(c)
  PROVE  IInv'
<1> USE DEF IInv, TimerKills, Terminate, Stopped
<1>1. TypeOK'
  BY DEF TypeOK
<1>2. LeaderInv'
  BY <1>1 DEF LeaderInv, Leading, Launched
<1>3. EntryInv'
  BY <1>1 DEF EntryInv, Launched, Tracked
<1>4. TimerInv'
  BY <1>1 DEF TypeOK, TimerInv, LeaderInv, EntryInv, Launched, Tracked
<1>5. ExitInv'
  BY <1>1 DEF ExitInv
<1>6. QED
  BY <1>1, <1>2, <1>3, <1>4, <1>5

\* The signal changes the phase only.
LEMMA SignalReceivedKeepsIInv ==
  ASSUME IInv, phase # "exited", SignalReceived
  PROVE  IInv'
<1> USE DEF IInv, SignalReceived
<1>1. TypeOK'
  BY DEF TypeOK
<1>2. LeaderInv'
  BY <1>1 DEF LeaderInv, Leading, Launched
<1>3. EntryInv'
  BY <1>1 DEF EntryInv, Launched, Tracked
<1>4. TimerInv'
  BY <1>1 DEF TimerInv
<1>5. ExitInv'
  BY <1>1 DEF ExitInv
<1>6. QED
  BY <1>1, <1>2, <1>3, <1>4, <1>5

\* The drain is clean only if no call is running.
LEMMA CloseServerKeepsIInv ==
  ASSUME IInv, phase # "exited", CloseServer
  PROVE  IInv'
<1> USE DEF IInv, CloseServer
<1>1. TypeOK'
  BY DEF TypeOK
<1>2. LeaderInv'
  BY <1>1 DEF LeaderInv, Leading, Launched
<1>3. EntryInv'
  BY <1>1 DEF EntryInv, Launched, Tracked
<1>4. TimerInv'
  BY <1>1 DEF TimerInv
<1>5. ExitInv'
  BY <1>1 DEF ExitInv
<1>6. QED
  BY <1>1, <1>2, <1>3, <1>4, <1>5

\* The snapshot has every key of the map.
LEMMA KillAllProcessProxiesKeepsIInv ==
  ASSUME IInv, phase # "exited", KillAllProcessProxies
  PROVE  IInv'
<1> USE DEF IInv, KillAllProcessProxies
<1>1. TypeOK'
  BY DEF TypeOK
<1>2. LeaderInv'
  BY <1>1 DEF LeaderInv, Leading, Launched
<1>3. EntryInv'
  BY <1>1 DEF EntryInv, Launched, Tracked
<1>4. TimerInv'
  BY <1>1 DEF TimerInv
<1>5. ExitInv'
  BY <1>1 DEF ExitInv
<1>6. QED
  BY <1>1, <1>2, <1>3, <1>4, <1>5

\* The exit hook removes the entry and the key together.
LEMMA MainTakesEntryKeepsIInv ==
  ASSUME IInv, NEW k \in Keys, phase # "exited", MainTakesEntry(k)
  PROVE  IInv'
<1> USE DEF IInv, MainTakesEntry, TakeEntry
<1>1. TypeOK'
  BY DEF TypeOK
<1>2. LeaderInv'
  BY <1>1 DEF LeaderInv, Leading, Launched
<1>3. EntryInv'
  BY <1>1 DEF TypeOK, EntryInv, Launched, Tracked
<1>4. TimerInv'
  BY <1>1 DEF TimerInv
<1>5. ExitInv'
  BY <1>1 DEF TypeOK, ExitInv
<1>6. QED
  BY <1>1, <1>2, <1>3, <1>4, <1>5

\* Killing the victim of the exit hook leaves the map alone.
LEMMA MainKillsKeepsIInv ==
  ASSUME IInv, phase # "exited", MainKills
  PROVE  IInv'
<1> USE DEF IInv, MainKills, Terminate, Stopped
<1>1. TypeOK'
  BY DEF TypeOK
<1>2. LeaderInv'
  BY <1>1 DEF LeaderInv, Leading, Launched
<1>3. EntryInv'
  BY <1>1 DEF EntryInv, Launched, Tracked
<1>4. TimerInv'
  BY <1>1 DEF TypeOK, TimerInv, LeaderInv, EntryInv, Launched, Tracked
<1>5. ExitInv'
  BY <1>1 DEF ExitInv
<1>6. QED
  BY <1>1, <1>2, <1>3, <1>4, <1>5

\* The daemon exits with no key and no victim left to kill.
LEMMA ExitKeepsIInv ==
  ASSUME IInv, phase # "exited", Exit
  PROVE  IInv'
<1> USE DEF IInv, Exit
<1>1. TypeOK'
  BY DEF TypeOK
<1>2. LeaderInv'
  BY <1>1 DEF LeaderInv, Leading, Launched
<1>3. EntryInv'
  BY <1>1 DEF EntryInv, Launched, Tracked
<1>4. TimerInv'
  BY <1>1 DEF TimerInv
<1>5. ExitInv'
  BY <1>1 DEF ExitInv
<1>6. QED
  BY <1>1, <1>2, <1>3, <1>4, <1>5

-----------------------------------------------------------------------------
\* The invariant holds when the manager is created.
LEMMA InitIInv == Init => IInv
<1> SUFFICES ASSUME Init PROVE IInv
  OBVIOUS
<1>1. TypeOK
  BY DEF Init, TypeOK
<1>2. LeaderInv
  BY DEF Init, LeaderInv, Leading
<1>3. EntryInv
  BY DEF Init, EntryInv
<1>4. TimerInv
  BY DEF Init, TimerInv
<1>5. ExitInv
  BY DEF Init, ExitInv
<1>6. QED
  BY <1>1, <1>2, <1>3, <1>4, <1>5 DEF IInv

\* The invariant depends on nothing but the variables of the manager.
LEMMA StutterKeepsIInv == ASSUME IInv, UNCHANGED vars PROVE IInv'
BY DEF vars, IInv, TypeOK, LeaderInv, EntryInv, TimerInv,
       ExitInv, Leading, Launched, Tracked

\* Every step of every goroutine and of every process preserves the invariant.
LEMMA StepKeepsIInv == ASSUME IInv, [Next]_vars PROVE IInv'
<1>1. CASE UNCHANGED vars
  BY <1>1, StutterKeepsIInv
<1>2. CASE phase # "exited" /\ DaemonStep
  BY <1>2, TimerFiresKeepsIInv, AcceptRequestKeepsIInv, EnsureProxyKeepsIInv,
     LookupKeepsIInv, StopOldTimerKeepsIInv, RearmKeepsIInv, SpawnKeepsIInv,
     SpawnFailsKeepsIInv, StartupExitedKeepsIInv, StartupElapsedKeepsIInv, InsertKeepsIInv,
     FinishKeepsIInv, WatcherRunsKeepsIInv, TimerTakesEntryKeepsIInv, TimerKillsKeepsIInv,
     SignalReceivedKeepsIInv, CloseServerKeepsIInv, KillAllProcessProxiesKeepsIInv,
     MainTakesEntryKeepsIInv, MainKillsKeepsIInv, ExitKeepsIInv DEF DaemonStep, MainStep,
     CallStep, TimerStep
<1>3. CASE \E p \in Calls : ProcessExits(p)
  BY <1>3, ProcessExitsKeepsIInv
<1>4. QED
  BY <1>1, <1>2, <1>3 DEF Next

\* IInv is an invariant of the manager, for every number of calls and API servers:
\* what each critical section of proxy.Manager relies on.
THEOREM Invariance == Spec => []IInv
<1>1. QED
  BY InitIInv, StepKeepsIInv, PTL DEF Spec

\* Every variable of the manager keeps its type.
THEOREM TypeCorrect == Spec => []TypeOK
<1>1. IInv => TypeOK
  BY DEF IInv
<1>2. QED
  BY <1>1, Invariance, PTL

\* No step drops a running process: the ones that could, a watcher and a killer, have
\* seen it exit or hold it.
LEMMA StepKeepsNoOrphan == ASSUME IInv, IInv', NoOrphan, [Next]_vars PROVE NoOrphan'
<1>1. ASSUME NEW c \in Calls, TimerFires(c)
      PROVE  NoOrphan'
  BY <1>1 DEF TimerFires, NoOrphan, Running, Starting, Tracked, Doomed
<1>2. ASSUME NEW c \in Calls, AcceptRequest(c)
      PROVE  NoOrphan'
  BY <1>2 DEF AcceptRequest, NoOrphan, Running, Starting, Tracked, Doomed
<1>3. ASSUME NEW c \in Calls, NEW k \in Keys, EnsureProxy(c, k)
      PROVE  NoOrphan'
  BY <1>3 DEF EnsureProxy, IInv, TypeOK, LeaderInv, EntryInv, NoOrphan, Running, Starting,
     Tracked, Doomed
<1>4. ASSUME NEW c \in Calls, Lookup(c)
      PROVE  NoOrphan'
  BY <1>4 DEF Lookup, NoOrphan, Running, Starting, Tracked, Doomed
<1>5. ASSUME NEW c \in Calls, StopOldTimer(c)
      PROVE  NoOrphan'
  BY <1>5 DEF StopOldTimer, Stopped, NoOrphan, Running, Starting, Tracked, Doomed
<1>6. ASSUME NEW c \in Calls, Rearm(c)
      PROVE  NoOrphan'
  BY <1>6 DEF Rearm, ArmTimer, NoOrphan, Running, Starting, Tracked, Doomed
<1>7. ASSUME NEW c \in Calls, Spawn(c)
      PROVE  NoOrphan'
  BY <1>7 DEF Spawn, IInv, TypeOK, NoOrphan, Running, Starting, Tracked, Doomed
<1>8. ASSUME NEW c \in Calls, SpawnFails(c)
      PROVE  NoOrphan'
  BY <1>8 DEF SpawnFails, NoOrphan, Running, Starting, Tracked, Doomed
<1>9. ASSUME NEW c \in Calls, StartupExited(c)
      PROVE  NoOrphan'
  BY <1>9 DEF StartupExited, NoOrphan, Running, Starting, Tracked, Doomed
<1>10. ASSUME NEW c \in Calls, StartupElapsed(c)
      PROVE  NoOrphan'
  BY <1>10 DEF StartupElapsed, ArmTimer, NoOrphan, Running, Starting, Tracked, Doomed
<1>11. ASSUME NEW c \in Calls, Insert(c)
      PROVE  NoOrphan'
  BY <1>11 DEF Insert, IInv, TypeOK, LeaderInv, EntryInv, NoOrphan, Running, Starting,
     Tracked, Doomed
<1>12. ASSUME NEW c \in Calls, Finish(c)
      PROVE  NoOrphan'
  BY <1>12 DEF Finish, Lands, NoOrphan, Running, Starting, Tracked, Doomed
<1>13. ASSUME NEW c \in Calls, ProcessExits(c)
      PROVE  NoOrphan'
  BY <1>13 DEF ProcessExits, NoOrphan, Running, Starting, Tracked, Doomed
<1>14. ASSUME NEW c \in Calls, WatcherRuns(c)
      PROVE  NoOrphan'
  BY <1>14 DEF WatcherRuns, Stopped, IsCurrent, IInv, TypeOK, LeaderInv, EntryInv, NoOrphan,
     Running, Starting, Tracked, Doomed
<1>15. ASSUME NEW c \in Calls, TimerTakesEntry(c)
      PROVE  NoOrphan'
  BY <1>15 DEF TimerTakesEntry, TakeEntry, IInv, TypeOK, NoOrphan, Running, Starting,
     Tracked, Doomed
<1>16. ASSUME NEW c \in Calls, TimerKills(c)
      PROVE  NoOrphan'
  BY <1>16 DEF TimerKills, Terminate, Stopped, IInv, TypeOK, NoOrphan, Running, Starting,
     Tracked, Doomed
<1>17. ASSUME SignalReceived
      PROVE  NoOrphan'
  BY <1>17 DEF SignalReceived, NoOrphan, Running, Starting, Tracked, Doomed
<1>18. ASSUME CloseServer
      PROVE  NoOrphan'
  BY <1>18 DEF CloseServer, NoOrphan, Running, Starting, Tracked, Doomed
<1>19. ASSUME KillAllProcessProxies
      PROVE  NoOrphan'
  BY <1>19 DEF KillAllProcessProxies, NoOrphan, Running, Starting, Tracked, Doomed
<1>20. ASSUME NEW k \in Keys, MainTakesEntry(k)
      PROVE  NoOrphan'
  BY <1>20 DEF MainTakesEntry, TakeEntry, IInv, TypeOK, NoOrphan, Running, Starting,
     Tracked, Doomed
<1>21. ASSUME MainKills
      PROVE  NoOrphan'
  BY <1>21 DEF MainKills, Terminate, Stopped, IInv, TypeOK, NoOrphan, Running, Starting,
     Tracked, Doomed
<1>22. ASSUME Exit
      PROVE  NoOrphan'
  BY <1>22 DEF Exit, NoOrphan, Running, Starting, Tracked, Doomed
<1>23. ASSUME UNCHANGED vars
      PROVE  NoOrphan'
  BY <1>23 DEF vars, NoOrphan, Running, Starting, Tracked, Doomed
<1>24. QED
  BY <1>1, <1>2, <1>3, <1>4, <1>5, <1>6, <1>7, <1>8, <1>9, <1>10, <1>11, <1>12, <1>13,
     <1>14, <1>15, <1>16, <1>17, <1>18, <1>19, <1>20, <1>21, <1>22, <1>23
     DEF CallStep, TimerStep, MainStep, DaemonStep, Next

\* No step leaves a tunnel in the map without a timer that will end it.  The kill of
\* a victim stops the timer of the victim, which is not the timer of another entry.
LEMMA StepKeepsTunnelExpires ==
  ASSUME IInv, IInv', TTLPositive, TunnelExpires, [Next]_vars
  PROVE TunnelExpires'
<1>1. ASSUME NEW c \in Calls, TimerFires(c)
      PROVE  TunnelExpires'
  BY <1>1 DEF TimerFires, IInv, TypeOK, TimerInv, TunnelExpires, Running, Tracked
<1>2. ASSUME NEW c \in Calls, AcceptRequest(c)
      PROVE  TunnelExpires'
  BY <1>2 DEF AcceptRequest, TunnelExpires, Running, Tracked
<1>3. ASSUME NEW c \in Calls, NEW k \in Keys, EnsureProxy(c, k)
      PROVE  TunnelExpires'
  BY <1>3 DEF EnsureProxy, IInv, TypeOK, LeaderInv, EntryInv, Leading, Launched, Tracked,
     TimerInv, TunnelExpires, Running
<1>4. ASSUME NEW c \in Calls, Lookup(c)
      PROVE  TunnelExpires'
  BY <1>4 DEF Lookup, TunnelExpires, Running, Tracked
<1>5. ASSUME NEW c \in Calls, StopOldTimer(c)
      PROVE  TunnelExpires'
  BY <1>5 DEF StopOldTimer, Stopped, IInv, TypeOK, LeaderInv, EntryInv, Leading, Launched,
     Tracked, TimerInv, TunnelExpires, Running
<1>6. ASSUME NEW c \in Calls, Rearm(c)
      PROVE  TunnelExpires'
  BY <1>6 DEF Rearm, ArmTimer, IInv, TypeOK, TimerInv, TunnelExpires, Running, Tracked
<1>7. ASSUME NEW c \in Calls, Spawn(c)
      PROVE  TunnelExpires'
  BY <1>7 DEF Spawn, IInv, TypeOK, LeaderInv, EntryInv, TunnelExpires, Running, Tracked
<1>8. ASSUME NEW c \in Calls, SpawnFails(c)
      PROVE  TunnelExpires'
  BY <1>8 DEF SpawnFails, TunnelExpires, Running, Tracked
<1>9. ASSUME NEW c \in Calls, StartupExited(c)
      PROVE  TunnelExpires'
  BY <1>9 DEF StartupExited, TunnelExpires, Running, Tracked
<1>10. ASSUME NEW c \in Calls, StartupElapsed(c)
      PROVE  TunnelExpires'
  BY <1>10 DEF StartupElapsed, ArmTimer, IInv, TypeOK, TimerInv, TunnelExpires, Running, Tracked
<1>11. ASSUME NEW c \in Calls, Insert(c)
      PROVE  TunnelExpires'
  BY <1>11 DEF Insert, IInv, TypeOK, TimerInv, TunnelExpires, Running, Tracked
<1>12. ASSUME NEW c \in Calls, Finish(c)
      PROVE  TunnelExpires'
  BY <1>12 DEF Finish, Lands, TunnelExpires, Running, Tracked
<1>13. ASSUME NEW c \in Calls, ProcessExits(c)
      PROVE  TunnelExpires'
  BY <1>13 DEF ProcessExits, TunnelExpires, Running, Tracked
<1>14. ASSUME NEW c \in Calls, WatcherRuns(c)
      PROVE  TunnelExpires'
  BY <1>14 DEF WatcherRuns, Stopped, IsCurrent, IInv, TypeOK, LeaderInv, EntryInv, Leading,
     Launched, Tracked, TimerInv, TunnelExpires, Running
<1>15. ASSUME NEW c \in Calls, TimerTakesEntry(c)
      PROVE  TunnelExpires'
  BY <1>15 DEF TimerTakesEntry, TakeEntry, IInv, TypeOK, TunnelExpires, Running, Tracked
<1>16. ASSUME NEW c \in Calls, TimerKills(c)
      PROVE  TunnelExpires'
  <2> SUFFICES ASSUME NEW p \in Calls, Running(p)', Tracked(p)'
               PROVE  (\/ timerOf[p] # None /\ tstate[timerOf[p]] = "armed"
                       \/ \E t \in Calls : /\ tstate[t] = "fired" /\ victim[t] = None
                                           /\ target[t] = target[p]
                       \/ \E d \in Calls : pc[d] = "rearm" /\ held[d] = p)'
    BY DEF TunnelExpires
  <2>1. victim[c] \in Calls /\ ~Tracked(victim[c]) /\ tstate[c] = "fired"
    BY <1>16 DEF TimerKills, IInv, TypeOK, EntryInv, TimerInv
  <2>2. Running(p) /\ Tracked(p) /\ p # victim[c]
    BY <1>16, <2>1 DEF TimerKills, Terminate, TunnelExpires, Running, Tracked
  <2>3. timerOf[p] # None => timerOf[p] # timerOf[victim[c]]
    BY <2>1, <2>2 DEF IInv, TimerInv
  <2>4. \A t \in Calls : tstate[t] = "armed" /\ t # timerOf[victim[c]] => tstate'[t] = "armed"
    BY <1>16, <2>1 DEF TimerKills, Stopped, IInv, TypeOK
  <2>5. \A t \in Calls : tstate[t] = "fired" /\ t # c =>
          tstate'[t] = "fired" /\ victim'[t] = victim[t]
    BY <1>16, <2>1 DEF TimerKills, Stopped, IInv, TypeOK
  <2>6. UNCHANGED <<pc, held, target, timerOf>>
    BY <1>16 DEF TimerKills
  <2>7. CASE timerOf[p] # None /\ tstate[timerOf[p]] = "armed"
    BY <2>7, <2>3, <2>4, <2>6 DEF IInv, TypeOK
  <2>8. CASE \E t \in Calls : tstate[t] = "fired" /\ victim[t] = None /\ target[t] = target[p]
    BY <2>8, <2>1, <2>5, <2>6
  <2>9. CASE \E d \in Calls : pc[d] = "rearm" /\ held[d] = p
    BY <2>9, <2>6
  <2>10. QED
    BY <2>2, <2>7, <2>8, <2>9 DEF TunnelExpires
<1>17. ASSUME SignalReceived
      PROVE  TunnelExpires'
  BY <1>17 DEF SignalReceived, TunnelExpires, Running, Tracked
<1>18. ASSUME CloseServer
      PROVE  TunnelExpires'
  BY <1>18 DEF CloseServer, TunnelExpires, Running, Tracked
<1>19. ASSUME KillAllProcessProxies
      PROVE  TunnelExpires'
  BY <1>19 DEF KillAllProcessProxies, TunnelExpires, Running, Tracked
<1>20. ASSUME NEW k \in Keys, MainTakesEntry(k)
      PROVE  TunnelExpires'
  BY <1>20 DEF MainTakesEntry, TakeEntry, TunnelExpires, Running, Tracked
<1>21. ASSUME MainKills
      PROVE  TunnelExpires'
  BY <1>21 DEF MainKills, Terminate, Stopped, IInv, TypeOK, TimerInv, TunnelExpires,
     Running, Tracked
<1>22. ASSUME Exit
      PROVE  TunnelExpires'
  BY <1>22 DEF Exit, TunnelExpires, Running, Tracked
<1>23. ASSUME UNCHANGED vars
      PROVE  TunnelExpires'
  BY <1>23 DEF vars, TunnelExpires, Running, Tracked
<1>24. QED
  BY <1>1, <1>2, <1>3, <1>4, <1>5, <1>6, <1>7, <1>8, <1>9, <1>10, <1>11, <1>12, <1>13,
     <1>14, <1>15, <1>16, <1>17, <1>18, <1>19, <1>20, <1>21, <1>22, <1>23
     DEF CallStep, TimerStep, MainStep, DaemonStep, Next


\* A sshuttle process that runs is never out of the reach of the manager: its call is
\* waiting for its startup window, the map has it, or killProcessEntry has it.
THEOREM NoOrphanHolds == Spec => []NoOrphan
<1>1. Init => NoOrphan
  BY DEF Init, NoOrphan, Running
<1>2. QED
  BY <1>1, Invariance, StepKeepsNoOrphan, PTL DEF Spec

\* For one API server, EnsureProxy never has two processes running that nobody is
\* about to kill, for every number of calls and API servers.
THEOREM OneTunnelHolds == Spec => []OneTunnelPerTarget
<1>1. IInv /\ NoOrphan => OneTunnelPerTarget
  BY DEF IInv, TypeOK, LeaderInv, EntryInv, Leading, NoOrphan, OneTunnelPerTarget, Running,
     Starting, Tracked
<1>2. QED
  BY <1>1, Invariance, NoOrphanHolds, PTL

\* With a positive TTL every tunnel in the map ends by a timer: one is armed for it, has
\* fired, or is about to be created by the refresh in progress.
THEOREM TunnelExpiresHolds == ASSUME TTLPositive PROVE Spec => []TunnelExpires
<1>1. Init => TunnelExpires
  BY DEF Init, TunnelExpires, Running
<1>2. IInv /\ IInv' /\ TunnelExpires /\ [Next]_vars => TunnelExpires'
  BY StepKeepsTunnelExpires, TTLPositive
<1>3. QED
  BY <1>1, <1>2, Invariance, PTL DEF Spec

\* When Shutdown has drained all calls, KillAllProcessProxies leaves no process running
\* that a TTL timer has not taken already.
THEOREM DrainedExitHolds == Spec => []DrainedExitTearsDown
<1>1. IInv /\ NoOrphan => DrainedExitTearsDown
  BY DEF IInv, TypeOK, ExitInv, LeaderInv, EntryInv, NoOrphan, DrainedExitTearsDown,
     Running, Starting, Tracked, Doomed
<1>2. QED
  BY <1>1, Invariance, NoOrphanHolds, PTL

-----------------------------------------------------------------------------
(* ProcessProxy implements TunnelLifecycle. *)

\* What the refinement mapping says of a tunnel, case by case.
LEMMA StageCases ==
  ASSUME TypeOK, NEW p \in Calls
  PROVE  /\ proc[p] = "none" <=> stageBar[p] = "none"
         /\ proc[p] = "exited" <=> stageBar[p] = "gone"
         /\ stageBar[p] = "doomed" <=> proc[p] = "terminating" \/ (Running(p) /\ Doomed(p))
         /\ stageBar[p] = "starting" <=> Running(p) /\ ~Doomed(p) /\ Starting(p)
         /\ stageBar[p] = "up" <=> Running(p) /\ ~Doomed(p) /\ ~Starting(p) /\ Tracked(p)
         /\ stageBar[p] = "lost" <=> Running(p) /\ ~Doomed(p) /\ ~Starting(p) /\ ~Tracked(p)
<1>1. proc[p] \in {"none", "running", "terminating", "exited"}
  BY DEF TypeOK
<1>2. QED
  BY <1>1 DEF stageBar, StageOf, Running

\* A step that changes neither the process of a tunnel nor who holds it leaves
\* the abstract tunnel alone.
Same(p) ==
  /\ proc'[p] = proc[p]
  /\ proc[p] # "none" => target'[p] = target[p]
  /\ proc[p] = "running" => /\ Doomed(p)' <=> Doomed(p)
                            /\ Starting(p)' <=> Starting(p)
                            /\ Tracked(p)' <=> Tracked(p)

\* Such a step leaves the stage and the server of the tunnel as they are.
LEMMA SameStage ==
  ASSUME TypeOK, TypeOK', NEW p \in Calls, Same(p)
  PROVE  stageBar'[p] = stageBar[p] /\ serverBar'[p] = serverBar[p]
<1>1. serverBar'[p] = serverBar[p]
  BY DEF Same, serverBar
<1>2. proc[p] \in {"none", "running", "terminating", "exited"}
  BY DEF TypeOK
<1>3. stageBar'[p] = stageBar[p]
  BY <1>2 DEF Same, stageBar, StageOf, Running
<1>4. QED
  BY <1>1, <1>3

\* A step that leaves every tunnel as it is leaves the abstract state unchanged.
LEMMA AllSame ==
  ASSUME TypeOK, TypeOK',
         \A p \in Calls : Same(p) \/ (stageBar'[p] = stageBar[p] /\ serverBar'[p] = serverBar[p])
  PROVE  UNCHANGED <<stageBar, serverBar>>
<1>1. \A p \in Calls : stageBar'[p] = stageBar[p] /\ serverBar'[p] = serverBar[p]
  BY SameStage
<1>2. stageBar' = stageBar
  <2> DEFINE f == stageBar
  <2>1. f = [p \in Calls |-> f[p]] /\ f' = [p \in Calls |-> f'[p]]
    BY DEF stageBar
  <2>2. QED
    BY <2>1, <1>1
<1>3. serverBar' = serverBar
  <2> DEFINE f == serverBar
  <2>1. f = [p \in Calls |-> f[p]] /\ f' = [p \in Calls |-> f'[p]]
    BY DEF serverBar
  <2>2. QED
    BY <2>1, <1>1
<1>4. QED
  BY <1>2, <1>3

\* A step that leaves all tunnels but one as they are changes the abstract state there.
LEMMA OneChanges ==
  ASSUME TypeOK, TypeOK', NEW q \in Calls, \A p \in Calls \ {q} : Same(p)
  PROVE  /\ stageBar' = [stageBar EXCEPT ![q] = stageBar'[q]]
         /\ serverBar' = [serverBar EXCEPT ![q] = serverBar'[q]]
<1>1. \A p \in Calls \ {q} : stageBar'[p] = stageBar[p] /\ serverBar'[p] = serverBar[p]
  BY SameStage
<1>2. stageBar' = [stageBar EXCEPT ![q] = stageBar'[q]]
  <2> DEFINE f == stageBar
  <2>1. f = [p \in Calls |-> f[p]] /\ f' = [p \in Calls |-> f'[p]]
    BY DEF stageBar
  <2>2. QED
    BY <2>1, <1>1
<1>3. serverBar' = [serverBar EXCEPT ![q] = serverBar'[q]]
  <2> DEFINE f == serverBar
  <2>1. f = [p \in Calls |-> f[p]] /\ f' = [p \in Calls |-> f'[p]]
    BY DEF serverBar
  <2>2. QED
    BY <2>1, <1>1
<1>4. QED
  BY <1>2, <1>3

\* The steps that no abstract tunnel notices.
LEMMA SilentSteps ==
  ASSUME IInv, IInv',
         \/ SignalReceived \/ CloseServer \/ KillAllProcessProxies \/ Exit
         \/ \E c \in Calls :
              \/ TimerFires(c) \/ AcceptRequest(c) \/ \E k \in Keys : EnsureProxy(c, k)
              \/ Lookup(c) \/ StopOldTimer(c) \/ Rearm(c) \/ SpawnFails(c)
              \/ StartupExited(c) \/ StartupElapsed(c) \/ Finish(c) \/ WatcherRuns(c)
  PROVE  UNCHANGED <<stageBar, serverBar>>
<1> SUFFICES \A p \in Calls : Same(p)
  BY AllSame DEF IInv
<1>1. ASSUME NEW c \in Calls, TimerFires(c) PROVE \A p \in Calls : Same(p)
  BY <1>1 DEF TimerFires, Same, Tracked, Starting, Doomed
<1>2. ASSUME NEW c \in Calls, AcceptRequest(c) PROVE \A p \in Calls : Same(p)
  BY <1>2 DEF AcceptRequest, Same, Tracked, Starting, Doomed
<1>3. ASSUME NEW c \in Calls, NEW k \in Keys, EnsureProxy(c, k) PROVE \A p \in Calls : Same(p)
  BY <1>3 DEF EnsureProxy, IInv, TypeOK, LeaderInv, EntryInv, Same, Tracked, Starting, Doomed
<1>4. ASSUME NEW c \in Calls, Lookup(c) PROVE \A p \in Calls : Same(p)
  BY <1>4 DEF Lookup, Same, Tracked, Starting, Doomed
<1>5. ASSUME NEW c \in Calls, StopOldTimer(c) PROVE \A p \in Calls : Same(p)
  BY <1>5 DEF StopOldTimer, Same, Tracked, Starting, Doomed
<1>6. ASSUME NEW c \in Calls, Rearm(c) PROVE \A p \in Calls : Same(p)
  BY <1>6 DEF Rearm, Same, Tracked, Starting, Doomed
<1>7. ASSUME NEW c \in Calls, SpawnFails(c) PROVE \A p \in Calls : Same(p)
  BY <1>7 DEF SpawnFails, Same, Tracked, Starting, Doomed
<1>8. ASSUME NEW c \in Calls, StartupExited(c) PROVE \A p \in Calls : Same(p)
  BY <1>8 DEF StartupExited, Same, Tracked, Starting, Doomed
<1>9. ASSUME NEW c \in Calls, StartupElapsed(c) PROVE \A p \in Calls : Same(p)
  BY <1>9 DEF StartupElapsed, Same, Tracked, Starting, Doomed
<1>10. ASSUME NEW c \in Calls, Finish(c) PROVE \A p \in Calls : Same(p)
  BY <1>10 DEF Finish, Lands, Same, Tracked, Starting, Doomed
<1>11. ASSUME NEW c \in Calls, WatcherRuns(c) PROVE \A p \in Calls : Same(p)
  BY <1>11 DEF WatcherRuns, IsCurrent, IInv, TypeOK, LeaderInv, EntryInv, Same, Tracked,
     Starting, Doomed
<1>12. ASSUME SignalReceived PROVE \A p \in Calls : Same(p)
  BY <1>12 DEF SignalReceived, Same, Tracked, Starting, Doomed
<1>13. ASSUME CloseServer PROVE \A p \in Calls : Same(p)
  BY <1>13 DEF CloseServer, Same, Tracked, Starting, Doomed
<1>14. ASSUME KillAllProcessProxies PROVE \A p \in Calls : Same(p)
  BY <1>14 DEF KillAllProcessProxies, Same, Tracked, Starting, Doomed
<1>15. ASSUME Exit PROVE \A p \in Calls : Same(p)
  BY <1>15 DEF Exit, Same, Tracked, Starting, Doomed
<1>16. QED
  BY <1>1, <1>2, <1>3, <1>4, <1>5, <1>6, <1>7, <1>8, <1>9, <1>10, <1>11, <1>12, <1>13,
     <1>14, <1>15

\* Spawning a process starts a tunnel, for a server that no other tunnel serves.
LEMMA SpawnStarts ==
  ASSUME IInv, IInv', NEW c \in Calls, Spawn(c)
  PROVE  TL!Start(c, target[c])
<1>1. TypeOK /\ TypeOK' /\ target[c] \in Keys /\ entries[target[c]] = None
  BY DEF IInv, LeaderInv, Spawn
<1>2. \A p \in Calls \ {c} : Same(p)
  BY DEF Spawn, Same, IInv, TypeOK, Tracked, Starting, Doomed
<1>3. stageBar[c] = "none" /\ stageBar'[c] = "starting"
  <2>1. proc[c] = "none" /\ proc'[c] = "running" /\ pc'[c] = "startup" /\ UNCHANGED victim
    BY DEF Spawn, IInv, TypeOK, EntryInv
  <2>2. ~Doomed(c)' /\ Starting(c)' /\ Running(c)'
    BY <2>1 DEF IInv, EntryInv, Launched, Doomed, Starting, Running
  <2>3. QED
    BY <1>1, <2>1, <2>2, StageCases DEF stageBar, StageOf, Running
<1>4. serverBar'[c] = target[c]
  BY <1>1 DEF Spawn, serverBar, TypeOK
<1>5. ASSUME NEW q \in Calls, stageBar[q] \in {"starting", "up"}, serverBar[q] = target[c]
      PROVE  FALSE
  <2>1. target[q] = target[c] /\ Running(q) /\ (Starting(q) \/ Tracked(q))
    BY <1>1, <1>5, StageCases DEF serverBar, Running
  <2>2. q # c
    BY <1>1, <1>3, <1>5
  <2>3. QED
    BY <1>1, <2>1, <2>2 DEF IInv, LeaderInv, Leading, Starting, Tracked, Spawn
<1>6. ~TL!Served(target[c])
  BY <1>5 DEF TL!Served
<1>7. QED
  BY <1>1, <1>2, <1>3, <1>4, <1>6, OneChanges DEF TL!Start

\* Storing the entry establishes the tunnel, unless its process has exited already.
LEMMA InsertEstablishes ==
  ASSUME IInv, IInv', NEW c \in Calls, Insert(c)
  PROVE  TL!Establish(c) \/ UNCHANGED <<stageBar, serverBar>>
<1>1. TypeOK /\ TypeOK' /\ target[c] \in Keys /\ entries[target[c]] = None
  BY DEF IInv, LeaderInv, Insert
<1>2. \A p \in Calls \ {c} : Same(p)
  BY DEF Insert, Same, IInv, TypeOK, LeaderInv, EntryInv, Launched, Tracked, Starting, Doomed
<1>3. CASE Running(c)
  <2>1. ~Doomed(c) /\ ~Doomed(c)' /\ Starting(c) /\ ~Starting(c)' /\ Tracked(c)' /\ Running(c)'
    BY <1>1, <1>3 DEF Insert, IInv, TypeOK, EntryInv, Launched, Doomed, Starting, Running,
       Tracked
  <2>2. stageBar[c] = "starting" /\ stageBar'[c] = "up"
    BY <1>1, <1>3, <2>1, StageCases DEF stageBar, StageOf, Running
  <2>3. serverBar'[c] = serverBar[c]
    BY DEF Insert, serverBar
  <2>4. QED
    BY <1>1, <1>2, <2>2, <2>3, OneChanges DEF TL!Establish, serverBar
<1>4. CASE ~Running(c)
  <2>1. Same(c)
    BY <1>4 DEF Insert, Same, Running
  <2>2. QED
    BY <1>1, <1>2, <2>1, AllSame
<1>5. QED
  BY <1>3, <1>4

\* The exit of a process is the end of its tunnel, whatever its stage.
LEMMA ExitDies ==
  ASSUME IInv, IInv', NoOrphan, NEW p \in Calls, ProcessExits(p)
  PROVE  TL!Die(p)
<1>1. TypeOK /\ TypeOK'
  BY DEF IInv
<1>2. \A q \in Calls \ {p} : Same(q)
  BY DEF ProcessExits, Same, IInv, TypeOK, Tracked, Starting, Doomed
<1>3. stageBar'[p] = "gone" /\ serverBar'[p] = serverBar[p]
  BY <1>1 DEF ProcessExits, stageBar, StageOf, serverBar, Running, TypeOK
<1>4. stageBar[p] \in {"starting", "up", "doomed"}
  BY <1>1, StageCases DEF ProcessExits, NoOrphan, Running
<1>5. QED
  BY <1>1, <1>2, <1>3, <1>4, OneChanges DEF TL!Die, serverBar

\* killProcessEntry takes an entry: the tunnel, if it still runs, is doomed.
LEMMA TakeDooms ==
  ASSUME IInv, IInv', NEW r \in Runners, NEW k \in Keys,
         victim[r] = None, TakeEntry(r, k), UNCHANGED <<pc, target, proc>>
  PROVE  (\E p \in Calls : TL!Doom(p)) \/ UNCHANGED <<stageBar, serverBar>>
<1>1. TypeOK /\ TypeOK'
  BY DEF IInv
<1>2. CASE entries[k] = None
  <2>1. UNCHANGED <<entries, victim>>
    BY <1>1, <1>2 DEF TakeEntry, TypeOK
  <2>2. \A p \in Calls : Same(p)
    BY <2>1 DEF Same, Doomed, Starting, Tracked
  <2>3. QED
    BY <1>1, <2>2, AllSame
<1>3. CASE entries[k] # None
  <2> DEFINE p == entries[k]
  <2>1. p \in Calls /\ Launched(p) /\ Tracked(p) /\ target[p] = k
    BY <1>1, <1>3 DEF TypeOK, IInv, EntryInv, Tracked
  <2>2. \A q \in Calls \ {p} : Same(q)
    <3> SUFFICES ASSUME NEW q \in Calls \ {p} PROVE Same(q)
      OBVIOUS
    <3>1. Doomed(q)' <=> Doomed(q)
      BY <1>1 DEF TakeEntry, Doomed, TypeOK
    <3>2. proc[q] = "running" => target[q] \in Keys
      BY DEF IInv, LeaderInv, EntryInv
    <3>3. proc[q] = "running" => (Tracked(q)' <=> Tracked(q))
      BY <1>1, <3>2 DEF TakeEntry, Tracked, TypeOK
    <3>4. QED
      BY <3>1, <3>3 DEF Same, Starting
  <2>3. CASE Running(p)
    <3>1. ~Doomed(p) /\ ~Starting(p)
      <4>1. \A s \in Runners : victim[s] # p
        BY <2>1 DEF IInv, EntryInv
      <4>2. QED
        BY <2>1, <4>1 DEF Doomed, Starting, Launched
    <3>2. victim'[r] = p /\ proc'[p] = "running"
      BY <1>1, <2>3 DEF TakeEntry, Running, TypeOK
    <3>3. stageBar[p] = "up" /\ stageBar'[p] = "doomed"
      <4>1. stageBar[p] = "up"
        BY <1>1, <2>1, <2>3, <3>1, StageCases
      <4>2. stageBar'[p] = "doomed"
        BY <2>1, <3>2 DEF stageBar, StageOf, Running, Doomed
      <4>3. QED
        BY <4>1, <4>2
    <3>4. serverBar' = serverBar
      BY DEF serverBar
    <3>5. TL!Doom(p)
      BY <1>1, <2>1, <2>2, <3>3, <3>4, OneChanges DEF TL!Doom
    <3>6. QED
      BY <2>1, <3>5
  <2>4. CASE ~Running(p)
    <3>1. Same(p)
      BY <2>4 DEF Same, Running
    <3>2. QED
      BY <1>1, <2>1, <2>2, <3>1, AllSame
  <2>5. QED
    BY <2>3, <2>4
<1>4. QED
  BY <1>2, <1>3

\* killProcessEntry signals the tunnel it has taken: it was doomed and stays so.
LEMMA KillIsSilent ==
  ASSUME IInv, IInv', NEW r \in Runners, victim[r] # None, Terminate(victim[r]),
         victim' = [victim EXCEPT ![r] = None], UNCHANGED <<pc, target, entries>>
  PROVE  UNCHANGED <<stageBar, serverBar>>
<1> DEFINE v == victim[r]
<1>1. TypeOK /\ TypeOK' /\ v \in Calls /\ proc[v] # "none"
  BY DEF IInv, TypeOK, EntryInv, Launched
<1>2. \A p \in Calls \ {v} : Same(p)
  BY <1>1 DEF Same, Terminate, Doomed, Starting, Tracked, TypeOK
<1>3. stageBar'[v] = stageBar[v] /\ serverBar'[v] = serverBar[v]
  <2>1. serverBar'[v] = serverBar[v]
    BY <1>1 DEF serverBar, Terminate, TypeOK
  <2>2. CASE Running(v)
    <3>1. proc'[v] = "terminating" /\ Doomed(v)
      BY <1>1, <2>2 DEF Terminate, Running, TypeOK, Doomed
    <3>2. QED
      BY <1>1, <2>1, <2>2, <3>1 DEF stageBar, StageOf, Running
  <2>3. CASE ~Running(v)
    <3>1. proc'[v] = proc[v]
      BY <1>1, <2>3 DEF Terminate, Running, TypeOK
    <3>2. QED
      BY <1>1, <2>1, <2>3, <3>1, SameStage DEF Same, Running
  <2>4. QED
    BY <2>2, <2>3
<1>4. QED
  BY <1>1, <1>2, <1>3, AllSame

\* Every step of the manager is a step of TunnelLifecycle or leaves it unchanged.
LEMMA StepRefines ==
  ASSUME IInv, IInv', NoOrphan, [Next]_vars
  PROVE  [TL!Next]_TL!vars
<1> SUFFICES TL!Next \/ UNCHANGED <<stageBar, serverBar>>
  BY DEF TL!vars
<1>1. CASE \/ SignalReceived \/ CloseServer \/ KillAllProcessProxies \/ Exit
           \/ \E c \in Calls :
                \/ TimerFires(c) \/ AcceptRequest(c) \/ \E k \in Keys : EnsureProxy(c, k)
                \/ Lookup(c) \/ StopOldTimer(c) \/ Rearm(c) \/ SpawnFails(c)
                \/ StartupExited(c) \/ StartupElapsed(c) \/ Finish(c) \/ WatcherRuns(c)
  BY <1>1, SilentSteps
<1>2. ASSUME NEW c \in Calls, Spawn(c)
      PROVE  TL!Next
  <2>1. target[c] \in Keys
    BY <1>2 DEF Spawn, IInv, LeaderInv
  <2>2. QED
    BY <1>2, <2>1, SpawnStarts DEF TL!Next
<1>3. ASSUME NEW c \in Calls, Insert(c)
      PROVE  TL!Next \/ UNCHANGED <<stageBar, serverBar>>
  BY <1>3, InsertEstablishes DEF TL!Next
<1>4. ASSUME NEW p \in Calls, ProcessExits(p)
      PROVE  TL!Next
  BY <1>4, ExitDies DEF TL!Next
<1>5. ASSUME NEW t \in Calls, TimerTakesEntry(t)
      PROVE  TL!Next \/ UNCHANGED <<stageBar, serverBar>>
  <2>1. target[t] \in Keys
    BY <1>5 DEF TimerTakesEntry, IInv, LeaderInv, TimerInv
  <2>2. QED
    BY <1>5, <2>1, TakeDooms DEF TimerTakesEntry, TL!Next
<1>6. ASSUME NEW k \in Keys, MainTakesEntry(k)
      PROVE  TL!Next \/ UNCHANGED <<stageBar, serverBar>>
  BY <1>6, TakeDooms DEF MainTakesEntry, TL!Next
<1>7. ASSUME NEW t \in Calls, TimerKills(t)
      PROVE  UNCHANGED <<stageBar, serverBar>>
  BY <1>7, KillIsSilent DEF TimerKills
<1>8. ASSUME MainKills
      PROVE  UNCHANGED <<stageBar, serverBar>>
  BY <1>8, KillIsSilent DEF MainKills
<1>9. ASSUME UNCHANGED vars
      PROVE  UNCHANGED <<stageBar, serverBar>>
  BY <1>9 DEF vars, stageBar, serverBar, StageOf, Running, Starting, Tracked, Doomed
<1>10. QED
  BY <1>1, <1>2, <1>3, <1>4, <1>5, <1>6, <1>7, <1>8, <1>9
     DEF Next, DaemonStep, MainStep, CallStep, TimerStep

\* proxy.Manager implements TunnelLifecycle, for every number of calls and
\* targets: a tunnel is started only for a server that has none, leaves the map
\* only to be terminated, and is never lost.
THEOREM Refinement == Spec => Implements
<1>1. Init => TL!Init
  BY DEF Init, TL!Init, stageBar, serverBar, StageOf, Running
<1>2. QED
  BY <1>1, StepRefines, Invariance, NoOrphanHolds, PTL DEF Spec, Implements, TL!Spec
=============================================================================
