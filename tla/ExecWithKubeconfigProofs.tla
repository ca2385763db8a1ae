---------------------- MODULE ExecWithKubeconfigProofs ----------------------
(***************************************************************************)
(* Proofs about ExecWithKubeconfig, for every amount of output and every   *)
(* cap, with the race of the two copying goroutines on the one counter.    *)
(***************************************************************************)
EXTENDS ExecWithKubeconfig, TLAPS

\* Where the command, the file and the answer are at each stage of the call, and
\* that nothing holds a stream open before the command has ended.
StageInv ==
  /\ stage \in {"write", "start"} => child = "none" /\ feeder = "none"
  /\ stage \in {"write", "start", "run"} => result = "none"
  /\ stage = "write" => file = "absent"
  /\ stage \in {"start", "run", "remove"} => file = "present"
  /\ stage = "run" => child # "none"
  /\ stage = "remove" => result \in {"ok", "exit"}
  /\ stage \in {"remove", "done"} =>
       child # "running" /\ \A s \in held : ~Awaited(s)
  /\ child \in {"none", "running"} => held = {}
  /\ child = "running" \/ (\E s \in held : Awaited(s)) => file = "present"
  /\ stage = "done" /\ result # "err" => file = "absent"

\* What a goroutine has captured and what it has not read yet is all there is,
\* unless it failed; and a stream that was read to its end has no writer left.
OutputInv ==
  /\ \A s \in Streams :
       /\ copier[s] # "failed" => captured[s] + pipe[s] = emitted[s]
       /\ copier[s] \in {"store", "check"} => pipe[s] > 0
       /\ copier[s] = "closed" => pipe[s] = 0 /\ child \in {"zero", "nonzero"} /\ s \notin held
       /\ copier[s] = "failed" => captured[s] < emitted[s] /\ pipe[s] = 0
  /\ result = "ok" => \A s \in Streams : copier[s] = "closed"

\* The chunks that a goroutine has ever added to the counter.
Added(s) == captured[s] + (IF copier[s] \in {"store", "check", "failed"} THEN 1 ELSE 0)

\* Updates of the counter get lost, but none is made up: neither the counter nor a
\* sum on its way to it exceeds what both goroutines have added.
CounterInv ==
  /\ written <= Added("stdout") + Added("stderr")
  /\ \A s \in Streams : sum[s] <= Added("stdout") + Added("stderr")

\* With nothing on the other stream t, the goroutine of s has the counter to itself.
OneStreamInv ==
  \A s, t \in Streams : s # t /\ emitted[t] = 0 =>
    /\ captured[s] <= MaxOutput
    /\ copier[s] \in {"idle", "closed", "store"} => written = captured[s]
    /\ copier[s] = "store" => sum[s] = captured[s] + 1
    /\ copier[s] = "check" => written = captured[s] + 1 /\ sum[s] = captured[s] + 1

\* The cap holds for a command that writes to one stream only: CapHolds fails by
\* the race alone.
SingleStreamCapHolds ==
  \A t \in Streams : emitted[t] = 0 => Total(captured) <= MaxOutput

ExecInv ==
  TypeOK /\ StageInv /\ OutputInv /\ CounterInv /\ OneStreamInv /\ CutOnlyAboveCap

-----------------------------------------------------------------------------
(* Every action preserves the invariant.                                   *)

\* Nothing has been written and nothing has run.
LEMMA InitInv == Init => ExecInv
  BY ConstantsAssumption DEF Init, ExecInv, TypeOK, StageInv, OutputInv, CounterInv, Added,
     OneStreamInv, CutOnlyAboveCap, Streams

\* The file is written.
LEMMA WriteTempKubeconfigInv ==
  ASSUME ExecInv, WriteTempKubeconfig
  PROVE  ExecInv'
<1>1. TypeOK'
  BY ConstantsAssumption DEF ExecInv, TypeOK, OutputInv, WriteTempKubeconfig, copyVars, Inherited
<1>2. StageInv'
  BY ConstantsAssumption DEF ExecInv, TypeOK, StageInv, OutputInv, WriteTempKubeconfig,
                             copyVars, Awaited,
                             Inherited, Streams
<1>3. OutputInv'
  BY ConstantsAssumption DEF ExecInv, TypeOK, OutputInv, StageInv, WriteTempKubeconfig,
                             copyVars, Streams
<1>4. CounterInv'
  BY ConstantsAssumption DEF ExecInv, TypeOK, CounterInv, OutputInv,
                             WriteTempKubeconfig, copyVars, Added, Streams
<1>5. OneStreamInv'
  BY ConstantsAssumption DEF ExecInv, TypeOK, OneStreamInv, OutputInv,
                             WriteTempKubeconfig, copyVars, Streams
<1>6. CutOnlyAboveCap'
  BY ConstantsAssumption DEF ExecInv, TypeOK, CutOnlyAboveCap, WriteTempKubeconfig,
                             copyVars, Total, Streams
<1> QED
  BY <1>1, <1>2, <1>3, <1>4, <1>5, <1>6 DEF ExecInv

\* The call ends before there is a command.
LEMMA WriteFailsInv ==
  ASSUME ExecInv, WriteFails
  PROVE  ExecInv'
<1>1. TypeOK'
  BY ConstantsAssumption DEF ExecInv, TypeOK, OutputInv, WriteFails, copyVars, Inherited
<1>2. StageInv'
  BY ConstantsAssumption DEF ExecInv, TypeOK, StageInv, OutputInv, WriteFails, copyVars, Awaited,
                             Inherited, Streams
<1>3. OutputInv'
  BY ConstantsAssumption DEF ExecInv, TypeOK, OutputInv, StageInv, WriteFails,
                             copyVars, Streams
<1>4. CounterInv'
  BY ConstantsAssumption DEF ExecInv, TypeOK, CounterInv, OutputInv, WriteFails,
                             copyVars, Added, Streams
<1>5. OneStreamInv'
  BY ConstantsAssumption DEF ExecInv, TypeOK, OneStreamInv, OutputInv, WriteFails,
                             copyVars, Streams
<1>6. CutOnlyAboveCap'
  BY ConstantsAssumption DEF ExecInv, TypeOK, CutOnlyAboveCap, WriteFails, copyVars,
                             Total, Streams
<1> QED
  BY <1>1, <1>2, <1>3, <1>4, <1>5, <1>6 DEF ExecInv

\* The command starts with the file in place.
LEMMA StartInv ==
  ASSUME ExecInv, Start
  PROVE  ExecInv'
<1>1. TypeOK'
  BY ConstantsAssumption DEF ExecInv, TypeOK, OutputInv, Start, copyVars, Inherited
<1>2. StageInv'
  BY ConstantsAssumption DEF ExecInv, TypeOK, StageInv, OutputInv, Start, copyVars, Awaited,
                             Inherited, Streams
<1>3. OutputInv'
  BY ConstantsAssumption DEF ExecInv, TypeOK, OutputInv, StageInv, Start, copyVars,
                             Streams
<1>4. CounterInv'
  BY ConstantsAssumption DEF ExecInv, TypeOK, CounterInv, OutputInv, Start, copyVars,
                             Added, Streams
<1>5. OneStreamInv'
  BY ConstantsAssumption DEF ExecInv, TypeOK, OneStreamInv, OutputInv, Start, copyVars,
                             Streams
<1>6. CutOnlyAboveCap'
  BY ConstantsAssumption DEF ExecInv, TypeOK, CutOnlyAboveCap, Start, copyVars, Total,
                             Streams
<1> QED
  BY <1>1, <1>2, <1>3, <1>4, <1>5, <1>6 DEF ExecInv

\* The command does not start.
LEMMA StartFailsInv ==
  ASSUME ExecInv, StartFails
  PROVE  ExecInv'
<1>1. TypeOK'
  BY ConstantsAssumption DEF ExecInv, TypeOK, OutputInv, StartFails, copyVars, Inherited
<1>2. StageInv'
  BY ConstantsAssumption DEF ExecInv, TypeOK, StageInv, OutputInv, StartFails, copyVars, Awaited,
                             Inherited, Streams
<1>3. OutputInv'
  BY ConstantsAssumption DEF ExecInv, TypeOK, OutputInv, StageInv, StartFails,
                             copyVars, Streams
<1>4. CounterInv'
  BY ConstantsAssumption DEF ExecInv, TypeOK, CounterInv, OutputInv, StartFails,
                             copyVars, Added, Streams
<1>5. OneStreamInv'
  BY ConstantsAssumption DEF ExecInv, TypeOK, OneStreamInv, OutputInv, StartFails,
                             copyVars, Streams
<1>6. CutOnlyAboveCap'
  BY ConstantsAssumption DEF ExecInv, TypeOK, CutOnlyAboveCap, StartFails, copyVars,
                             Total, Streams
<1> QED
  BY <1>1, <1>2, <1>3, <1>4, <1>5, <1>6 DEF ExecInv

\* cmd.Run returns.
LEMMA WaitInv ==
  ASSUME ExecInv, Wait
  PROVE  ExecInv'
<1>1. TypeOK'
  BY ConstantsAssumption DEF ExecInv, TypeOK, OutputInv, Wait, copyVars, Inherited
<1>2. StageInv'
  BY ConstantsAssumption DEF ExecInv, TypeOK, StageInv, OutputInv, Wait, copyVars, Awaited,
                             Inherited, Streams
<1>3. OutputInv'
  BY ConstantsAssumption DEF ExecInv, TypeOK, OutputInv, StageInv, Wait, copyVars,
                             Streams
<1>4. CounterInv'
  BY ConstantsAssumption DEF ExecInv, TypeOK, CounterInv, OutputInv, Wait, copyVars,
                             Added, Streams
<1>5. OneStreamInv'
  BY ConstantsAssumption DEF ExecInv, TypeOK, OneStreamInv, OutputInv, Wait, copyVars,
                             Streams
<1>6. CutOnlyAboveCap'
  BY ConstantsAssumption DEF ExecInv, TypeOK, CutOnlyAboveCap, Wait, copyVars, Total,
                             Streams
<1> QED
  BY <1>1, <1>2, <1>3, <1>4, <1>5, <1>6 DEF ExecInv

\* The deferred os.Remove.
LEMMA RemoveInv ==
  ASSUME ExecInv, Remove
  PROVE  ExecInv'
<1>1. TypeOK'
  BY ConstantsAssumption DEF ExecInv, TypeOK, OutputInv, Remove, copyVars, Inherited
<1>2. StageInv'
  BY ConstantsAssumption DEF ExecInv, TypeOK, StageInv, OutputInv, Remove, copyVars, Awaited,
                             Inherited, Streams
<1>3. OutputInv'
  BY ConstantsAssumption DEF ExecInv, TypeOK, OutputInv, StageInv, Remove, copyVars,
                             Streams
<1>4. CounterInv'
  BY ConstantsAssumption DEF ExecInv, TypeOK, CounterInv, OutputInv, Remove, copyVars,
                             Added, Streams
<1>5. OneStreamInv'
  BY ConstantsAssumption DEF ExecInv, TypeOK, OneStreamInv, OutputInv, Remove,
                             copyVars, Streams
<1>6. CutOnlyAboveCap'
  BY ConstantsAssumption DEF ExecInv, TypeOK, CutOnlyAboveCap, Remove, copyVars, Total,
                             Streams
<1> QED
  BY <1>1, <1>2, <1>3, <1>4, <1>5, <1>6 DEF ExecInv

\* The daemon ends and its goroutines with it.
LEMMA DaemonExitsInv ==
  ASSUME ExecInv, DaemonExits
  PROVE  ExecInv'
<1>1. TypeOK'
  BY ConstantsAssumption DEF ExecInv, TypeOK, OutputInv, DaemonExits, copyVars, Inherited
<1>2. StageInv'
  BY ConstantsAssumption DEF ExecInv, TypeOK, StageInv, OutputInv, DaemonExits,
                             copyVars, Awaited,
                             Inherited, Streams
<1>3. OutputInv'
  BY ConstantsAssumption DEF ExecInv, TypeOK, OutputInv, StageInv, DaemonExits,
                             copyVars, Streams
<1>4. CounterInv'
  BY ConstantsAssumption DEF ExecInv, TypeOK, CounterInv, OutputInv, DaemonExits,
                             copyVars, Added, Streams
<1>5. OneStreamInv'
  BY ConstantsAssumption DEF ExecInv, TypeOK, OneStreamInv, OutputInv, DaemonExits,
                             copyVars, Streams
<1>6. CutOnlyAboveCap'
  BY ConstantsAssumption DEF ExecInv, TypeOK, CutOnlyAboveCap, DaemonExits, copyVars,
                             Total, Streams
<1> QED
  BY <1>1, <1>2, <1>3, <1>4, <1>5, <1>6 DEF ExecInv

\* The command ends; its descendants keep some streams.
LEMMA ChildExitsInv ==
  ASSUME ExecInv, ChildExits
  PROVE  ExecInv'
<1>1. TypeOK'
  BY ConstantsAssumption DEF ExecInv, TypeOK, OutputInv, ChildExits, copyVars, Inherited
<1>2. StageInv'
  BY ConstantsAssumption DEF ExecInv, TypeOK, StageInv, OutputInv, ChildExits, copyVars, Awaited,
                             Inherited, Streams
<1>3. OutputInv'
  BY ConstantsAssumption DEF ExecInv, TypeOK, OutputInv, StageInv, ChildExits,
                             copyVars, Streams
<1>4. CounterInv'
  BY ConstantsAssumption DEF ExecInv, TypeOK, CounterInv, OutputInv, ChildExits,
                             copyVars, Added, Streams
<1>5. OneStreamInv'
  BY ConstantsAssumption DEF ExecInv, TypeOK, OneStreamInv, OutputInv, ChildExits,
                             copyVars, Streams
<1>6. CutOnlyAboveCap'
  BY ConstantsAssumption DEF ExecInv, TypeOK, CutOnlyAboveCap, ChildExits, copyVars,
                             Total, Streams
<1> QED
  BY <1>1, <1>2, <1>3, <1>4, <1>5, <1>6 DEF ExecInv

\* A chunk enters the pipe.
LEMMA EmitInv ==
  ASSUME ExecInv, NEW s \in Streams, Emit(s)
  PROVE  ExecInv'
<1>1. TypeOK'
  BY ConstantsAssumption DEF ExecInv, TypeOK, OutputInv, Emit, copyVars, Inherited
<1>2. StageInv'
  BY ConstantsAssumption DEF ExecInv, TypeOK, StageInv, OutputInv, Emit, copyVars, Awaited,
                             Inherited, Streams
<1>3. OutputInv'
  BY ConstantsAssumption DEF ExecInv, TypeOK, OutputInv, StageInv, Emit, copyVars,
                             Streams
<1>4. CounterInv'
  BY ConstantsAssumption DEF ExecInv, TypeOK, CounterInv, OutputInv, Emit, copyVars,
                             Added, Streams
<1>5. OneStreamInv'
  BY ConstantsAssumption DEF ExecInv, TypeOK, OneStreamInv, OutputInv, Emit, copyVars,
                             Streams
<1>6. CutOnlyAboveCap'
  BY ConstantsAssumption DEF ExecInv, TypeOK, CutOnlyAboveCap, Emit, copyVars, Total,
                             Streams
<1> QED
  BY <1>1, <1>2, <1>3, <1>4, <1>5, <1>6 DEF ExecInv

\* A descendant closes a stream.
LEMMA DescendantClosesInv ==
  ASSUME ExecInv, NEW s \in Inherited, DescendantCloses(s)
  PROVE  ExecInv'
<1>1. TypeOK'
  BY ConstantsAssumption DEF ExecInv, TypeOK, OutputInv, DescendantCloses, copyVars, Inherited
<1>2. StageInv'
  BY ConstantsAssumption DEF ExecInv, TypeOK, StageInv, OutputInv, DescendantCloses,
                             copyVars, Awaited,
                             Inherited, Streams
<1>3. OutputInv'
  BY ConstantsAssumption DEF ExecInv, TypeOK, OutputInv, StageInv, DescendantCloses,
                             copyVars, Streams
<1>4. CounterInv'
  BY ConstantsAssumption DEF ExecInv, TypeOK, CounterInv, OutputInv, DescendantCloses,
                             copyVars, Added, Streams
<1>5. OneStreamInv'
  BY ConstantsAssumption DEF ExecInv, TypeOK, OneStreamInv, OutputInv,
                             DescendantCloses, copyVars, Streams
<1>6. CutOnlyAboveCap'
  BY ConstantsAssumption DEF ExecInv, TypeOK, CutOnlyAboveCap, DescendantCloses,
                             copyVars, Total, Streams
<1> QED
  BY <1>1, <1>2, <1>3, <1>4, <1>5, <1>6 DEF ExecInv

\* The Input is read.
LEMMA InputTakenInv ==
  ASSUME ExecInv, InputTaken
  PROVE  ExecInv'
<1>1. TypeOK'
  BY ConstantsAssumption DEF ExecInv, TypeOK, OutputInv, InputTaken, copyVars, Inherited
<1>2. StageInv'
  BY ConstantsAssumption DEF ExecInv, TypeOK, StageInv, OutputInv, InputTaken,
                             copyVars, Awaited,
                             Inherited, Streams
<1>3. OutputInv'
  BY ConstantsAssumption DEF ExecInv, TypeOK, OutputInv, StageInv, InputTaken,
                             copyVars, Streams
<1>4. CounterInv'
  BY ConstantsAssumption DEF ExecInv, TypeOK, CounterInv, OutputInv, InputTaken,
                             copyVars, Added, Streams
<1>5. OneStreamInv'
  BY ConstantsAssumption DEF ExecInv, TypeOK, OneStreamInv, OutputInv,
                             InputTaken, copyVars, Streams
<1>6. CutOnlyAboveCap'
  BY ConstantsAssumption DEF ExecInv, TypeOK, CutOnlyAboveCap, InputTaken,
                             copyVars, Total, Streams
<1> QED
  BY <1>1, <1>2, <1>3, <1>4, <1>5, <1>6 DEF ExecInv

\* The Input has no reader.
LEMMA BrokenPipeInv ==
  ASSUME ExecInv, BrokenPipe
  PROVE  ExecInv'
<1>1. TypeOK'
  BY ConstantsAssumption DEF ExecInv, TypeOK, OutputInv, BrokenPipe, copyVars, Inherited
<1>2. StageInv'
  BY ConstantsAssumption DEF ExecInv, TypeOK, StageInv, OutputInv, BrokenPipe,
                             copyVars, Awaited,
                             Inherited, Streams
<1>3. OutputInv'
  BY ConstantsAssumption DEF ExecInv, TypeOK, OutputInv, StageInv, BrokenPipe,
                             copyVars, Streams
<1>4. CounterInv'
  BY ConstantsAssumption DEF ExecInv, TypeOK, CounterInv, OutputInv, BrokenPipe,
                             copyVars, Added, Streams
<1>5. OneStreamInv'
  BY ConstantsAssumption DEF ExecInv, TypeOK, OneStreamInv, OutputInv,
                             BrokenPipe, copyVars, Streams
<1>6. CutOnlyAboveCap'
  BY ConstantsAssumption DEF ExecInv, TypeOK, CutOnlyAboveCap, BrokenPipe,
                             copyVars, Total, Streams
<1> QED
  BY <1>1, <1>2, <1>3, <1>4, <1>5, <1>6 DEF ExecInv

\* The load: the new sum is at most one above the counter.
LEMMA LoadWrittenInv ==
  ASSUME ExecInv, NEW s \in Streams, LoadWritten(s)
  PROVE  ExecInv'
<1>1. TypeOK'
  BY ConstantsAssumption DEF ExecInv, TypeOK, OutputInv, LoadWritten, copyVars, Inherited
<1>2. StageInv'
  BY ConstantsAssumption DEF ExecInv, TypeOK, StageInv, OutputInv, LoadWritten,
                             copyVars, Awaited,
                             Inherited, Streams
<1>3. OutputInv'
  BY ConstantsAssumption DEF ExecInv, TypeOK, OutputInv, StageInv, LoadWritten,
                             copyVars, Streams
<1>4. CounterInv'
  BY ConstantsAssumption DEF ExecInv, TypeOK, CounterInv, OutputInv, LoadWritten,
                             copyVars, Added, Streams
<1>5. OneStreamInv'
  BY ConstantsAssumption DEF ExecInv, TypeOK, OneStreamInv, OutputInv, LoadWritten,
                             copyVars, Streams
<1>6. CutOnlyAboveCap'
  BY ConstantsAssumption DEF ExecInv, TypeOK, CutOnlyAboveCap, LoadWritten, copyVars,
                             Total, Streams
<1> QED
  BY <1>1, <1>2, <1>3, <1>4, <1>5, <1>6 DEF ExecInv

\* The store, which may lose the other goroutine's update.
LEMMA StoreWrittenInv ==
  ASSUME ExecInv, NEW s \in Streams, StoreWritten(s)
  PROVE  ExecInv'
<1>1. TypeOK'
  BY ConstantsAssumption DEF ExecInv, TypeOK, OutputInv, StoreWritten, copyVars, Inherited
<1>2. StageInv'
  BY ConstantsAssumption DEF ExecInv, TypeOK, StageInv, OutputInv, StoreWritten,
                             copyVars, Awaited,
                             Inherited, Streams
<1>3. OutputInv'
  BY ConstantsAssumption DEF ExecInv, TypeOK, OutputInv, StageInv, StoreWritten,
                             copyVars, Streams
<1>4. CounterInv'
  BY ConstantsAssumption DEF ExecInv, TypeOK, CounterInv, OutputInv, StoreWritten,
                             copyVars, Added, Streams
<1>5. OneStreamInv'
  BY ConstantsAssumption DEF ExecInv, TypeOK, OneStreamInv, OutputInv, StoreWritten,
                             copyVars, Streams
<1>6. CutOnlyAboveCap'
  BY ConstantsAssumption DEF ExecInv, TypeOK, CutOnlyAboveCap, StoreWritten, copyVars,
                             Total, Streams
<1> QED
  BY <1>1, <1>2, <1>3, <1>4, <1>5, <1>6 DEF ExecInv

\* The test against the cap.
LEMMA CheckLimitInv ==
  ASSUME ExecInv, NEW s \in Streams, CheckLimit(s)
  PROVE  ExecInv'
<1>1. TypeOK'
  BY ConstantsAssumption DEF ExecInv, TypeOK, OutputInv, CheckLimit, Exceeds,
                             copyVars, Inherited
<1>2. StageInv'
  BY ConstantsAssumption DEF ExecInv, TypeOK, StageInv, OutputInv, CheckLimit, Exceeds,
                             copyVars, Awaited,
                             Inherited, Streams
<1>3. OutputInv'
  BY ConstantsAssumption DEF ExecInv, TypeOK, OutputInv, StageInv, CheckLimit, Exceeds,
                             copyVars, Streams
<1>4. CounterInv'
  BY ConstantsAssumption DEF ExecInv, TypeOK, CounterInv, OutputInv, CheckLimit,
                             Exceeds, copyVars, Added, Streams
<1>5. OneStreamInv'
  BY ConstantsAssumption DEF ExecInv, TypeOK, OneStreamInv, OutputInv, CheckLimit,
                             Exceeds, copyVars, Streams
<1>6. CutOnlyAboveCap'
  BY ConstantsAssumption DEF ExecInv, TypeOK, CutOnlyAboveCap, OutputInv, CounterInv,
                             Added, CheckLimit, Exceeds, copyVars, Total, Streams
<1> QED
  BY <1>1, <1>2, <1>3, <1>4, <1>5, <1>6 DEF ExecInv

\* Nobody writes to the stream any more.
LEMMA EndOfStreamInv ==
  ASSUME ExecInv, NEW s \in Streams, EndOfStream(s)
  PROVE  ExecInv'
<1>1. TypeOK'
  BY ConstantsAssumption DEF ExecInv, TypeOK, OutputInv, EndOfStream, copyVars, Inherited
<1>2. StageInv'
  BY ConstantsAssumption DEF ExecInv, TypeOK, StageInv, OutputInv, EndOfStream,
                             copyVars, Awaited,
                             Inherited, Streams
<1>3. OutputInv'
  BY ConstantsAssumption DEF ExecInv, TypeOK, OutputInv, StageInv, EndOfStream,
                             copyVars, Streams
<1>4. CounterInv'
  BY ConstantsAssumption DEF ExecInv, TypeOK, CounterInv, OutputInv, EndOfStream,
                             copyVars, Added, Streams
<1>5. OneStreamInv'
  BY ConstantsAssumption DEF ExecInv, TypeOK, OneStreamInv, OutputInv, EndOfStream,
                             copyVars, Streams
<1>6. CutOnlyAboveCap'
  BY ConstantsAssumption DEF ExecInv, TypeOK, CutOnlyAboveCap, EndOfStream, copyVars,
                             Total, Streams
<1> QED
  BY <1>1, <1>2, <1>3, <1>4, <1>5, <1>6 DEF ExecInv

\* Every step of the specification preserves the invariant.
LEMMA NextInv == ExecInv /\ [Next]_vars => ExecInv'
<1> SUFFICES ASSUME ExecInv, [Next]_vars PROVE ExecInv'
  OBVIOUS
<1>1. CASE CallStep
  BY <1>1, WriteTempKubeconfigInv, WriteFailsInv, StartInv, StartFailsInv, WaitInv, RemoveInv
  DEF CallStep
<1>2. CASE DaemonExits \/ ChildExits
  BY <1>2, DaemonExitsInv, ChildExitsInv
<1>3. CASE \E s \in Streams : Emit(s) \/ CopyStep(s)
  BY <1>3, EmitInv, LoadWrittenInv, StoreWrittenInv, CheckLimitInv, EndOfStreamInv DEF CopyStep
<1>4. CASE (\E s \in Inherited : DescendantCloses(s)) \/ InputTaken \/ BrokenPipe
  BY <1>4, DescendantClosesInv, InputTakenInv, BrokenPipeInv
<1>5. CASE UNCHANGED vars
  BY <1>5 DEF Awaited, vars, copyVars, ExecInv, TypeOK, StageInv, OutputInv, CounterInv, Added,
              OneStreamInv, CutOnlyAboveCap, Total
<1> QED
  BY <1>1, <1>2, <1>3, <1>4, <1>5 DEF Next

-----------------------------------------------------------------------------
(* Theorems.                                                               *)

\* The invariant holds of every behaviour: the two goroutines, the command, its
\* descendants and the daemon's end in any order.
THEOREM Invariance == Spec => []ExecInv
  BY InitInv, NextInv, PTL DEF Spec

\* The state of the command, of its file and of the two writers has its type; in
\* particular no goroutine captures more chunks than the command may write.
THEOREM TypeCorrect == Spec => []TypeOK
<1>1. ExecInv => TypeOK
  BY DEF ExecInv
<1> QED
  BY <1>1, Invariance, PTL

\* Exit code 0 is reported only with all of the output, whatever updates of
\* sharedLimit.written the race loses.
THEOREM NoSilentTruncationTheorem == Spec => []NoSilentTruncation
<1>1. ExecInv => NoSilentTruncation
  <2> SUFFICES ASSUME ExecInv, result = "ok" PROVE captured = emitted
    BY DEF NoSilentTruncation
  <2>1. \A s \in Streams : captured[s] = emitted[s]
    BY DEF ExecInv, TypeOK, OutputInv
  <2> QED
    BY <2>1 DEF ExecInv, TypeOK
<1> QED
  BY <1>1, Invariance, PTL

\* Output within the cap is never cut off: the counter may be too low, never too
\* high.
THEOREM CutOnlyAboveCapTheorem == Spec => []CutOnlyAboveCap
<1>1. ExecInv => CutOnlyAboveCap
  BY DEF ExecInv
<1> QED
  BY <1>1, Invariance, PTL

\* The kubeconfig file is there for the command and for every descendant that the
\* call waits for, and a call that ran its command leaves none behind.
THEOREM FileLivesWithCommandTheorem == Spec => []FileLivesWithCommand
<1>1. ExecInv => FileLivesWithCommand
  BY DEF ExecInv, StageInv, FileLivesWithCommand
<1> QED
  BY <1>1, Invariance, PTL

\* A command that writes to one stream only never gets more than MaxOutputBytes
\* into its buffer: what breaks CapHolds is the race and nothing else.
THEOREM SingleStreamCapHoldsTheorem == Spec => []SingleStreamCapHolds
<1>1. ExecInv => SingleStreamCapHolds
  BY DEF ExecInv, TypeOK, OutputInv, OneStreamInv, SingleStreamCapHolds, Total, Streams
<1> QED
  BY <1>1, Invariance, PTL
=============================================================================
