------------------------- MODULE ExecWithKubeconfig -------------------------
(***************************************************************************)
(* exec.WithKubeconfig and shell.OSExecer.ExecFile: one command run with a *)
(* private kubeconfig file and with a cap on its output.                   *)
(*                                                                         *)
(* os/exec copies each output stream of the child in a goroutine of its    *)
(* own, and both goroutines add to the one counter of sharedLimit without  *)
(* a lock: an addition is a load and a store, and the test that follows    *)
(* may see the sum just stored or what the other goroutine made of it.  A  *)
(* third goroutine writes the Input, if there is one, to the child's       *)
(* stdin.                                                                  *)
(***************************************************************************)
EXTENDS Naturals

CONSTANTS Chunks,      \* how many chunks the command writes to each stream
          MaxOutput    \* MaxOutputBytes, in chunks

ASSUME ConstantsAssumption == Chunks \in Nat /\ MaxOutput \in Nat

VARIABLES
  stage,     \* WithKubeconfig: write, start, run, remove, done; dead with the daemon
  file,      \* the temporary kubeconfig: absent, partial, present
  result,    \* none, err, ok (exit code 0) or exit (any other exit code)
  child,     \* the command: none, running, zero or nonzero (its exit status)
  held,      \* streams that a process started by the command keeps open after it
  feeder,    \* the goroutine of stdin: none (no Input), copying, done
  emitted,   \* chunks the command has written to a stream
  pipe,      \* of those, the chunks nobody has read yet
  copier,    \* the goroutine of a stream: idle, store, check, closed, failed
  sum,       \* the value it is about to store, or has stored
  written,   \* sharedLimit.written
  captured   \* chunks in the buffer of a stream

copyVars == <<copier, sum, written, captured>>
vars == <<stage, file, result, child, held, feeder, emitted, pipe, copyVars>>

\* The two limitedWriters that share one sharedLimit.
Streams == {"stdout", "stderr"}

\* The pipes that a process started by the command may inherit.
Inherited == Streams \cup {"stdin"}

Init ==
  /\ stage = "write" /\ file = "absent" /\ result = "none" /\ child = "none" /\ held = {}
  /\ feeder = "none"
  /\ emitted = [s \in Streams |-> 0]
  /\ pipe = [s \in Streams |-> 0]
  /\ copier = [s \in Streams |-> "idle"]
  /\ sum = [s \in Streams |-> 0]
  /\ written = 0
  /\ captured = [s \in Streams |-> 0]

-----------------------------------------------------------------------------
(* WithKubeconfig.                                                         *)

WriteTempKubeconfig ==
  /\ stage = "write"
  /\ stage' = "start" /\ file' = "present"
  /\ UNCHANGED <<result, child, held, feeder, emitted, pipe, copyVars>>

\* An empty command is refused before there is a file; os.WriteFile may fail
\* after it has created the file.
WriteFails ==
  /\ stage = "write"
  /\ stage' = "done" /\ result' = "err"
  /\ file' \in {"absent", "partial"}
  /\ UNCHANGED <<child, held, feeder, emitted, pipe, copyVars>>

\* cmd.Stdin is set, and a goroutine started for it, only if there is Input.
Start ==
  /\ stage = "start"
  /\ stage' = "run" /\ child' = "running"
  /\ feeder' \in {"none", "copying"}
  /\ UNCHANGED <<file, result, held, emitted, pipe, copyVars>>

StartFails ==
  /\ stage = "start"
  /\ stage' = "remove" /\ result' = "exit"
  /\ UNCHANGED <<file, child, held, feeder, emitted, pipe, copyVars>>

\* Mutant: an error of a copying goroutine is dropped when the command succeeded.
WaitForChild ==
  /\ stage = "run"
  /\ child \in {"zero", "nonzero"}
  /\ \A s \in Streams : copier[s] \in {"closed", "failed"}
  /\ feeder # "copying"
  /\ stage' = "remove"
  /\ result' = IF child = "zero" THEN "ok" ELSE "exit"
  /\ UNCHANGED <<file, child, held, feeder, emitted, pipe, copyVars>>

\* Mutant: the run is over when the output is, the command is not waited for.
WaitForOutput ==
  /\ stage = "run"
  /\ \A s \in Streams : copier[s] \in {"closed", "failed"}
  /\ feeder # "copying"
  /\ stage' = "remove"
  /\ result' = IF child = "zero" /\ \A s \in Streams : copier[s] = "closed"
               THEN "ok" ELSE "exit"
  /\ UNCHANGED <<file, child, held, feeder, emitted, pipe, copyVars>>

\* Mutant: a goroutine that has failed is waited for, too.
WaitForEveryEnd ==
  /\ stage = "run"
  /\ child \in {"zero", "nonzero"}
  /\ \A s \in Streams : copier[s] = "closed"
  /\ feeder # "copying"
  /\ stage' = "remove"
  /\ result' = IF child = "zero" THEN "ok" ELSE "exit"
  /\ UNCHANGED <<file, child, held, feeder, emitted, pipe, copyVars>>

\* cmd.Run: the command has exited and all its goroutines are through; one that
\* failed makes the run fail, and so may the cancellation of a request whose
\* command ends well.  There is no WaitDelay: a stream that is kept open is waited
\* for, and Input that nobody reads, also after the command was killed.
Wait ==
  /\ stage = "run"
  /\ child \in {"zero", "nonzero"}
  /\ \A s \in Streams : copier[s] \in {"closed", "failed"}
  /\ feeder # "copying"
  /\ stage' = "remove"
  /\ \/ child = "zero" /\ (\A s \in Streams : copier[s] = "closed") /\ result' = "ok"
     \/ result' = "exit"
  /\ UNCHANGED <<file, child, held, feeder, emitted, pipe, copyVars>>

\* The deferred os.Remove.
Remove ==
  /\ stage = "remove"
  /\ stage' = "done" /\ file' = "absent"
  /\ UNCHANGED <<result, child, held, feeder, emitted, pipe, copyVars>>

\* main.run does not wait for a handler beyond the ten seconds of Shutdown.
DaemonExits ==
  /\ stage \notin {"done", "dead"}
  /\ stage' = "dead"
  /\ UNCHANGED <<file, result, child, held, feeder, emitted, pipe, copyVars>>

-----------------------------------------------------------------------------
(* The command.                                                            *)

Emit(s) ==
  /\ child = "running" \/ s \in held
  /\ emitted[s] < Chunks
  /\ copier[s] # "failed"
  /\ emitted' = [emitted EXCEPT ![s] = @ + 1]
  /\ pipe' = [pipe EXCEPT ![s] = @ + 1]
  /\ UNCHANGED <<stage, file, result, child, held, feeder, copyVars>>

\* It ends by itself, on SIGPIPE, or is killed when the request is cancelled.
\* The processes it has started stay, with the streams they inherited.
ChildExits ==
  /\ child = "running"
  /\ child' \in {"zero", "nonzero"}
  /\ held' \in SUBSET (IF feeder = "copying" THEN Inherited ELSE Streams)
  /\ UNCHANGED <<stage, file, result, feeder, emitted, pipe, copyVars>>

\* The last of them that has the stream s closes it or ends.
DescendantCloses(s) ==
  /\ s \in held
  /\ held' = held \ {s}
  /\ UNCHANGED <<stage, file, result, child, feeder, emitted, pipe, copyVars>>

\* The command, or a process it has started, has read all of the Input or does
\* not want more of it.
InputTaken ==
  /\ feeder = "copying"
  /\ child = "running" \/ "stdin" \in held
  /\ feeder' = "done"
  /\ UNCHANGED <<stage, file, result, child, held, emitted, pipe, copyVars>>

-----------------------------------------------------------------------------
(* The goroutines of os/exec; limitedWriter.Write in those of the output.  *)

\* Nobody can read stdin any more; os/exec ignores the broken pipe.
BrokenPipe ==
  /\ stage = "run"
  /\ feeder = "copying"
  /\ child # "running" /\ "stdin" \notin held
  /\ feeder' = "done"
  /\ UNCHANGED <<stage, file, result, child, held, emitted, pipe, copyVars>>

\* Mutant: the counter is taken for what is left of the budget.
LoadRemaining(s) ==
  /\ stage = "run"
  /\ copier[s] = "idle" /\ pipe[s] > 0
  /\ sum' = [sum EXCEPT ![s] = written - 1]
  /\ copier' = [copier EXCEPT ![s] = "store"]
  /\ UNCHANGED <<stage, file, result, child, held, feeder, emitted, pipe, written, captured>>

LoadWritten(s) ==
  /\ stage = "run"
  /\ copier[s] = "idle" /\ pipe[s] > 0
  /\ sum' = [sum EXCEPT ![s] = written + 1]
  /\ copier' = [copier EXCEPT ![s] = "store"]
  /\ UNCHANGED <<stage, file, result, child, held, feeder, emitted, pipe, written, captured>>

StoreWritten(s) ==
  /\ stage = "run"
  /\ copier[s] = "store"
  /\ written' = sum[s]
  /\ copier' = [copier EXCEPT ![s] = "check"]
  /\ UNCHANGED <<stage, file, result, child, held, feeder, emitted, pipe, sum, captured>>

\* Mutant: output that fills the cap exactly is cut off.
ExceedsAtCap(w) == w >= MaxOutput

Exceeds(w) == w > MaxOutput

\* A write that fails ends the goroutine, which closes its end of the pipe.
CheckLimit(s) ==
  /\ stage = "run"
  /\ copier[s] = "check"
  /\ \E w \in {sum[s], written} :
       \/ /\ Exceeds(w)
          /\ copier' = [copier EXCEPT ![s] = "failed"]
          /\ pipe' = [pipe EXCEPT ![s] = 0]
          /\ UNCHANGED captured
       \/ /\ ~Exceeds(w)
          /\ copier' = [copier EXCEPT ![s] = "idle"]
          /\ pipe' = [pipe EXCEPT ![s] = @ - 1]
          /\ captured' = [captured EXCEPT ![s] = @ + 1]
  /\ UNCHANGED <<stage, file, result, child, held, feeder, emitted, sum, written>>

EndOfStream(s) ==
  /\ stage = "run"
  /\ child # "running" /\ s \notin held
  /\ copier[s] = "idle" /\ pipe[s] = 0
  /\ copier' = [copier EXCEPT ![s] = "closed"]
  /\ UNCHANGED <<stage, file, result, child, held, feeder, emitted, pipe, sum, written, captured>>

CallStep ==
  \/ WriteTempKubeconfig \/ WriteFails \/ Start \/ StartFails \/ Wait \/ Remove

CopyStep(s) == LoadWritten(s) \/ StoreWritten(s) \/ CheckLimit(s) \/ EndOfStream(s)

Next ==
  \/ CallStep \/ DaemonExits \/ ChildExits
  \/ \E s \in Streams : Emit(s) \/ CopyStep(s)
  \/ \E s \in Inherited : DescendantCloses(s)
  \/ InputTaken \/ BrokenPipe

Spec == Init /\ [][Next]_vars

\* The goroutines of the call run; the command and the processes it has started
\* may run for ever, and leave their Input unread.
FairSpec ==
  /\ Spec
  /\ WF_vars(CallStep) /\ WF_vars(BrokenPipe)
  /\ \A s \in Streams : WF_vars(CopyStep(s))

-----------------------------------------------------------------------------
(* Properties.                                                             *)

\* The state of the command, of its file and of the two writers has its type.
TypeOK ==
  /\ stage \in {"write", "start", "run", "remove", "done", "dead"}
  /\ file \in {"absent", "partial", "present"}
  /\ result \in {"none", "err", "ok", "exit"}
  /\ child \in {"none", "running", "zero", "nonzero"}
  /\ held \in SUBSET Inherited
  /\ feeder \in {"none", "copying", "done"}
  /\ emitted \in [Streams -> 0..Chunks]
  /\ pipe \in [Streams -> 0..Chunks]
  /\ copier \in [Streams -> {"idle", "store", "check", "closed", "failed"}]
  /\ sum \in [Streams -> Nat]
  /\ written \in Nat
  /\ captured \in [Streams -> 0..Chunks]

\* Output that is cut off is never presented as a success: with exit code 0 the
\* caller has every chunk the command wrote, the race on the counter
\* notwithstanding.
NoSilentTruncation == result = "ok" => captured = emitted

Total(chunks) == chunks["stdout"] + chunks["stderr"]

\* Output that fits is never cut off: whatever updates of the counter are lost,
\* a stream fails only when both together were written more than the cap.
CutOnlyAboveCap == (\E s \in Streams : copier[s] = "failed") => Total(emitted) > MaxOutput

\* Options' comment: MaxOutputBytes caps stdout and stderr combined.
CapHolds == Total(captured) <= MaxOutput

\* A goroutine of the call is at the other end of stream s.
Awaited(s) == IF s = "stdin" THEN feeder = "copying" ELSE copier[s] # "failed"

\* The kubeconfig is there for the command and for every process it has started
\* that the call still waits for, to write its output or to read its Input, and
\* no longer than the call: neither finds its KUBECONFIG gone, and a call that
\* ran its command leaves no credentials behind.
FileLivesWithCommand ==
  /\ child = "running" \/ (\E s \in held : Awaited(s)) => file = "present"
  /\ stage = "done" /\ result # "err" => file = "absent"

\* A call whose command has ended returns when no process that the command has
\* started keeps a stream open which a goroutine of the call still reads from or
\* writes to, however much output and Input there is.  Until then it waits, also
\* when its request is cancelled.
CallReturns ==
  child \in {"zero", "nonzero"} /\ (\A s \in held : ~Awaited(s))
    ~> stage \in {"done", "dead"}
=============================================================================
