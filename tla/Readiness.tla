----------------------------- MODULE Readiness -----------------------------
(***************************************************************************)
(* The readiness file (internal/readiness/manager.go) and the goroutine    *)
(* that polls the supervisors for it (process/manager_readiness.go).       *)
(* The file outlives the program: it may be there at the start.            *)
(* Init, Next and Spec are called ReadyInit, ReadyNext and ReadySpec: the  *)
(* proofs are in a module that extends DepsGraph as well.                  *)
(***************************************************************************)
EXTENDS Integers, FiniteSets

CONSTANTS
  Name,      \* process names
  Longrun,   \* those of type longrun without a schedule
  Unwell,    \* those whose health checks do not pass: no step looks at them
  Modes,     \* the modes to look at
  Filters    \* values of readiness.processes to look at, {} for none

ASSUME ReadinessAssumption ==
  /\ Modes \subseteq {"all_running", "all_healthy"}
  /\ Filters \subseteq SUBSET Name /\ Longrun \subseteq Name /\ Unwell \subseteq Name

VARIABLES
  mode, filter,   \* the configuration
  reg,       \* the processes with a supervisor
  state,     \* Supervisor.state, as GetState shows it (never "starting": see Start)
  insts,     \* the supervisor has instances
  status,    \* m.processes: what readiness tracks, with state and health
  isReady, file, stopped,
  poller,    \* "off", "idle", "polling", "done": monitorReadinessStates
  todo,      \* supervisors the poll has not looked at
  seen,      \* the state read of the one at hand, <<name, state>>, or <<>>
  closed,    \* shutdownCh
  ioError,   \* history: the file could not be written or removed
  late       \* history: a poll or a removal has come after Stop

sups == <<reg, state, insts>>
ready == <<status, isReady, file, ioError>>
readyVars == <<mode, filter, sups, ready, stopped, poller, todo, seen, closed, late>>

Unknown == <<"stopped", "unknown">>

ReadyInit ==
  /\ mode \in Modes /\ filter \in Filters
  /\ reg \in SUBSET Name
  /\ state = [n \in Name |-> IF n \in reg THEN "running" ELSE "stopped"]
  /\ insts = [n \in Name |-> n \in reg]
  /\ status = [n \in {} |-> Unknown] /\ isReady = FALSE /\ file \in BOOLEAN
  /\ stopped = FALSE /\ poller = "off" /\ todo = {} /\ seen = <<>>
  /\ closed = FALSE /\ ioError = FALSE /\ late = FALSE

-----------------------------------------------------------------------------
(* The file *)

\* createReadinessFile and removeReadinessFile: errors are logged.
SetFile(present) ==
  \/ file' = present /\ UNCHANGED ioError
  \/ file' = file /\ file # present /\ ioError' = TRUE

\* isProcessReady.
IsProcessReady(s) ==
  IF mode = "all_running" THEN s[1] \in {"running", "healthy"}
  ELSE s[1] = "healthy" \/ (s[1] = "running" /\ s[2] = "healthy")

AllReady(st) == DOMAIN st # {} /\ \A n \in DOMAIN st : IsProcessReady(st[n])

\* Mutant: the file is created and never removed.
EvaluateUp(st) ==
  /\ isReady' = AllReady(st)
  /\ IF isReady' /\ ~isReady THEN SetFile(TRUE) ELSE UNCHANGED <<file, ioError>>

\* evaluateReadiness and setReady: the file is touched only on a change.
Evaluate(st) ==
  /\ isReady' = AllReady(st)
  /\ IF isReady' = isReady THEN UNCHANGED <<file, ioError>> ELSE SetFile(isReady')

\* UpdateProcessState; the health is only read in mode all_healthy.
Update(n, s) ==
  IF n \notin DOMAIN status /\ filter # {} THEN UNCHANGED ready
  ELSE /\ status' = [m \in DOMAIN status \cup {n} |-> IF m = n THEN s ELSE status[m]]
       /\ Evaluate(status')

-----------------------------------------------------------------------------
(* StartReadinessMonitor, the poller, StopReadinessManager *)

Tracked == IF filter # {} THEN filter ELSE reg \cap Longrun

\* Mutant: the old file stays.
StartDirty ==
  /\ poller = "off" /\ ~stopped
  /\ status' = [n \in Tracked |-> Unknown]
  /\ poller' = "idle"
  /\ UNCHANGED <<mode, filter, sups, isReady, file, ioError, stopped, todo, seen, closed, late>>

\* Start removes the file that a predecessor has left behind.
Start ==
  /\ poller = "off" /\ ~stopped /\ SetFile(FALSE)
  /\ status' = [n \in Tracked |-> Unknown]
  /\ poller' = "idle"
  /\ UNCHANGED <<mode, filter, sups, isReady, stopped, todo, seen, closed, late>>

Tick ==
  /\ poller = "idle" /\ poller' = "polling" /\ todo' = reg
  /\ UNCHANGED <<mode, filter, sups, ready, stopped, seen, closed, late>>

\* The state is read, then the instances, then UpdateProcessState is called.
Read(n) ==
  /\ poller = "polling" /\ seen = <<>> /\ n \in todo
  /\ seen' = <<n, state[n]>>
  /\ UNCHANGED <<mode, filter, sups, ready, stopped, poller, todo, closed, late>>

\* updateReadinessStates: a running supervisor is reported as healthy, whatever
\* its health checks say.
Mapped(s, has) ==
  CASE s = "running" -> <<"healthy", "healthy">>
    [] s = "failed" -> <<"failed", "unhealthy">>
    [] s = "stopping" /\ has -> <<"running", "unknown">>
    [] OTHER -> Unknown

Report ==
  /\ poller = "polling" /\ seen # <<>>
  /\ Update(seen[1], Mapped(seen[2], insts[seen[1]]))
  /\ seen' = <<>> /\ todo' = todo \ {seen[1]} /\ late' = (late \/ stopped)
  /\ UNCHANGED <<mode, filter, sups, stopped, poller, closed>>

PollEnd ==
  /\ poller = "polling" /\ seen = <<>> /\ todo = {} /\ poller' = "idle"
  /\ UNCHANGED <<mode, filter, sups, ready, stopped, todo, seen, closed, late>>

PollerEnds ==
  /\ poller = "idle" /\ closed /\ poller' = "done"
  /\ UNCHANGED <<mode, filter, sups, ready, stopped, todo, seen, closed, late>>

Shutdown ==
  /\ ~closed /\ poller # "polling" /\ closed' = TRUE   \* under the Manager's m.mu
  /\ UNCHANGED <<mode, filter, sups, ready, stopped, poller, todo, seen, late>>

\* Stop removes the file and leaves isReady as it is.
Stop ==
  /\ ~stopped /\ stopped' = TRUE /\ SetFile(FALSE)
  /\ UNCHANGED <<mode, filter, sups, status, isReady, poller, todo, seen, closed, late>>

\* RemoveProcess; only tests call it.
RemoveProcess(n) ==
  /\ poller # "off" /\ n \in DOMAIN status
  /\ status' = [m \in DOMAIN status \ {n} |-> status[m]]
  /\ Evaluate(status') /\ late' = (late \/ stopped)
  /\ UNCHANGED <<mode, filter, sups, stopped, poller, todo, seen, closed>>

-----------------------------------------------------------------------------
(* The supervisors *)

Becomes(n, s, has) ==
  /\ state' = [state EXCEPT ![n] = s] /\ insts' = [insts EXCEPT ![n] = has]
  /\ UNCHANGED <<mode, filter, reg, ready, stopped, poller, todo, seen, closed, late>>

Supervise(n) ==
  /\ n \in reg
  /\ \/ state[n] \in {"stopped", "failed"} /\ (Becomes(n, "running", TRUE) \/ Becomes(n, "failed", FALSE))
     \/ state[n] \in {"running", "failed"} /\ Becomes(n, "stopping", insts[n])
     \/ state[n] = "stopping" /\ Becomes(n, "stopped", FALSE)

\* AddProcess and RemoveProcess of the Manager need its m.mu, which a poll holds.
Register(n) ==
  /\ poller # "polling" /\ n \notin reg /\ reg' = reg \cup {n}
  /\ state' = [state EXCEPT ![n] = "running"] /\ insts' = [insts EXCEPT ![n] = TRUE]
  /\ UNCHANGED <<mode, filter, ready, stopped, poller, todo, seen, closed, late>>

Unregister(n) ==
  /\ poller # "polling" /\ n \in reg /\ reg' = reg \ {n}
  /\ state' = [state EXCEPT ![n] = "stopped"] /\ insts' = [insts EXCEPT ![n] = FALSE]
  /\ UNCHANGED <<mode, filter, ready, stopped, poller, todo, seen, closed, late>>

Poll == Tick \/ Report \/ PollEnd \/ PollerEnds \/ \E n \in Name : Read(n)
ReadyNext ==
  \/ Start \/ Poll \/ Stop \/ Shutdown
  \/ \E n \in Name : Supervise(n) \/ Register(n) \/ Unregister(n) \/ RemoveProcess(n)

ReadySpec == ReadyInit /\ [][ReadyNext]_readyVars
\* The ticker ticks and the goroutine runs.
ReadyFairSpec == ReadySpec /\ WF_readyVars(Poll)

-----------------------------------------------------------------------------
(* Properties *)

Statuses == {Unknown, <<"healthy", "healthy">>, <<"failed", "unhealthy">>, <<"running", "unknown">>}

\* Every variable keeps its type.
ReadyTypeOK ==
  /\ mode \in Modes /\ filter \in Filters /\ reg \subseteq Name
  /\ state \in [Name -> {"stopped", "running", "failed", "stopping"}]
  /\ insts \in [Name -> BOOLEAN]
  /\ DOMAIN status \subseteq Name /\ \A n \in DOMAIN status : status[n] \in Statuses
  /\ poller \in {"off", "idle", "polling", "done"} /\ todo \subseteq reg
  /\ seen = <<>> \/ seen \in todo \X {"stopped", "running", "failed", "stopping"}
  /\ {isReady, file, stopped, closed, ioError, late} \subseteq BOOLEAN

\* What the manager says is what it was told: ready means that something is tracked
\* and all of it was reported ready.  That is not about health checks (see Mapped).
ReadyIsKnown ==
  isReady <=> DOMAIN status # {} /\ \A n \in DOMAIN status : IsProcessReady(status[n])

\* Once monitoring has begun and until Stop, the file is there exactly when the
\* manager is ready, whatever was there before, as long as the file system obeys.
FileFollows == poller # "off" /\ ~stopped /\ ~ioError => (file <=> isReady)

\* After Stop the file is gone for good, unless a poll or a removal comes after it (Stop does
\* not end the poller, and UpdateProcessState does not look at "stopped").
GoneAfterStop == stopped /\ ~late /\ ~ioError => ~file

\* A tracked process that stays down takes the file away.  If all that is tracked
\* stays up the file comes, as long as the poller runs; in mode all_healthy that is
\* asked only of processes whose health checks pass, for the others should keep
\* the file away, which they do not.
Works == poller # "off" /\ ~stopped /\ ~closed /\ ~ioError
DownIsSeen ==
  \A n \in Name :
    <>[](Works /\ n \in DOMAIN status /\ n \in reg /\ state[n] \in {"stopped", "failed"}) => <>[]~file
AllUp ==
  /\ DOMAIN status # {} /\ DOMAIN status = reg /\ \A n \in reg : state[n] = "running"
  /\ mode = "all_healthy" => reg \cap Unwell = {}
UpIsSeen == <>[](Works /\ AllUp) => <>[]file

\* The file tells what was reported: what is tracked, what the manager says and
\* what is on the disk agree, from the first poll until Stop and after it.
FileIsTrue == ReadyTypeOK /\ ReadyIsKnown /\ FileFollows /\ GoneAfterStop

\* A change of state that lasts is on the disk in the end, for the worse and for
\* the better.
ShownInTime == DownIsSeen /\ UpIsSeen
=============================================================================
