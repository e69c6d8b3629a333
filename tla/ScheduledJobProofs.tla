------------------------- MODULE ScheduledJobProofs -------------------------
(***************************************************************************)
(* Proofs about ScheduledJob: its types, that executions never overlap,    *)
(* and that it implements JobLifecycle, for any number of triggers and any *)
(* size of the history.                                                    *)
(***************************************************************************)
EXTENDS ScheduledJob, SequenceTheorems, TLAPS

Active == {"exec", "ended"}

\* A run holds executionMu from the moment it executes until its result is
\* recorded; the state and CurrentExecID follow the execution, which has an ID.
LockInv ==
  /\ \A r \in Run : pc[r] \in Active => executionMu = {r} /\ execID[r] # 0
  /\ \A r \in Run : pc[r] \in {"none", "queued"} => execID[r] = 0
  /\ \A r \in Run : pc[r] = "exec" => state = "executing" /\ currentExec = execID[r]
  /\ state = "executing" => \E r \in Run : pc[r] = "exec"
  /\ state # "executing" => currentExec = 0
JobInv == TypeOK /\ LockInv

\* The history keeps its type and its bound when an execution starts ...
LEMMA StartExecutionType ==
  ASSUME JobAssumption, TypeOK, StartExecution
  PROVE  entries' \in Seq(Entry) /\ Len(entries') <= HistorySize /\ nextID' \in Nat \ {0}
<1> DEFINE kept == IF Len(entries) >= HistorySize THEN Tail(entries) ELSE entries
           new == [id |-> nextID, ended |-> FALSE, success |-> FALSE]
<1>1. entries \in Seq(Entry) /\ nextID \in Nat \ {0} /\ HistorySize \in Nat \ {0}
      /\ Len(entries) <= HistorySize
  BY DEF TypeOK, JobAssumption
<1>2. kept \in Seq(Entry) /\ Len(kept) < HistorySize
  <2>1. CASE Len(entries) >= HistorySize
    <3>1. entries # <<>>
      BY <1>1, <2>1, EmptySeq
    <3>2. Tail(entries) \in Seq(Entry) /\ Len(Tail(entries)) = Len(entries) - 1
      BY <1>1, <3>1, HeadTailProperties
    <3>3. QED
      BY <1>1, <2>1, <3>2, LenProperties
  <2>2. CASE ~(Len(entries) >= HistorySize)
    BY <1>1, <2>2, LenProperties
  <2>3. QED
    BY <2>1, <2>2
<1>3. new \in Entry
  BY <1>1 DEF Entry
<1>4. Append(kept, new) \in Seq(Entry) /\ Len(Append(kept, new)) = Len(kept) + 1
  BY <1>2, <1>3, AppendProperties
<1>5. entries' = Append(kept, new) /\ nextID' = nextID + 1
  BY DEF StartExecution
<1>6. Len(kept) \in Nat
  BY <1>2, LenProperties
<1> HIDE DEF kept, new
<1>7. QED
  BY <1>1, <1>2, <1>4, <1>5, <1>6

\* ... and when one ends.
LEMMA EndExecutionType ==
  ASSUME TypeOK, NEW id \in Nat, NEW ok \in BOOLEAN, EndExecution(id, ok)
  PROVE  entries' \in Seq(Entry) /\ Len(entries') = Len(entries) /\ nextID' = nextID
<1>1. entries \in Seq(Entry)
  BY DEF TypeOK
<1>2. \A i \in DOMAIN entries : entries[i] \in Entry
  BY <1>1, ElementOfSeq, LenProperties
<1>3. DOMAIN entries = 1..Len(entries) /\ Len(entries) \in Nat
  BY <1>1, LenProperties
<1> DEFINE new(i) == IF entries[i].id = id THEN [id |-> id, ended |-> TRUE, success |-> ok]
                     ELSE entries[i]
<1>4. \A i \in 1..Len(entries) : new(i) \in Entry
  BY <1>2, <1>3 DEF Entry
<1>5. entries' = [i \in 1..Len(entries) |-> new(i)] /\ nextID' = nextID
  BY <1>3 DEF EndExecution
<1> HIDE DEF new
<1>6. entries' \in Seq(Entry) /\ Len(entries') = Len(entries)
  <2>1. entries' \in [1..Len(entries) -> Entry]
    BY <1>4, <1>5
  <2>2. QED
    BY <2>1, <1>3, LenProperties
<1>7. QED
  BY <1>5, <1>6

-----------------------------------------------------------------------------
(* Types and mutual exclusion *)

\* The initial states satisfy the inductive invariant.
LEMMA InitJob == JobAssumption /\ Init => JobInv
<1> SUFFICES ASSUME JobAssumption, Init PROVE JobInv
  OBVIOUS
<1>1. TypeOK
  <2>1. <<>> \in Seq(Entry) /\ Len(<<>>) = 0 /\ <<>> \in Seq(Entry)
    BY EmptySeq
  <2>2. QED
    BY <2>1 DEF Init, TypeOK, JobAssumption, Outcomes
<1>2. LockInv
  BY DEF Init, LockInv, Active
<1>3. QED
  BY <1>1, <1>2 DEF JobInv

\* Every step keeps the types.
LEMMA TypeStep ==
  ASSUME JobAssumption, JobInv, [Next]_vars
  PROVE  TypeOK'
<1> USE DEF JobInv
<1>1. ASSUME NEW r \in Run, NEW kind \in {"schedule", "async", "sync"}, Spawn(r, kind)
      PROVE  TypeOK'
  BY <1>1 DEF Spawn, TypeOK, jobVars, histVars
<1>2. ASSUME NEW r \in Run, RequestEnds(r) PROVE TypeOK'
  BY <1>2 DEF RequestEnds, TypeOK, jobVars, histVars
<1>3. ASSUME NEW r \in Run, Begin(r) PROVE TypeOK'
  <2>1. CASE state = "idle"
    <3>1. entries' \in Seq(Entry) /\ Len(entries') <= HistorySize /\ nextID' \in Nat \ {0}
      BY <1>3, <2>1, StartExecutionType DEF Begin
    <3>2. QED
      BY <1>3, <2>1, <3>1 DEF Begin, TypeOK
  <2>2. CASE state # "idle"
    BY <1>3, <2>2 DEF Begin, Finish, TypeOK, jobVars, histVars
  <2>3. QED
    BY <2>1, <2>2
<1>4. ASSUME NEW r \in Run, NEW o \in Outcomes, Ends(r, o) PROVE TypeOK'
  BY <1>4 DEF Ends, TypeOK, histVars, Outcomes
<1>5. ASSUME NEW r \in Run, Record(r) PROVE TypeOK'
  <2>1. entries' \in Seq(Entry) /\ Len(entries') = Len(entries) /\ nextID' = nextID
    BY <1>5, EndExecutionType DEF Record, TypeOK
  <2>2. QED
    BY <1>5, <2>1 DEF Record, Finish, TypeOK
<1>6. CASE Pause \/ Resume \/ RemoveJob \/ Stop \/ Stopped \/ UNCHANGED vars
  BY <1>6 DEF Pause, Resume, RemoveJob, Stop, Stopped, vars, jobVars, histVars, runVars, TypeOK
<1>7. QED
  BY <1>1, <1>2, <1>3, <1>4, <1>5, <1>6 DEF Next, Fire, Trigger

\* Every step keeps the execution and what the job shows of it together.
LEMMA LockStep ==
  ASSUME JobAssumption, JobInv, [Next]_vars
  PROVE  LockInv'
<1> USE DEF JobInv, LockInv, Active
<1>1. ASSUME NEW r \in Run, NEW kind, Spawn(r, kind) PROVE LockInv'
  BY <1>1 DEF Spawn, TypeOK, jobVars
<1>2. ASSUME NEW r \in Run, RequestEnds(r) PROVE LockInv'
  BY <1>2 DEF RequestEnds, jobVars
<1>3. ASSUME NEW r \in Run, Begin(r) PROVE LockInv'
  <2>1. CASE state = "idle"
    BY <1>3, <2>1 DEF Begin, TypeOK
  <2>2. CASE state # "idle"
    BY <1>3, <2>2 DEF Begin, Finish, TypeOK, jobVars
  <2>3. QED
    BY <2>1, <2>2
<1>4. ASSUME NEW r \in Run, NEW o, Ends(r, o) PROVE LockInv'
  BY <1>4 DEF Ends, TypeOK
<1>5. ASSUME NEW r \in Run, Record(r) PROVE LockInv'
  BY <1>5 DEF Record, Finish, TypeOK
<1>6. CASE Pause \/ Resume \/ RemoveJob \/ Stop \/ Stopped \/ UNCHANGED vars
  BY <1>6 DEF Pause, Resume, RemoveJob, Stop, Stopped, vars, jobVars, runVars
<1>7. QED
  BY <1>1, <1>2, <1>3, <1>4, <1>5, <1>6 DEF Next, Fire, Trigger

\* The inductive invariant holds in every state.
THEOREM JobInvariant == Spec => []JobInv
<1>1. Init => JobInv
  BY InitJob, JobAssumption
<1>2. JobInv /\ [Next]_vars => JobInv'
  BY TypeStep, LockStep, JobAssumption DEF JobInv
<1>3. QED
  BY <1>1, <1>2, PTL DEF Spec

\* Every variable keeps its type (TypeOK).
THEOREM JobTypeCorrect == Spec => []TypeOK
BY JobInvariant, PTL DEF JobInv

\* NoOverlap: however many triggers cron and the API issue, and whenever the job
\* is paused, resumed, removed or the scheduler stopped, executions exclude each
\* other and the state and CurrentExecID tell which one is going on.
THEOREM NeverOverlaps == Spec => []NoOverlap
<1>1. JobInv => NoOverlap
  BY DEF JobInv, LockInv, NoOverlap, Active
<1>2. QED
  BY <1>1, JobInvariant, PTL

-----------------------------------------------------------------------------
(* The job implements JobLifecycle. *)

\* Every step of the job is a step of the life cycle or leaves it alone.
LEMMA LifecycleStep ==
  ASSUME JobInv, [Next]_vars
  PROVE  [Lifecycle!Next]_(Lifecycle!vars)
<1> USE DEF JobInv, LockInv, Active
<1>1. ASSUME NEW r \in Run, NEW kind, Spawn(r, kind) PROVE UNCHANGED Lifecycle!vars
  BY <1>1 DEF Spawn, TypeOK, jobVars, Lifecycle!vars, Executed
<1>2. ASSUME NEW r \in Run, RequestEnds(r) PROVE UNCHANGED Lifecycle!vars
  BY <1>2 DEF RequestEnds, jobVars, Lifecycle!vars, Executed
<1>3. ASSUME NEW r \in Run, Begin(r), state = "idle" PROVE Lifecycle!Execute(r)
  BY <1>3 DEF Begin, TypeOK, Lifecycle!Execute, Executed
<1>4. ASSUME NEW r \in Run, Begin(r), state # "idle" PROVE UNCHANGED Lifecycle!vars
  BY <1>4 DEF Begin, Finish, TypeOK, jobVars, Lifecycle!vars, Executed
<1>5. ASSUME NEW r \in Run, NEW o, Ends(r, o) PROVE Lifecycle!Complete
  BY <1>5 DEF Ends, TypeOK, Lifecycle!Complete, Executed
<1>6. ASSUME NEW r \in Run, Record(r) PROVE UNCHANGED Lifecycle!vars
  BY <1>6 DEF Record, Finish, TypeOK, Lifecycle!vars, Executed
<1>7. CASE Pause
  BY <1>7 DEF Pause, runVars, Lifecycle!Pause, Lifecycle!Next, Executed
<1>8. CASE Resume
  BY <1>8 DEF Resume, runVars, Lifecycle!Resume, Lifecycle!Next, Executed
<1>9. CASE RemoveJob \/ Stop \/ Stopped \/ UNCHANGED vars
  BY <1>9 DEF RemoveJob, Stop, Stopped, vars, jobVars, runVars, Lifecycle!vars, Executed
<1>10. QED
  BY <1>1, <1>2, <1>3, <1>4, <1>5, <1>6, <1>7, <1>8, <1>9
  DEF Next, Fire, Trigger, Lifecycle!Next

\* ImplementsLifecycle: the job with its mutex, history and triggers implements the
\* state machine of three states its comment draws.
THEOREM ImplementsIt == Spec => ImplementsLifecycle
<1>1. Init => Lifecycle!Init
  BY DEF Init, Lifecycle!Init, Executed
<1>2. JobInv /\ [Next]_vars => [Lifecycle!Next]_(Lifecycle!vars)
  BY LifecycleStep
<1>3. QED
  BY <1>1, <1>2, JobInvariant, PTL DEF Spec, ImplementsLifecycle, Lifecycle!Spec

-----------------------------------------------------------------------------
(* The history tells the truth. *)

\* The entries are numbered upwards to the last ID given, none is missing ...
Numbered ==
  /\ \A i \in DOMAIN entries : entries[i].id = nextID - 1 - (Len(entries) - i)
  /\ Len(entries) = IF nextID - 1 < HistorySize THEN nextID - 1 ELSE HistorySize
\* ... every entry belongs to a run, whose progress it shows ...
Matches(e, r) ==
  /\ execID[r] = e.id
  /\ e.ended <=> pc[r] = "done"
  /\ e.ended => (e.success <=> outcome[r] = "ok")
Matched == \A i \in DOMAIN entries : \E r \in Run : Matches(entries[i], r)
\* ... and no two runs have the same ID.
UniqueIDs ==
  /\ \A r \in Run : execID[r] < nextID
  /\ \A r, q \in Run : execID[r] = execID[q] => r = q \/ execID[r] = 0
HistoryInv == Numbered /\ Matched /\ UniqueIDs

\* StartExecution keeps the numbering, adds the new entry and no other.
LEMMA StartExecutionNumbers ==
  ASSUME JobAssumption, TypeOK, Numbered, StartExecution
  PROVE  /\ Numbered'
         /\ \A i \in DOMAIN entries' :
              \/ entries'[i] = [id |-> nextID, ended |-> FALSE, success |-> FALSE]
              \/ \E j \in DOMAIN entries : entries'[i] = entries[j]
<1> DEFINE kept == IF Len(entries) >= HistorySize THEN Tail(entries) ELSE entries
           new == [id |-> nextID, ended |-> FALSE, success |-> FALSE]
           shift == IF Len(entries) >= HistorySize THEN 1 ELSE 0
           n == Len(entries)
<1>1. /\ entries \in Seq(Entry) /\ nextID \in Nat \ {0} /\ HistorySize \in Nat \ {0}
      /\ n <= HistorySize /\ n \in Nat /\ DOMAIN entries = 1..n
  BY LenProperties DEF TypeOK, JobAssumption
<1>2. /\ kept \in Seq(Entry) /\ Len(kept) = n - shift /\ Len(kept) \in Nat
      /\ \A i \in 1..Len(kept) : kept[i] = entries[i + shift]
  <2>1. CASE n >= HistorySize
    <3>1. entries # <<>>
      BY <1>1, <2>1, EmptySeq
    <3>2. /\ Tail(entries) \in Seq(Entry) /\ Len(Tail(entries)) = n - 1
          /\ \A i \in 1..Len(Tail(entries)) : Tail(entries)[i] = entries[i + 1]
      BY <1>1, <3>1, HeadTailProperties
    <3>3. QED
      BY <1>1, <2>1, <3>2
  <2>2. CASE ~(n >= HistorySize)
    BY <1>1, <2>2
  <2>3. QED
    BY <2>1, <2>2
<1>3. new \in Entry
  BY <1>1 DEF Entry
<1>4. entries' = Append(kept, new) /\ nextID' = nextID + 1
  BY DEF StartExecution
<1> HIDE DEF kept, new
<1>5. /\ Len(entries') = Len(kept) + 1 /\ DOMAIN entries' = 1..(Len(kept) + 1)
      /\ \A i \in 1..Len(kept) : entries'[i] = kept[i]
      /\ entries'[Len(kept) + 1] = new
  BY <1>2, <1>3, <1>4, AppendProperties, LenProperties
<1>6. shift \in Nat /\ n \in Nat /\ shift <= n
  <2>1. n \in Nat /\ HistorySize \in Nat \ {0}
    BY <1>1
  <2>2. QED
    BY <2>1
<1> HIDE DEF shift, n
<1>7. ASSUME NEW i \in DOMAIN entries', i # Len(kept) + 1
      PROVE  i + shift \in DOMAIN entries /\ entries'[i] = entries[i + shift] /\ i \in Nat
  <2>1. i \in 1..Len(kept)
    BY <1>2, <1>5, <1>7
  <2>2. i + shift \in 1..n
    BY <1>2, <1>6, <2>1
  <2>3. QED
    BY <1>1, <1>2, <1>5, <2>1, <2>2
<1>8. ASSUME NEW i \in DOMAIN entries'
      PROVE  entries'[i].id = nextID' - 1 - (Len(entries') - i)
  <2>1. CASE i = Len(kept) + 1
    BY <1>1, <1>2, <1>4, <1>5, <2>1 DEF new
  <2>2. CASE i # Len(kept) + 1
    <3>1. entries[i + shift].id = nextID - 1 - (n - (i + shift))
      BY <1>7, <2>2 DEF Numbered, n
    <3>2. Len(entries') = n - shift + 1 /\ nextID' = nextID + 1 /\ nextID \in Nat
      BY <1>1, <1>2, <1>4, <1>5
    <3>3. entries'[i] = entries[i + shift] /\ i \in Nat
      BY <1>7, <2>2
    <3>4. QED
      BY <1>6, <3>1, <3>2, <3>3
  <2>3. QED
    BY <2>1, <2>2
<1>9. Len(entries') = IF nextID' - 1 < HistorySize THEN nextID' - 1 ELSE HistorySize
  BY <1>1, <1>2, <1>4, <1>5 DEF Numbered, n, shift
<1>10. QED
  BY <1>5, <1>7, <1>8, <1>9 DEF Numbered, new

\* An entry's ID is not 0, the execID of a run that has not executed.
LEMMA EntryIDs ==
  ASSUME JobAssumption, TypeOK, Numbered
  PROVE  \A i \in DOMAIN entries : entries[i].id # 0
<1> SUFFICES ASSUME NEW i \in DOMAIN entries PROVE entries[i].id # 0
  OBVIOUS
<1>1. DOMAIN entries = 1..Len(entries) /\ Len(entries) \in Nat
  BY LenProperties DEF TypeOK
<1>2. nextID \in Nat \ {0} /\ HistorySize \in Nat \ {0}
  BY DEF TypeOK, JobAssumption
<1>3. entries[i].id = nextID - 1 - (Len(entries) - i) /\ Len(entries) <= nextID - 1
  BY <1>1, <1>2 DEF Numbered
<1>4. QED
  BY <1>1, <1>2, <1>3

\* The history after a run began to execute.
LEMMA HistoryBegins ==
  ASSUME JobAssumption, JobInv, HistoryInv, NEW r \in Run, Begin(r)
  PROVE  HistoryInv'
<1>1. TypeOK /\ Numbered /\ Matched /\ UniqueIDs /\ execID[r] = 0 /\ pc[r] = "queued"
  BY DEF JobInv, LockInv, HistoryInv, Begin
<1>2. pc \in [Run -> {"none", "queued", "exec", "ended", "done"}] /\ execID \in [Run -> Nat] /\ nextID \in Nat \ {0}
  BY <1>1 DEF TypeOK
<1>3. \A j \in DOMAIN entries : \E q \in Run \ {r} : Matches(entries[j], q)
  BY <1>1, EntryIDs DEF Matched, Matches
<1>4. \A j \in DOMAIN entries, q \in Run \ {r} :
        Matches(entries[j], q) => execID'[q] = execID[q] /\ pc'[q] = pc[q] /\ outcome'[q] = outcome[q]
  BY <1>2 DEF Begin, Finish
<1>5. CASE state = "idle"
  <2>1. StartExecution /\ execID' = [execID EXCEPT ![r] = nextID] /\ pc' = [pc EXCEPT ![r] = "exec"]
    BY <1>5 DEF Begin
  <2>2. Numbered' /\ \A i \in DOMAIN entries' :
                       \/ entries'[i] = [id |-> nextID, ended |-> FALSE, success |-> FALSE]
                       \/ \E j \in DOMAIN entries : entries'[i] = entries[j]
    BY <1>1, <2>1, StartExecutionNumbers
  <2>3. ASSUME NEW i \in DOMAIN entries' PROVE \E q \in Run : Matches(entries[i], q)'
    <3>1. CASE entries'[i] = [id |-> nextID, ended |-> FALSE, success |-> FALSE]
      <4>1. execID'[r] = nextID /\ pc'[r] = "exec"
        BY <1>2, <2>1
      <4>2. Matches(entries[i], r)'
        BY <3>1, <4>1 DEF Matches
      <4>3. QED
        BY <4>2
    <3>2. CASE \E j \in DOMAIN entries : entries'[i] = entries[j]
      <4>1. PICK j \in DOMAIN entries : entries'[i] = entries[j]
        BY <3>2
      <4>2. PICK q \in Run \ {r} : Matches(entries[j], q)
        BY <1>3
      <4>3. Matches(entries[i], q)'
        BY <1>4, <4>1, <4>2 DEF Matches
      <4>4. QED
        BY <4>3
    <3>3. QED
      BY <2>2, <3>1, <3>2
  <2>4. UniqueIDs'
    BY <1>1, <1>2, <2>1 DEF UniqueIDs, StartExecution
  <2>5. QED
    BY <2>2, <2>3, <2>4 DEF HistoryInv, Matched
<1>6. CASE state # "idle"
  <2>1. UNCHANGED <<entries, nextID, execID>>
    BY <1>6 DEF Begin, histVars
  <2>2. Numbered' /\ UniqueIDs'
    BY <1>1, <2>1 DEF Numbered, UniqueIDs
  <2>3. Matched'
    BY <1>3, <1>4, <2>1 DEF Matched, Matches
  <2>4. QED
    BY <2>2, <2>3 DEF HistoryInv
<1>7. QED
  BY <1>5, <1>6

\* The history after the result of a run was recorded.
LEMMA HistoryRecords ==
  ASSUME JobInv, HistoryInv, NEW r \in Run, Record(r)
  PROVE  HistoryInv'
<1>1. Numbered /\ Matched /\ UniqueIDs /\ execID[r] # 0
  BY DEF JobInv, LockInv, HistoryInv, Record, Active
<1>2. /\ entries \in Seq(Entry) /\ pc \in [Run -> {"none", "queued", "exec", "ended", "done"}] /\ execID \in [Run -> Nat]
      /\ DOMAIN entries = 1..Len(entries) /\ Len(entries) \in Nat
  BY LenProperties DEF JobInv, TypeOK
<1>3. /\ entries' = [i \in DOMAIN entries |->
                      IF entries[i].id = execID[r]
                      THEN [id |-> execID[r], ended |-> TRUE, success |-> outcome[r] = "ok"]
                      ELSE entries[i]]
      /\ UNCHANGED <<nextID, execID, outcome>> /\ pc' = [pc EXCEPT ![r] = "done"]
  BY DEF Record, EndExecution, Finish
<1>4. Len(entries') = Len(entries) /\ DOMAIN entries' = DOMAIN entries
  BY <1>2, EndExecutionType, LenProperties DEF Record, JobInv, TypeOK
<1>5. \A i \in DOMAIN entries : entries'[i].id = entries[i].id
  BY <1>3
<1>6. Numbered' /\ UniqueIDs'
  BY <1>1, <1>3, <1>4, <1>5 DEF Numbered, UniqueIDs
<1>7. ASSUME NEW i \in DOMAIN entries PROVE \E q \in Run : Matches(entries[i], q)'
  <2>1. CASE entries[i].id = execID[r]
    <3>1. Matches(entries[i], r)'
      BY <1>2, <1>3, <2>1 DEF Matches
    <3>2. QED
      BY <3>1
  <2>2. CASE entries[i].id # execID[r]
    <3>1. PICK q \in Run : Matches(entries[i], q)
      BY <1>1 DEF Matched
    <3>2. q # r
      BY <2>2, <3>1 DEF Matches
    <3>3. Matches(entries[i], q)'
      BY <1>2, <1>3, <2>2, <3>1, <3>2 DEF Matches
    <3>4. QED
      BY <3>3
  <2>3. QED
    BY <2>1, <2>2
<1>8. QED
  BY <1>4, <1>6, <1>7 DEF HistoryInv, Matched

\* Every step keeps the history true.
LEMMA HistoryStep ==
  ASSUME JobAssumption, JobInv, HistoryInv, [Next]_vars
  PROVE  HistoryInv'
<1> DEFINE kept == UNCHANGED <<entries, nextID, execID>>
<1>1. ASSUME kept, UNCHANGED <<pc, outcome>> PROVE HistoryInv'
  BY <1>1 DEF HistoryInv, Numbered, Matched, Matches, UniqueIDs
<1>2. ASSUME NEW r \in Run, NEW kind, Spawn(r, kind) PROVE HistoryInv'
  <2>1. kept /\ UNCHANGED outcome /\ pc[r] # "done" /\ pc' = [pc EXCEPT ![r] = "queued"]
    BY <1>2 DEF Spawn, histVars
  <2>2. pc \in [Run -> {"none", "queued", "exec", "ended", "done"}]
    BY DEF JobInv, TypeOK
  <2>3. \A q \in Run : pc'[q] = "done" <=> pc[q] = "done"
    BY <2>1, <2>2
  <2>4. QED
    BY <2>1, <2>3 DEF HistoryInv, Numbered, Matched, Matches, UniqueIDs
<1>3. ASSUME NEW r \in Run, RequestEnds(r) PROVE HistoryInv'
  BY <1>1, <1>3 DEF RequestEnds, histVars
<1>4. ASSUME NEW r \in Run, NEW o, Ends(r, o) PROVE HistoryInv'
  <2>1. kept /\ pc[r] = "exec" /\ pc' = [pc EXCEPT ![r] = "ended"]
        /\ outcome' = [outcome EXCEPT ![r] = o]
    BY <1>4 DEF Ends, histVars
  <2>2. pc \in [Run -> {"none", "queued", "exec", "ended", "done"}] /\ outcome \in [Run -> Outcomes]
    BY DEF JobInv, TypeOK
  <2>3. \A q \in Run : /\ pc'[q] = "done" <=> pc[q] = "done"
                      /\ pc[q] = "done" => outcome'[q] = outcome[q]
    BY <2>1, <2>2
  <2>4. QED
    BY <2>1, <2>3 DEF HistoryInv, Numbered, Matched, Matches, UniqueIDs
<1>5. CASE Pause \/ Resume \/ RemoveJob \/ Stop \/ Stopped \/ UNCHANGED vars
  BY <1>1, <1>5 DEF Pause, Resume, RemoveJob, Stop, Stopped, vars, histVars, runVars
<1>6. QED
  BY <1>2, <1>3, <1>4, <1>5, HistoryBegins, HistoryRecords DEF Next, Fire, Trigger

\* HistoryIsTrue: whatever executes, is killed or fails, and however many old
\* entries were dropped, the history shows the last executions with their results.
THEOREM TrueHistory == Spec => []HistoryIsTrue
<1>1. Init => HistoryInv
  <2>1. Init => Numbered
    BY JobAssumption DEF Init, Numbered, JobAssumption
  <2>2. Init => Matched /\ UniqueIDs
    BY DEF Init, Matched, UniqueIDs
  <2>3. QED
    BY <2>1, <2>2 DEF HistoryInv
<1>2. JobInv /\ HistoryInv /\ [Next]_vars => HistoryInv'
  BY HistoryStep, JobAssumption
<1>3. HistoryInv => HistoryIsTrue
  BY DEF HistoryInv, Numbered, Matched, Matches, HistoryIsTrue
<1>4. QED
  BY <1>1, <1>2, <1>3, JobInvariant, PTL DEF Spec
=============================================================================
