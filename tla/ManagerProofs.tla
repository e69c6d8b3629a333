--------------------------- MODULE ManagerProofs ---------------------------
(***************************************************************************)
(* Proofs about Manager: for any number of processes, of supervisors and   *)
(* of API goroutines, the maps of the Manager, its lock and the processes  *)
(* that run are in step, through Start, requests, reloads and Shutdown.    *)
(***************************************************************************)
EXTENDS Manager, TLAPS

Sup == [cfg : Cfg, notifier : BOOLEAN, state : {"stopped", "running", "failed"},
        alive : BOOLEAN, notifying : BOOLEAN, ready : BOOLEAN]

MainAt == {"boot", "starting", "serving", "reload", "removing", "replacing",
           "shutdown", "draining", "stopping", "closing", "exit0", "exit1"}
CallerAt == {"idle", "start", "startAct", "stop", "stopAct", "restart", "restartAct", "restartAll",
             "add", "remove", "update", "reload", "removing", "replacing"}
HandAt == {"startAct", "stopAct", "restartAct"}
Locked == {"starting", "draining", "stopping", "removing", "replacing"}

\* Types.  A goroutine that acts on a supervisor has one in hand, and a request
\* to add or update has a configuration.
FlowTypes ==
  /\ pc \in [Actor -> MainAt \cup CallerAt]
  /\ pc[Main] \in MainAt /\ \A a \in Caller : pc[a] \in CallerAt
  /\ call = [a \in Caller |-> call[a]]
  /\ \A a \in Caller : pc[a] \in {"add", "update"} => call[a].name \in Name /\ call[a].cfg \in Cfg
  /\ obj \in [Caller -> Obj \cup {0}] /\ rest \in [Caller -> SUBSET Name]
  /\ \A a \in Caller : pc[a] \in HandAt => obj[a] \in Obj
  /\ left \subseteq Name
  /\ IsConfig(plan.new) /\ plan.stop \subseteq Name /\ plan.start \subseteq Name /\ plan.update \subseteq Name
  /\ plan = [new |-> plan.new, stop |-> plan.stop, start |-> plan.start, update |-> plan.update]

RestTypes ==
  /\ scn \in Scenarios /\ IsConfig(config) /\ file.ok \in BOOLEAN /\ IsConfig(file.procs)
  /\ jobs \subseteq Name /\ {schedOn, jobRuns, overlap, failed, draining, stopErr} \subseteq BOOLEAN
  /\ mu \in Actor \cup {Free} /\ deaths \in 0..DeathCap

SupTypes ==
  /\ sup \in [Obj -> Sup] /\ \A o \in Obj : sup[o].alive => sup[o].state = "running"
  /\ reg \in [DOMAIN reg -> Obj] /\ DOMAIN reg \subseteq Name
  /\ \A m, n \in DOMAIN reg : reg[m] = reg[n] => m = n

\* Who is past taking m.mu holds it.
LockInv == \A a \in Actor : pc[a] \in Locked => mu = a

\* Before the Manager serves no request is made, and afterwards two goroutines are
\* not in an operation at once unless overlap says so.
BusyInv ==
  /\ pc[Main] \in {"boot", "starting"} => \A a \in Caller : pc[a] = "idle"
  /\ ~overlap => \A a, b \in Actor : Busy(a) /\ Busy(b) => a = b

\* Start goes through the enabled processes once.
StartInv ==
  /\ pc[Main] = "boot" => DOMAIN reg = {} /\ jobs = {}
  /\ pc[Main] = "starting" => left \subseteq Enabled(config) /\ DOMAIN reg \cap left = {} /\ DOMAIN reg \subseteq Enabled(config)
  /\ DependenciesUp

\* ReloadConfig's plan: what is still to be removed has no place in the new
\* configuration, and what is neither new nor changed is the same in both.
PlanInv ==
  /\ \A a \in Actor : pc[a] = "removing" =>
       /\ plan.stop \subseteq DOMAIN config \ DOMAIN plan.new
       /\ DOMAIN reg \subseteq DOMAIN plan.new \cup plan.stop
       /\ plan.start = DOMAIN plan.new \ DOMAIN config
       /\ plan.update = {n \in DOMAIN config \cap DOMAIN plan.new : ~Equal(config[n], plan.new[n])}
  /\ \A a \in Actor : pc[a] = "replacing" =>
       plan.start \cup plan.update \subseteq DOMAIN config /\ plan.start \cap DOMAIN reg = {}
  /\ DOMAIN reg \subseteq DOMAIN config

\* What ReloadConfig has still to replace, and what it has already removed.
Pending == IF \E a \in Actor : pc[a] = "replacing" THEN plan.start \cup plan.update ELSE {}
Missing ==
  IF pc[Main] = "starting" THEN left
  ELSE IF \E a \in Actor : pc[a] = "removing" THEN DOMAIN config \ (DOMAIN plan.new \cup plan.stop)
  ELSE {}

\* The supervisors are those of the enabled processes, with their configuration.
AgreeInv ==
  pc[Main] # "boot" /\ ~Exited /\ ~failed /\ jobs = {} =>
    /\ \A n \in DOMAIN config \ Pending : n \in DOMAIN reg <=> config[n].enabled /\ n \notin Missing
    /\ \A n \in DOMAIN reg \ Pending : Equal(sup[reg[n]].cfg, config[n])

\* One operation at a time: the supervisor in hand is the registered one of an
\* enabled process; what lives is registered; what is not stopped is enabled.
HandInv ==
  ~overlap => \A a \in Caller : pc[a] \in {"startAct", "restartAct"} =>
    N(a) \in DOMAIN reg /\ obj[a] = reg[N(a)] /\ N(a) \in Enabled(config)
AliveInv ==
  ~overlap =>
    /\ \A o \in Obj : sup[o].alive => \E n \in DOMAIN reg : reg[n] = o
    /\ \A n \in DOMAIN reg \ Pending : sup[reg[n]].state # "stopped" => n \in Enabled(config)

\* Shutdown stops the scheduler, then waits for its job, then stops what is left.
ShutInv ==
  /\ pc[Main] \in {"draining", "stopping", "closing", "exit0"} => ~schedOn
  /\ pc[Main] \in {"stopping", "closing", "exit0"} => ~jobRuns
  /\ pc[Main] = "stopping" => left \subseteq DOMAIN reg
  /\ ~overlap /\ ~Broken(config) =>
       /\ pc[Main] = "stopping" => \A n \in DOMAIN reg : sup[reg[n]].alive => n \in left
       /\ pc[Main] \in {"closing", "exit0"} => \A o \in Obj : ~sup[o].alive

TypeInv == FlowTypes /\ RestTypes /\ SupTypes
ManagerInv ==
  /\ TypeInv /\ LockInv /\ BusyInv /\ StartInv /\ PlanInv
  /\ AgreeInv /\ HandInv /\ AliveInv /\ ShutInv

USE ManagerAssumption

-----------------------------------------------------------------------------
(* Maps and configurations *)

LEMMA PutFacts ==
  ASSUME NEW f, NEW n, NEW v
  PROVE  /\ DOMAIN Put(f, n, v) = DOMAIN f \cup {n} /\ Put(f, n, v)[n] = v
         /\ \A m \in DOMAIN f \ {n} : Put(f, n, v)[m] = f[m]
BY DEF Put

LEMMA DelFacts ==
  ASSUME NEW f, NEW n
  PROVE  /\ DOMAIN Del(f, n) = DOMAIN f \ {n}
         /\ \A m \in DOMAIN f \ {n} : Del(f, n)[m] = f[m]
BY DEF Del

LEMMA PutConfig ==
  ASSUME NEW c, IsConfig(c), NEW n \in Name, NEW v \in Cfg
  PROVE  IsConfig(Put(c, n, v))
BY DEF IsConfig, Put

LEMMA DelConfig ==
  ASSUME NEW c, IsConfig(c), NEW n
  PROVE  IsConfig(Del(c, n))
BY DEF IsConfig, Del

LEMMA EqualSelf == \A c : Equal(c, c)
BY DEF Equal

LEMMA EqualEnabled ==
  ASSUME NEW c \in Cfg, NEW d \in Cfg, Equal(c, d)
  PROVE  c.enabled = d.enabled
<1>1. [c EXCEPT !.minor = 0].enabled = c.enabled /\ [d EXCEPT !.minor = 0].enabled = d.enabled
  BY DEF Cfg
<1>2. QED
  BY <1>1 DEF Equal

LEMMA EqualTrans ==
  ASSUME NEW c, NEW d, NEW e, Equal(c, d), Equal(d, e)
  PROVE  Equal(c, e)
BY DEF Equal

-----------------------------------------------------------------------------
(* Supervisors *)

LEMMA NoSupType == NoSup \in Sup /\ ~NoSup.alive /\ NoSup.state = "stopped" /\ NoCfg \in Cfg
BY DEF NoSup, NoCfg, Sup, Cfg

LEMMA NewType ==
  ASSUME NEW c \in Cfg, NEW b \in BOOLEAN
  PROVE  /\ New(c, b) \in Sup /\ New(c, b).cfg = c /\ New(c, b).state = "stopped"
         /\ ~New(c, b).alive /\ ~New(c, b).ready
BY NoSupType DEF New, NoSup, NoCfg, Sup, Cfg

LEMMA UpType ==
  ASSUME NEW s \in Sup
  PROVE  /\ Up(s) \in Sup /\ Up(s).cfg = s.cfg /\ Up(s).state = "running" /\ Up(s).ready = s.ready
BY DEF Up, Sup

LEMMA FailedType ==
  ASSUME NEW s \in Sup
  PROVE  /\ Failed(s) \in Sup /\ Failed(s).cfg = s.cfg /\ ~Failed(s).alive
BY DEF Failed, Sup

LEMMA DownType ==
  ASSUME NEW s \in Sup, NEW r, r.told \in BOOLEAN
  PROVE  /\ Down(s, r) \in Sup /\ Down(s, r).cfg = s.cfg
         /\ ~Down(s, r).alive /\ Down(s, r).state = "stopped"
BY DEF Down, Sup

LEMMA DroppedType ==
  ASSUME NEW o \in Obj, sup[o] \in Sup, NEW r, r.told \in BOOLEAN
  PROVE  /\ Dropped(o, r) \in Sup /\ ~Dropped(o, r).alive /\ Dropped(o, r).state = "stopped"
<1>1. CASE \E a \in Caller : obj[a] = o
  BY <1>1, DownType DEF Dropped
<1>2. CASE ~\E a \in Caller : obj[a] = o
  <2>1. Dropped(o, r) = [NoSup EXCEPT !.notifying = sup[o].notifying \/ r.told]
    BY <1>2 DEF Dropped
  <2>2. (sup[o].notifying \/ r.told) \in BOOLEAN
    OBVIOUS
  <2>3. QED
    BY <2>1, <2>2, NoSupType DEF Sup, NoSup
<1>3. QED
  BY <1>1, <1>2

LEMMA StopsTypes ==
  /\ \A o : \A r \in Stops(o) : r.ok \in BOOLEAN /\ r.told \in BOOLEAN
  /\ \A n : \A r \in StopsOf(n) : r.ok \in BOOLEAN /\ r.told \in BOOLEAN
<1>1. ASSUME NEW o, NEW r \in Stops(o)
      PROVE  r.ok \in BOOLEAN /\ r.told \in BOOLEAN
  <2>1. r \in [ok : BOOLEAN, told : BOOLEAN]
    BY Zenon DEF Stops
  <2>2. QED
    BY <2>1
<1>2. NothingToStop.ok \in BOOLEAN /\ NothingToStop.told \in BOOLEAN
  BY DEF NothingToStop
<1>3. QED
  BY <1>1, <1>2 DEF StopsOf

LEMMA StartsTypes ==
  ASSUME scn \in Scenarios
  PROVE  /\ StartOK \subseteq BOOLEAN
         /\ \A c : StartsOf(c) \subseteq BOOLEAN
         /\ \A c : ~c.enabled => StartsOf(c) = {TRUE}
BY DEF StartOK, StartsOf

LEMMA NewObjFacts ==
  ASSUME HasRoom
  PROVE  NewObj \in Obj /\ ~sup[NewObj].alive /\ \A n \in DOMAIN reg : reg[n] # NewObj
<1>1. Unused(NewObj) /\ NewObj \in Obj
  BY DEF HasRoom, NewObj
<1>2. QED
  BY <1>1 DEF Unused

\* What an operation on process n does to the maps: the others keep their
\* supervisors, and nothing lives that did not before but the supervisor of n.
OnlyOf(n) ==
  /\ DOMAIN reg' \subseteq DOMAIN reg \cup {n}
  /\ \A m \in DOMAIN reg \ {n} : m \in DOMAIN reg' /\ reg'[m] = reg[m] /\ sup'[reg[m]] = sup[reg[m]]
  /\ \A o \in Obj : sup'[o].alive =>
       \/ n \in DOMAIN reg' /\ o = reg'[n]
       \/ sup[o].alive /\ ~(n \in DOMAIN reg /\ o = reg[n])

\* The map of supervisors changes in one place.
Becomes(old, o, s) == sup' = [old EXCEPT ![o] = s]

LEMMA DownEffect ==
  ASSUME SupTypes, NEW n \in DOMAIN reg, NEW r, r.told \in BOOLEAN,
         Becomes(sup, reg[n], Down(sup[reg[n]], r)), UNCHANGED reg
  PROVE  /\ SupTypes' /\ OnlyOf(n) /\ ~sup'[reg'[n]].alive /\ sup'[reg'[n]].state = "stopped"
         /\ sup'[reg'[n]].cfg = sup[reg[n]].cfg
<1>1. reg[n] \in Obj /\ sup[reg[n]] \in Sup
  BY DEF SupTypes
<1>2. PICK s \in Sup : s = Down(sup[reg[n]], r) /\ s.cfg = sup[reg[n]].cfg /\ ~s.alive /\ s.state = "stopped"
  BY <1>1, DownType
<1>3. sup' = [sup EXCEPT ![reg[n]] = s]
  BY <1>2 DEF Becomes
<1>4. SupTypes'
  BY <1>1, <1>2, <1>3 DEF SupTypes
<1>5. OnlyOf(n)
  BY <1>1, <1>2, <1>3 DEF SupTypes, OnlyOf
<1>6. QED
  BY <1>1, <1>2, <1>3, <1>4, <1>5 DEF SupTypes

LEMMA DropEffect ==
  ASSUME SupTypes, NEW n \in DOMAIN reg, NEW r, r.told \in BOOLEAN,
         Becomes(sup, reg[n], Dropped(reg[n], r)), reg' = Del(reg, n)
  PROVE  SupTypes' /\ OnlyOf(n) /\ n \notin DOMAIN reg'
<1>1. reg[n] \in Obj /\ sup[reg[n]] \in Sup
  BY DEF SupTypes
<1>2. PICK s \in Sup : s = Dropped(reg[n], r) /\ ~s.alive
  BY <1>1, DroppedType
<1>3. sup' = [sup EXCEPT ![reg[n]] = s]
  BY <1>2 DEF Becomes
<1>4. DOMAIN reg' = DOMAIN reg \ {n} /\ \A m \in DOMAIN reg \ {n} : reg'[m] = reg[m]
  BY DelFacts
<1>5. reg' \in [DOMAIN reg' -> Obj]
  BY <1>4 DEF Del, SupTypes
<1>6. SupTypes'
  BY <1>1, <1>2, <1>3, <1>4, <1>5 DEF SupTypes
<1>7. OnlyOf(n)
  BY <1>1, <1>2, <1>3, <1>4 DEF SupTypes, OnlyOf
<1>8. QED
  BY <1>4, <1>6, <1>7

\* In old, the supervisor of n, if it has one, has no process; the others are as they are.
Gone(n, old) ==
  /\ \A o \in Obj : n \in DOMAIN reg /\ o = reg[n] => ~old[o].alive
  /\ \A o \in Obj : ~(n \in DOMAIN reg /\ o = reg[n]) => old[o] = sup[o]

\* A new supervisor s is put in the place of n, whose old one is no more or never was.
LEMMA PlaceEffect ==
  ASSUME SupTypes, NEW n \in Name, NEW old \in [Obj -> Sup], NEW s \in Sup, HasRoom,
         s.alive => s.state = "running",
         Gone(n, old),
         Becomes(old, NewObj, s), reg' = Put(reg, n, NewObj)
  PROVE  SupTypes' /\ OnlyOf(n) /\ n \in DOMAIN reg' /\ sup'[reg'[n]] = s /\ reg'[n] = NewObj
<1>1. PICK x \in Obj : x = NewObj /\ ~sup[x].alive /\ \A m \in DOMAIN reg : reg[m] # x
  BY NewObjFacts
<1>2. sup' = [old EXCEPT ![x] = s]
  BY <1>1 DEF Becomes
<1>3. /\ DOMAIN reg' = DOMAIN reg \cup {n} /\ reg'[n] = x
      /\ \A m \in DOMAIN reg \ {n} : reg'[m] = reg[m]
  BY <1>1 DEF Put
<1>4. reg' \in [DOMAIN reg' -> Obj]
  BY <1>1, <1>3 DEF Put, SupTypes
<1>5. \A o \in Obj : old[o].alive => old[o].state = "running"
  BY DEF SupTypes, Gone
<1>6. SupTypes'
  BY <1>1, <1>2, <1>3, <1>4, <1>5 DEF SupTypes
<1>7. OnlyOf(n)
  BY <1>1, <1>2, <1>3 DEF SupTypes, OnlyOf, Gone
<1>8. QED
  BY <1>1, <1>2, <1>3, <1>6, <1>7

LEMMA LaunchEffect ==
  ASSUME SupTypes, NEW n \in Name, NEW c \in Cfg, NEW old \in [Obj -> Sup],
         Gone(n, old),
         Launch(n, c, old)
  PROVE  SupTypes' /\ OnlyOf(n) /\ n \in DOMAIN reg' /\ sup'[reg'[n]].cfg = c
<1>0. New(c, FALSE) \in Sup /\ New(c, FALSE).cfg = c
  BY NewType
<1>1. PICK s \in Sup : s = Up(New(c, FALSE)) /\ s.cfg = c /\ s.state = "running"
  BY <1>0, UpType
<1>2. HasRoom /\ Becomes(old, NewObj, s) /\ reg' = Put(reg, n, NewObj)
  BY <1>1 DEF Launch, Becomes
<1>3. SupTypes' /\ OnlyOf(n) /\ n \in DOMAIN reg' /\ sup'[reg'[n]] = s
  BY <1>1, <1>2, PlaceEffect
<1>4. QED
  BY <1>1, <1>3

LEMMA ApplyEffect ==
  ASSUME SupTypes, scn \in Scenarios, NEW n \in Name, NEW c \in Cfg,
         NEW r \in StopsOf(n), NEW up \in StartsOf(c), Apply(n, c, r, up)
  PROVE  /\ SupTypes' /\ OnlyOf(n)
         /\ r.ok /\ up => (n \in DOMAIN reg' <=> c.enabled) /\ (n \in DOMAIN reg' => sup'[reg'[n]].cfg = c)
         /\ n \in DOMAIN reg' => n \in DOMAIN reg \/ (c.enabled /\ up)
         /\ n \in DOMAIN reg' /\ sup'[reg'[n]].state # "stopped" => c.enabled /\ up /\ r.ok
         /\ failed' = (failed \/ ~(r.ok /\ up))
<1>0. failed' = (failed \/ ~(r.ok /\ up)) /\ r.told \in BOOLEAN /\ c.enabled \in BOOLEAN /\ (~c.enabled => up)
      /\ (n \notin DOMAIN reg => r.ok)
  <2>1. failed' = (failed \/ ~(r.ok /\ up))
    BY DEF Apply, Note
  <2>2. r.told \in BOOLEAN
    BY StopsTypes
  <2>3. c.enabled \in BOOLEAN
    BY DEF Cfg
  <2>4. ~c.enabled => up
    BY DEF StartsOf
  <2>5. n \notin DOMAIN reg => r.ok
    BY DEF StopsOf, NothingToStop
  <2>6. QED
    BY <2>1, <2>2, <2>3, <2>4, <2>5
<1>1. CASE n \notin DOMAIN reg
  <2>1. CASE c.enabled /\ up
    <3>1. Launch(n, c, sup)
      BY <1>1, <2>1 DEF Apply
    <3>2. sup \in [Obj -> Sup]
      BY DEF SupTypes
    <3>3. Gone(n, sup)
      BY <1>1 DEF Gone
    <3>4. SupTypes' /\ OnlyOf(n) /\ n \in DOMAIN reg' /\ sup'[reg'[n]].cfg = c
      BY <3>1, <3>2, <3>3, LaunchEffect
    <3>5. QED
      BY <1>0, <1>1, <2>1, <3>4
  <2>2. CASE ~(c.enabled /\ up)
    <3>1. UNCHANGED <<sup, reg>>
      BY <1>1, <2>2 DEF Apply
    <3>2. QED
      BY <1>0, <1>1, <2>2, <3>1 DEF SupTypes, OnlyOf
  <2>3. QED
    BY <2>1, <2>2
<1>2. CASE n \in DOMAIN reg
  <2>0. Replace(n, c, r, up)
    BY <1>2 DEF Apply
  <2>1. CASE ~r.ok \/ (c.enabled /\ ~up)
    <3>1. Becomes(sup, reg[n], Down(sup[reg[n]], r)) /\ UNCHANGED reg
      BY <2>0, <2>1 DEF Replace, Becomes
    <3>2. /\ SupTypes' /\ OnlyOf(n) /\ ~sup'[reg'[n]].alive /\ sup'[reg'[n]].state = "stopped"
          /\ sup'[reg'[n]].cfg = sup[reg[n]].cfg
      BY <1>0, <1>2, <3>1, DownEffect
    <3>3. QED
      BY <1>0, <1>2, <2>1, <3>1, <3>2
  <2> DEFINE old == [sup EXCEPT ![reg[n]] = Dropped(reg[n], r)]
  <2>2. CASE r.ok /\ c.enabled /\ up
    <3>1. Launch(n, c, old)
      BY <2>0, <2>2 DEF Replace
    <3>2. reg[n] \in Obj /\ sup[reg[n]] \in Sup /\ sup \in [Obj -> Sup]
      BY <1>2 DEF SupTypes
    <3>3. PICK s \in Sup : s = Dropped(reg[n], r) /\ ~s.alive
      BY <1>0, <3>2, DroppedType
    <3>4. /\ old \in [Obj -> Sup] /\ ~old[reg[n]].alive
          /\ \A o \in Obj : o # reg[n] => old[o] = sup[o]
      BY <3>2, <3>3
    <3> HIDE DEF old
    <3>5. Gone(n, old)
      BY <1>2, <3>4 DEF Gone
    <3>6. SupTypes' /\ OnlyOf(n) /\ n \in DOMAIN reg' /\ sup'[reg'[n]].cfg = c
      BY <3>1, <3>4, <3>5, LaunchEffect
    <3>7. QED
      BY <1>0, <2>2, <3>6
  <2>3. CASE r.ok /\ ~c.enabled
    <3>1. Becomes(sup, reg[n], Dropped(reg[n], r)) /\ reg' = Del(reg, n)
      BY <2>0, <2>3 DEF Replace, Becomes
    <3>2. SupTypes' /\ OnlyOf(n) /\ n \notin DOMAIN reg'
      BY <1>0, <1>2, <3>1, DropEffect
    <3>3. QED
      BY <1>0, <2>3, <3>2
  <2>4. QED
    BY <1>0, <2>1, <2>2, <2>3
<1>3. QED
  BY <1>1, <1>2

-----------------------------------------------------------------------------
(* Steps that leave goroutines and maps alone *)

Calm ==
  /\ UNCHANGED <<scn, config, reg, jobs, schedOn, mu, pc, flow, overlap, failed>>
  /\ sup' \in [Obj -> Sup]
  /\ \A o \in Obj : /\ sup'[o].cfg = sup[o].cfg /\ sup'[o].state = sup[o].state
                    /\ sup'[o].alive => sup[o].alive
                    /\ sup[o].ready => sup'[o].ready
  /\ jobRuns' \in BOOLEAN /\ (jobRuns' => jobRuns \/ schedOn)
  /\ file'.ok \in BOOLEAN /\ IsConfig(file'.procs)
  /\ deaths' \in 0..DeathCap /\ draining' \in BOOLEAN

SupKept ==
  /\ sup' \in [Obj -> Sup]
  /\ \A o \in Obj : /\ sup'[o].cfg = sup[o].cfg /\ sup'[o].state = sup[o].state
                    /\ sup'[o].alive => sup[o].alive
                    /\ sup[o].ready => sup'[o].ready

LEMMA SupUnchanged ==
  ASSUME SupTypes, UNCHANGED sup
  PROVE  SupKept
BY DEF SupKept, SupTypes

LEMMA SupUpdate ==
  ASSUME SupTypes, NEW o \in Obj, NEW s \in Sup, sup' = [sup EXCEPT ![o] = s],
         s.cfg = sup[o].cfg, s.state = sup[o].state, s.alive => sup[o].alive, sup[o].ready => s.ready
  PROVE  SupKept
BY DEF SupKept, SupTypes

LEMMA CalmSteps ==
  ASSUME TypeInv,
         \/ Notice \/ JobEnds \/ Death \/ Signal \/ DebounceOver \/ JobFires
         \/ \E f \in scn.files : Edit(f)
         \/ \E o \in Obj : Dies(o) \/ BecomesReady(o)
         \/ UNCHANGED vars
  PROVE  Calm
<1> USE DEF TypeInv
<1>1. CASE UNCHANGED vars
  BY <1>1, SupUnchanged DEF vars, conf, sched, flow, death, watch, Calm, SupKept, RestTypes
<1>2. CASE Notice
  BY <1>2, SupUnchanged DEF Notice, conf, sched, flow, death, watch, Calm, SupKept, RestTypes
<1>3. CASE JobEnds
  BY <1>3, SupUnchanged DEF JobEnds, conf, sched, flow, death, watch, Calm, SupKept, RestTypes
<1>4. CASE Signal
  BY <1>4, SupUnchanged DEF Signal, conf, sched, flow, death, watch, Calm, SupKept, RestTypes
<1>5. CASE DebounceOver
  BY <1>5, SupUnchanged DEF DebounceOver, conf, sched, flow, death, watch, Calm, SupKept, RestTypes
<1>6. CASE JobFires
  BY <1>6, SupUnchanged DEF JobFires, conf, sched, flow, death, watch, Calm, SupKept, RestTypes
<1>7. ASSUME NEW f \in scn.files, Edit(f)
      PROVE  Calm
  <2>1. f.ok \in BOOLEAN /\ IsConfig(f.procs)
    BY DEF RestTypes, IsScenario
  <2>2. QED
    BY <1>7, <2>1, SupUnchanged DEF Edit, conf, sched, flow, death, watch, Calm, SupKept, RestTypes
<1>8. ASSUME NEW o \in Obj, Dies(o)
      PROVE  Calm
  <2>1. sup[o] \in Sup
    BY DEF SupTypes
  <2>2. PICK s \in Sup : s = [sup[o] EXCEPT !.alive = FALSE, !.notifying = sup[o].notifier]
    BY <2>1 DEF Sup
  <2>3. s.cfg = sup[o].cfg /\ s.state = sup[o].state /\ ~s.alive /\ s.ready = sup[o].ready
    BY <2>1, <2>2 DEF Sup
  <2>4. sup' = [sup EXCEPT ![o] = s]
    BY <1>8, <2>2, <2>1 DEF Dies, SupTypes
  <2>5. SupKept
    BY <2>3, <2>4, SupUpdate
  <2>6. QED
    BY <1>8, <2>5 DEF Dies, conf, sched, flow, death, watch, Calm, SupKept, RestTypes
<1>9. ASSUME NEW o \in Obj, BecomesReady(o)
      PROVE  Calm
  <2>1. sup[o] \in Sup
    BY DEF SupTypes
  <2>2. PICK s \in Sup : s = [sup[o] EXCEPT !.ready = TRUE]
    BY <2>1 DEF Sup
  <2>3. s.cfg = sup[o].cfg /\ s.state = sup[o].state /\ s.alive = sup[o].alive /\ s.ready
    BY <2>1, <2>2 DEF Sup
  <2>4. sup' = [sup EXCEPT ![o] = s]
    BY <1>9, <2>2, <2>1 DEF BecomesReady, SupTypes
  <2>5. SupKept
    BY <2>3, <2>4, SupUpdate
  <2>6. QED
    BY <1>9, <2>5 DEF BecomesReady, conf, sched, flow, death, watch, Calm, SupKept, RestTypes
<1>10. ASSUME NEW o \in Obj, NotifySend(o) \/ NotifyCheck(o)
       PROVE  Calm
  <2>1. sup[o] \in Sup
    BY DEF SupTypes
  <2>2. PICK s \in Sup : s = [sup[o] EXCEPT !.notifying = FALSE]
    BY <2>1 DEF Sup
  <2>3. s.cfg = sup[o].cfg /\ s.state = sup[o].state /\ s.alive = sup[o].alive /\ s.ready = sup[o].ready
    BY <2>1, <2>2 DEF Sup
  <2>4. sup' = [sup EXCEPT ![o] = s]
    BY <1>10, <2>2, <2>1 DEF NotifySend, NotifyCheck, SupTypes
  <2>5. SupKept
    BY <2>3, <2>4, SupUpdate
  <2>6. deaths' \in 0..DeathCap
    BY <1>10 DEF NotifySend, NotifyCheck, RestTypes
  <2>7. QED
    BY <1>10, <2>5, <2>6 DEF NotifySend, NotifyCheck, conf, sched, flow, death, watch, Calm, SupKept, RestTypes
<1>11. CASE Drain
  <2>1. deaths' \in 0..DeathCap
    BY <1>11 DEF Drain, RestTypes
  <2>2. QED
    BY <1>11, <2>1, SupUnchanged DEF Drain, conf, sched, flow, death, watch, Calm, SupKept, RestTypes
<1>12. CASE DrainCheck
  BY <1>12, SupUnchanged DEF DrainCheck, conf, sched, flow, death, watch, Calm, SupKept, RestTypes
<1>13. QED
  BY <1>1, <1>2, <1>3, <1>4, <1>5, <1>6, <1>7, <1>8, <1>9, <1>10, <1>11, <1>12 DEF Death

LEMMA CalmKeeps ==
  ASSUME ManagerInv, Calm
  PROVE  ManagerInv'
<1> USE DEF ManagerInv
<1>1. TypeInv'
  BY DEF TypeInv, FlowTypes, RestTypes, SupTypes, Calm, flow
<1>2. LockInv' /\ BusyInv'
  BY DEF LockInv, BusyInv, Busy, Calm
<1>3. Pending' = Pending /\ Missing' = Missing
  BY DEF Pending, Missing, Calm, flow
<1>4. \A n \in DOMAIN reg : reg[n] \in Obj
  BY DEF TypeInv, SupTypes
<1>5. StartInv'
  <2>1. \A n \in DOMAIN reg : IsReady(reg[n]) => IsReady(reg[n])'
    BY <1>4 DEF IsReady, Calm
  <2>2. DependenciesUp'
    BY <2>1 DEF StartInv, DependenciesUp, Calm
  <2>3. QED
    BY <2>2 DEF StartInv, Calm, flow, Enabled
<1>6. PlanInv'
  BY DEF PlanInv, Calm, flow
<1>7. AgreeInv'
  BY <1>3, <1>4 DEF AgreeInv, Calm, Exited
<1>8. HandInv'
  BY DEF HandInv, Calm, flow, N, Enabled
<1>9. AliveInv'
  BY <1>3, <1>4 DEF AliveInv, Calm, Enabled
<1>10. ShutInv'
  <2>1. Broken(config)' = Broken(config)
    BY DEF Calm, Broken, Enabled
  <2>2. QED
    BY <1>4, <2>1 DEF ShutInv, Calm, flow
<1>11. QED
  BY <1>1, <1>2, <1>5, <1>6, <1>7, <1>8, <1>9, <1>10

-----------------------------------------------------------------------------
(* Steps of one goroutine *)

\* Goroutine a goes on at l.
Goes(a, l) == pc' = [pc EXCEPT ![a] = l]

LEMMA GoesTo ==
  ASSUME FlowTypes, NEW a \in Actor, NEW l, Goes(a, l)
  PROVE  /\ pc'[a] = l /\ \A b \in Actor \ {a} : pc'[b] = pc[b]
         /\ Main \in Actor /\ Main \notin Caller /\ Free \notin Actor
BY DEF Goes, FlowTypes, Actor, Main, Free

LEMMA GoesTypes ==
  ASSUME FlowTypes, NEW a \in Actor, NEW l, Goes(a, l),
         IF a = Main THEN l \in MainAt ELSE l \in CallerAt
  PROVE  /\ pc' \in [Actor -> MainAt \cup CallerAt]
         /\ pc'[Main] \in MainAt /\ \A b \in Caller : pc'[b] \in CallerAt
BY GoesTo DEF Goes, FlowTypes, Actor

LEMMA Alone ==
  ASSUME LockInv, FlowTypes, NEW a \in Actor, mu = Free \/ pc[a] \in Locked
  PROVE  \A b \in Actor \ {a} : pc[b] \notin Locked
BY DEF LockInv, Actor, Main, Free

LEMMA LockStep ==
  ASSUME LockInv, FlowTypes, NEW a \in Actor, NEW l, Goes(a, l),
         \/ mu' = mu /\ (l \in Locked => pc[a] \in Locked)
         \/ mu = Free /\ mu' = a
         \/ pc[a] \in Locked /\ l \notin Locked
  PROVE  LockInv'
BY Alone, GoesTo DEF LockInv

LEMMA BusyStep ==
  ASSUME BusyInv, FlowTypes, NEW a \in Actor, NEW l, Goes(a, l),
         l \in {"boot", "starting"} => a = Main /\ pc[Main] \in {"boot", "starting"},
         pc[Main] \in {"boot", "starting"} => a = Main,
         ~overlap' => ~overlap /\ (Busy(a) \/ \A b \in Actor \ {a} : ~Busy(b))
  PROVE  BusyInv'
<1>1. /\ pc'[a] = l /\ \A b \in Actor \ {a} : pc'[b] = pc[b]
      /\ Main \in Actor /\ Main \notin Caller /\ Caller \subseteq Actor
  BY GoesTo DEF Actor
<1>2. \A b \in Actor \ {a} : Busy(b)' = Busy(b)
  BY <1>1 DEF Busy
<1>3. pc'[Main] \in {"boot", "starting"} => \A b \in Caller : pc'[b] = "idle"
  BY <1>1 DEF BusyInv
<1>4. ASSUME ~overlap', NEW b \in Actor, NEW c \in Actor, Busy(b)', Busy(c)'
      PROVE  b = c
  <2>1. \A d, e \in Actor : Busy(d) /\ Busy(e) => d = e
    BY <1>4 DEF BusyInv
  <2>2. \A d \in Actor \ {a} : ~Busy(d)
    BY <1>4, <2>1
  <2>3. QED
    BY <1>2, <1>4, <2>2
<1>5. QED
  BY <1>3, <1>4 DEF BusyInv

\* A step at which nobody begins or ends to start or to reload.
Ordinary == (MainAt \cup CallerAt) \ {"boot", "starting", "removing", "replacing"}

LEMMA TurnKeeps ==
  ASSUME ManagerInv, NEW a \in Actor, NEW l, Goes(a, l), {pc[a], l} \subseteq Ordinary,
         pc[Main] \notin {"boot", "starting"}, Exited => Exited',
         UNCHANGED <<config, reg, jobs, plan>>, failed => failed',
         \A n \in DOMAIN reg : sup'[reg[n]].cfg = sup[reg[n]].cfg
  PROVE  StartInv' /\ PlanInv' /\ AgreeInv' /\ UNCHANGED <<Pending, Missing>>
<1>1. FlowTypes
  BY DEF ManagerInv, TypeInv
<1>2. Main \in Actor /\ pc'[a] = l /\ \A b \in Actor \ {a} : pc'[b] = pc[b]
  BY <1>1, GoesTo
<1>0. pc[a] \notin {"removing", "replacing"} /\ l \notin {"boot", "starting", "removing", "replacing"}
  BY DEF Ordinary
<1>3. pc'[Main] \notin {"boot", "starting"}
  BY <1>0, <1>2
<1>4. \A b \in Actor : /\ pc'[b] = "removing" <=> pc[b] = "removing"
                       /\ pc'[b] = "replacing" <=> pc[b] = "replacing"
  BY <1>0, <1>2
<1>5. UNCHANGED <<Pending, Missing>>
  BY <1>3, <1>4 DEF Pending, Missing
<1>6. StartInv'
  BY <1>3 DEF StartInv, DependenciesUp
<1>7. PlanInv'
  BY <1>4 DEF ManagerInv, PlanInv
<1>8. AgreeInv'
  BY <1>3, <1>5 DEF ManagerInv, AgreeInv
<1>9. QED
  BY <1>5, <1>6, <1>7, <1>8

LEMMA HandKeeps ==
  ASSUME HandInv, ~overlap' => ~overlap, UNCHANGED <<config, reg>>,
         \A b \in Caller : pc'[b] \in {"startAct", "restartAct"} =>
           /\ pc[b] \in {"startAct", "restartAct"}
           /\ call'[b] = call[b] /\ obj'[b] = obj[b]
  PROVE  HandInv'
BY DEF HandInv, N, Enabled

LEMMA AliveKeeps ==
  ASSUME AliveInv, SupTypes, ~overlap' => ~overlap, UNCHANGED <<config, reg, Pending>>,
         \A o \in Obj : /\ sup'[o].alive => sup[o].alive
                        /\ sup'[o].state # "stopped" => sup[o].state # "stopped"
  PROVE  AliveInv'
<1>1. \A n \in DOMAIN reg : reg[n] \in Obj
  BY DEF SupTypes
<1>2. QED
  BY <1>1 DEF AliveInv, Enabled

LEMMA ShutKeeps ==
  ASSUME ShutInv, SupTypes, ~overlap' => ~overlap, pc'[Main] = pc[Main],
         UNCHANGED <<config, reg, schedOn, jobRuns, left>>,
         \A o \in Obj : sup'[o].alive => sup[o].alive
  PROVE  ShutInv'
<1>1. \A n \in DOMAIN reg : reg[n] \in Obj
  BY DEF SupTypes
<1>2. Broken(config)' = Broken(config)
  BY DEF Broken, Enabled
<1>3. QED
  BY <1>1, <1>2 DEF ShutInv

-----------------------------------------------------------------------------
(* API requests that leave the maps alone *)

Steady == UNCHANGED <<scn, config, reg, sched, mu, left, plan, stopErr, signal, death, watch>>

LEMMA CallerTurn ==
  ASSUME ManagerInv, NEW a \in Caller, NEW l, Goes(a, l), {pc[a], l} \subseteq Ordinary, l \in CallerAt,
         pc[Main] \notin {"boot", "starting"}, Steady, overlap' \in BOOLEAN, failed' \in BOOLEAN,
         ~overlap' => ~overlap /\ (Busy(a) \/ \A b \in Actor \ {a} : ~Busy(b)), failed => failed',
         \A n \in DOMAIN reg : sup'[reg[n]].cfg = sup[reg[n]].cfg
  PROVE  /\ RestTypes' /\ LockInv' /\ BusyInv' /\ StartInv' /\ PlanInv' /\ AgreeInv'
         /\ UNCHANGED <<Pending, Missing>>
         /\ pc' \in [Actor -> MainAt \cup CallerAt] /\ pc'[Main] = pc[Main] /\ pc'[Main] \in MainAt
         /\ pc'[a] = l /\ \A b \in Caller \ {a} : pc'[b] = pc[b]
         /\ \A b \in Caller : pc'[b] \in CallerAt
<1>1. FlowTypes /\ RestTypes /\ LockInv /\ BusyInv
  BY DEF ManagerInv, TypeInv
<1>2. /\ pc'[a] = l /\ \A b \in Actor \ {a} : pc'[b] = pc[b]
      /\ Main \in Actor /\ Main # a /\ a \in Actor /\ Caller \subseteq Actor
  BY <1>1, GoesTo DEF Actor
<1>3. /\ pc' \in [Actor -> MainAt \cup CallerAt] /\ pc'[Main] \in MainAt
      /\ \A b \in Caller : pc'[b] \in CallerAt
  BY <1>1, <1>2, GoesTypes
<1>4. l \notin {"boot", "starting", "removing", "replacing"} /\ l \notin Locked
  BY DEF Ordinary, CallerAt, Locked
<1>5. LockInv'
  BY <1>1, <1>2, <1>4, LockStep DEF Steady
<1>6. BusyInv'
  BY <1>1, <1>2, <1>4, BusyStep
<1>7. Exited => Exited'
  BY <1>2 DEF Exited
<1>8. StartInv' /\ PlanInv' /\ AgreeInv' /\ UNCHANGED <<Pending, Missing>>
  BY <1>2, <1>7, TurnKeeps DEF Steady, sched
<1>9. RestTypes'
  BY <1>1 DEF RestTypes, Steady, sched, death, watch
<1>10. QED
  BY <1>2, <1>3, <1>5, <1>6, <1>8, <1>9

LEMMA SupSame ==
  ASSUME SupTypes, UNCHANGED <<sup, reg>>
  PROVE  /\ SupTypes' /\ \A n \in DOMAIN reg : sup'[reg[n]].cfg = sup[reg[n]].cfg
         /\ \A o \in Obj : /\ sup'[o].alive => sup[o].alive
                           /\ sup'[o].state # "stopped" => sup[o].state # "stopped"
BY DEF SupTypes

\* What is left to show of a request's step that changes no supervisor.
LEMMA RequestTurn ==
  ASSUME ManagerInv, NEW a \in Caller, NEW l, Goes(a, l), {pc[a], l} \subseteq Ordinary, l \in CallerAt,
         pc[Main] \notin {"boot", "starting"}, Steady, UNCHANGED <<sup, failed>>, overlap' \in BOOLEAN,
         ~overlap' => ~overlap /\ (Busy(a) \/ \A b \in Actor \ {a} : ~Busy(b)),
         call' = [b \in Caller |-> call'[b]], obj' \in [Caller -> Obj \cup {0}], rest' \in [Caller -> SUBSET Name],
         \A b \in Caller \ {a} : call'[b] = call[b] /\ obj'[b] = obj[b],
         l \in {"add", "update"} => call'[a].name \in Name /\ call'[a].cfg \in Cfg,
         l \in HandAt => obj'[a] \in Obj,
         ~overlap' /\ l \in {"startAct", "restartAct"} =>
           call'[a].name \in DOMAIN reg /\ obj'[a] = reg[call'[a].name] /\ call'[a].name \in Enabled(config)
  PROVE  ManagerInv'
<1>1. FlowTypes /\ RestTypes /\ SupTypes /\ HandInv /\ AliveInv /\ ShutInv
  BY DEF ManagerInv, TypeInv
<1>2. UNCHANGED <<config, reg, schedOn, jobRuns, left, plan>>
  BY DEF Steady, sched
<1>3. /\ SupTypes' /\ \A n \in DOMAIN reg : sup'[reg[n]].cfg = sup[reg[n]].cfg
      /\ \A o \in Obj : /\ sup'[o].alive => sup[o].alive
                        /\ sup'[o].state # "stopped" => sup[o].state # "stopped"
  BY <1>1, <1>2, SupSame
<1>4. failed' \in BOOLEAN /\ (failed => failed') /\ (~overlap' => ~overlap)
  BY <1>1 DEF RestTypes
<1>5. /\ RestTypes' /\ LockInv' /\ BusyInv' /\ StartInv' /\ PlanInv' /\ AgreeInv'
      /\ UNCHANGED <<Pending, Missing>>
      /\ pc' \in [Actor -> MainAt \cup CallerAt] /\ pc'[Main] = pc[Main] /\ pc'[Main] \in MainAt
      /\ pc'[a] = l /\ \A b \in Caller \ {a} : pc'[b] = pc[b]
  BY <1>3, <1>4, CallerTurn
<1>6. \A b \in Caller : pc'[b] \in CallerAt
  BY <1>3, <1>4, CallerTurn
<1>7. FlowTypes'
  BY <1>1, <1>2, <1>5, <1>6 DEF FlowTypes
<1>8. HandInv'
  BY <1>1, <1>2, <1>4, <1>5 DEF HandInv, N, Enabled
<1>9. AliveInv'
  BY <1>1, <1>2, <1>3, <1>4, <1>5, AliveKeeps
<1>10. ShutInv'
  BY <1>1, <1>2, <1>3, <1>4, <1>5, ShutKeeps
<1>11. QED
  BY <1>3, <1>5, <1>7, <1>8, <1>9, <1>10 DEF ManagerInv, TypeInv

LEMMA CallStep ==
  ASSUME ManagerInv, NEW a \in Caller, NEW r \in scn.requests, Call(a, r)
  PROVE  ManagerInv'
<1>1. FlowTypes /\ RestTypes /\ a \in Actor /\ a # Main
  BY DEF ManagerInv, TypeInv, Actor, Main
<1>2. r \in Request
  BY <1>1 DEF RestTypes, IsScenario
<1>3. r.op \in {"start", "stop", "restart", "remove", "reload", "add", "update"}
  BY <1>2 DEF Request
<1>4. r.op \in {"add", "update"} => r.name \in Name /\ r.cfg \in Cfg
  BY <1>2 DEF Request
<1>5. /\ Goes(a, r.op) /\ pc[a] = "idle" /\ pc[Main] \notin {"boot", "starting"}
      /\ call' = [call EXCEPT ![a] = r] /\ UNCHANGED <<sup, failed, obj, rest>> /\ Steady
  BY DEF Call, Goto, Goes, Serving, conf, Steady
<1>6. overlap' \in BOOLEAN /\ (~overlap' => ~overlap /\ \A b \in Actor \ {a} : ~Busy(b))
  BY DEF Call
<1>7. {pc[a], r.op} \subseteq Ordinary /\ r.op \in CallerAt
  BY <1>3, <1>5 DEF Ordinary, CallerAt, MainAt
<1>8. /\ call'[a] = r /\ call' = [b \in Caller |-> call'[b]]
      /\ \A b \in Caller \ {a} : call'[b] = call[b]
  BY <1>1, <1>5 DEF FlowTypes
<1>9. r.op \notin {"startAct", "restartAct"} /\ r.op \notin HandAt
  BY <1>3 DEF HandAt
<1>10. obj' \in [Caller -> Obj \cup {0}] /\ rest' \in [Caller -> SUBSET Name] /\ \A b \in Caller \ {a} : obj'[b] = obj[b]
  BY <1>1, <1>5 DEF FlowTypes
<1>11. QED
  BY <1>4, <1>5, <1>6, <1>7, <1>8, <1>9, <1>10, RequestTurn

\* Return clears what the request had in hand.
LEMMA ReturnFacts ==
  ASSUME FlowTypes, NEW a \in Caller, Return(a)
  PROVE  /\ Goes(a, After(a)) /\ After(a) \in {"idle", "restartAll"}
         /\ call' = [b \in Caller |-> call'[b]] /\ obj' \in [Caller -> Obj \cup {0}]
         /\ \A b \in Caller \ {a} : call'[b] = call[b] /\ obj'[b] = obj[b]
<1>1. a # Main
  BY DEF Main
<1>2. call' = [call EXCEPT ![a] = NoCall] /\ obj' = [obj EXCEPT ![a] = 0] /\ Goes(a, After(a))
  BY DEF Return, Goto, Goes
<1>3. QED
  BY <1>1, <1>2 DEF FlowTypes, After

LEMMA RequestReturns ==
  ASSUME ManagerInv, NEW a \in Caller, Return(a), Serving, pc[a] \in Ordinary, pc[a] # "idle",
         Steady, UNCHANGED <<sup, failed, overlap, rest>>
  PROVE  ManagerInv'
<1>1. FlowTypes /\ RestTypes /\ a \in Actor /\ a # Main /\ pc[Main] \notin {"boot", "starting"}
  BY DEF ManagerInv, TypeInv, Actor, Main, Serving
<1>2. PICK l \in {"idle", "restartAll"} : l = After(a)
  BY <1>1, ReturnFacts
<1>3. /\ Goes(a, l) /\ call' = [b \in Caller |-> call'[b]] /\ obj' \in [Caller -> Obj \cup {0}]
      /\ \A b \in Caller \ {a} : call'[b] = call[b] /\ obj'[b] = obj[b]
  BY <1>1, <1>2, ReturnFacts
<1>4. {pc[a], l} \subseteq Ordinary /\ l \in CallerAt
  BY <1>2 DEF Ordinary, CallerAt, MainAt
<1>5. l \notin {"add", "update"} /\ l \notin HandAt /\ l \notin {"startAct", "restartAct"}
  BY <1>2 DEF HandAt
<1>6. overlap' \in BOOLEAN /\ (~overlap' => ~overlap) /\ Busy(a) /\ rest' \in [Caller -> SUBSET Name]
  BY <1>1 DEF RestTypes, FlowTypes, Busy
<1>7. QED
  BY <1>1, <1>3, <1>4, <1>5, <1>6, RequestTurn

LEMMA StartLookupStep ==
  ASSUME ManagerInv, NEW a \in Caller, StartLookup(a)
  PROVE  ManagerInv'
<1>1. FlowTypes /\ RestTypes /\ SupTypes /\ a \in Actor /\ a # Main /\ pc[a] = "start" /\ pc[Main] \notin {"boot", "starting"} /\ Serving
  BY DEF ManagerInv, TypeInv, Actor, Main, StartLookup, Lookup, Serving
<1>2. Steady /\ UNCHANGED <<sup, failed, overlap, rest>> /\ pc[a] \in Ordinary
  BY <1>1 DEF StartLookup, Steady, conf, Ordinary, CallerAt
<1>3. CASE Return(a)
  BY <1>1, <1>2, <1>3, RequestReturns
<1>4. CASE ~Return(a)
  <2>1. /\ N(a) \in DOMAIN reg /\ N(a) \in DOMAIN config /\ config[N(a)].enabled
        /\ Goes(a, "startAct") /\ obj' = [obj EXCEPT ![a] = reg[N(a)]] /\ UNCHANGED call
    BY <1>4 DEF StartLookup, Goto, Goes
  <2>2. /\ obj'[a] = reg[N(a)] /\ reg[N(a)] \in Obj /\ obj' \in [Caller -> Obj \cup {0}]
        /\ \A b \in Caller \ {a} : obj'[b] = obj[b]
    BY <1>1, <2>1 DEF FlowTypes, SupTypes
  <2>3. call' = [b \in Caller |-> call'[b]] /\ rest' \in [Caller -> SUBSET Name] /\ call'[a].name = N(a)
    BY <1>1, <1>2, <2>1 DEF FlowTypes, N
  <2>4. {pc[a], "startAct"} \subseteq Ordinary /\ "startAct" \in CallerAt
    BY <1>2 DEF Ordinary, CallerAt
  <2>5. overlap' \in BOOLEAN /\ (~overlap' => ~overlap) /\ Busy(a)
    BY <1>1, <1>2 DEF RestTypes, Busy
  <2>6. N(a) \in Enabled(config)
    BY <2>1 DEF Enabled
  <2>7. QED
    BY <1>1, <1>2, <2>1, <2>2, <2>3, <2>4, <2>5, <2>6, RequestTurn
<1>5. QED
  BY <1>3, <1>4

LEMMA StopLookupStep ==
  ASSUME ManagerInv, NEW a \in Caller, StopLookup(a)
  PROVE  ManagerInv'
<1>1. /\ FlowTypes /\ RestTypes /\ SupTypes /\ AliveInv /\ a \in Actor /\ a # Main /\ pc[a] \in {"stop", "restart"}
      /\ pc[Main] \notin {"boot", "starting"} /\ Serving /\ mu = Free
  BY DEF ManagerInv, TypeInv, Actor, Main, StopLookup, Lookup, Serving
<1>2. Steady /\ UNCHANGED <<sup, failed, overlap, rest>> /\ pc[a] \in Ordinary
  BY <1>1 DEF StopLookup, Steady, conf, Ordinary, CallerAt
<1>3. overlap' \in BOOLEAN /\ (~overlap' => ~overlap) /\ Busy(a) /\ rest' \in [Caller -> SUBSET Name]
  BY <1>1, <1>2 DEF RestTypes, FlowTypes, Busy
<1>4. CASE Return(a)
  BY <1>1, <1>2, <1>4, RequestReturns
<1>5. CASE Goto(a, "start") /\ UNCHANGED <<obj, call>>
  <2>1. Goes(a, "start")
    BY <1>5 DEF Goto, Goes
  <2>2. {pc[a], "start"} \subseteq Ordinary /\ "start" \in CallerAt /\ "start" \notin HandAt
    BY <1>2 DEF Ordinary, CallerAt, HandAt
  <2>3. /\ call' = [b \in Caller |-> call'[b]] /\ obj' \in [Caller -> Obj \cup {0}]
        /\ \A b \in Caller \ {a} : call'[b] = call[b] /\ obj'[b] = obj[b]
    BY <1>1, <1>5 DEF FlowTypes
  <2>4. QED
    BY <1>1, <1>2, <1>3, <2>1, <2>2, <2>3, RequestTurn
<1>6. CASE /\ N(a) \in DOMAIN reg /\ sup[reg[N(a)]].state # "stopped"
           /\ Goto(a, IF pc[a] = "stop" THEN "stopAct" ELSE "restartAct")
           /\ obj' = [obj EXCEPT ![a] = reg[N(a)]] /\ UNCHANGED call
  <2>1. PICK l \in {"stopAct", "restartAct"} : Goes(a, l)
    BY <1>6 DEF Goto, Goes
  <2>2. {pc[a], l} \subseteq Ordinary /\ l \in CallerAt /\ l \notin {"add", "update"}
    BY <1>2, <2>1 DEF Ordinary, CallerAt
  <2>3. /\ obj'[a] = reg[N(a)] /\ reg[N(a)] \in Obj /\ obj' \in [Caller -> Obj \cup {0}]
        /\ \A b \in Caller \ {a} : obj'[b] = obj[b]
    BY <1>1, <1>6 DEF FlowTypes, SupTypes
  <2>4. call' = [b \in Caller |-> call'[b]] /\ call'[a].name = N(a) /\ \A b \in Caller \ {a} : call'[b] = call[b]
    BY <1>1, <1>2, <1>6 DEF FlowTypes, N
  <2>5. Pending = {}
    <3>1. \A b \in Actor : pc[b] \notin Locked
      BY <1>1, Alone DEF ManagerInv, Locked
    <3>2. QED
      BY <3>1 DEF Pending, Locked
  <2>6. ~overlap => N(a) \in Enabled(config)
    BY <1>1, <1>6, <2>5 DEF AliveInv
  <2>7. QED
    BY <1>1, <1>2, <1>3, <1>6, <2>1, <2>2, <2>3, <2>4, <2>6, RequestTurn
<1>7. QED
  BY <1>4, <1>5, <1>6 DEF StopLookup

LEMMA RestartUnknownStep ==
  ASSUME ManagerInv, NEW a \in Caller, RestartUnknown(a)
  PROVE  ManagerInv'
<1>1. Serving /\ pc[a] = "restart" /\ Return(a)
  BY DEF RestartUnknown, Lookup
<1>2. Steady /\ UNCHANGED <<sup, failed, overlap, rest>> /\ pc[a] \in Ordinary
  BY <1>1 DEF RestartUnknown, Steady, conf, Ordinary, CallerAt
<1>3. QED
  BY <1>1, <1>2, RequestReturns

LEMMA RestartNextStep ==
  ASSUME ManagerInv, NEW a \in Caller, RestartNext(a)
  PROVE  ManagerInv'
<1>1. /\ FlowTypes /\ RestTypes /\ a \in Actor /\ a # Main /\ pc[a] = "restartAll"
      /\ pc[Main] \notin {"boot", "starting"}
  BY DEF ManagerInv, TypeInv, Actor, Main, RestartNext, Serving
<1>2. Steady /\ UNCHANGED <<sup, failed, overlap, obj>> /\ pc[a] \in Ordinary
  BY <1>1 DEF RestartNext, Steady, conf, Ordinary, CallerAt
<1>3. /\ overlap' \in BOOLEAN /\ (~overlap' => ~overlap) /\ Busy(a) /\ obj' \in [Caller -> Obj \cup {0}]
      /\ \A b \in Caller : obj'[b] = obj[b]
  BY <1>1, <1>2 DEF RestTypes, FlowTypes, Busy
<1>4. PICK l \in {"idle", "restart"} : Goes(a, l)
  BY DEF RestartNext, Goto, Goes
<1>5. /\ {pc[a], l} \subseteq Ordinary /\ l \in CallerAt
      /\ l \notin {"add", "update"} /\ l \notin HandAt /\ l \notin {"startAct", "restartAct"}
  BY <1>2, <1>4 DEF Ordinary, CallerAt, HandAt
<1>6. /\ call' = [b \in Caller |-> call'[b]] /\ \A b \in Caller \ {a} : call'[b] = call[b]
      /\ rest' \in [Caller -> SUBSET Name]
  BY <1>1 DEF RestartNext, FlowTypes
<1>7. QED
  BY <1>1, <1>2, <1>3, <1>4, <1>5, <1>6, RequestTurn

-----------------------------------------------------------------------------
(* API requests that act on the supervisor in hand *)

LEMMA ActTurn ==
  ASSUME ManagerInv, NEW a \in Caller, NEW l \in {"idle", "restartAll", "startAct"}, Goes(a, l),
         pc[a] \in HandAt, Serving, Steady, UNCHANGED <<overlap, rest>>, failed' \in BOOLEAN, failed => failed',
         NEW s \in Sup, Becomes(sup, obj[a], s), s.cfg = sup[obj[a]].cfg, s.alive => s.state = "running",
         s.state = "stopped" \/ pc[a] \in {"startAct", "restartAct"},
         call' = [b \in Caller |-> call'[b]], obj' \in [Caller -> Obj \cup {0}],
         \A b \in Caller \ {a} : call'[b] = call[b] /\ obj'[b] = obj[b],
         l = "startAct" => pc[a] = "restartAct" /\ call'[a] = call[a] /\ obj'[a] = obj[a]
  PROVE  ManagerInv'
<1>1. FlowTypes /\ RestTypes /\ SupTypes /\ HandInv /\ AliveInv /\ ShutInv /\ BusyInv
  BY DEF ManagerInv, TypeInv
<1>2. a \in Actor /\ a # Main /\ Main \in Actor /\ pc[Main] \notin {"boot", "starting"}
  BY DEF Actor, Main, Serving
<1>3. PICK o \in Obj : o = obj[a] /\ sup' = [sup EXCEPT ![o] = s]
  BY <1>1 DEF FlowTypes, Becomes
<1>4. {pc[a], l} \subseteq Ordinary /\ l \in CallerAt
  BY DEF HandAt, Ordinary, CallerAt
<1>5. Busy(a) /\ overlap' \in BOOLEAN /\ (~overlap' => ~overlap)
  BY <1>1, <1>2 DEF Busy, HandAt, RestTypes
<1>6. \A n \in DOMAIN reg : reg[n] \in Obj /\ sup'[reg[n]].cfg = sup[reg[n]].cfg
  BY <1>1, <1>3 DEF SupTypes
<1>7. /\ RestTypes' /\ LockInv' /\ BusyInv' /\ StartInv' /\ PlanInv' /\ AgreeInv'
      /\ UNCHANGED <<Pending, Missing>>
      /\ pc' \in [Actor -> MainAt \cup CallerAt] /\ pc'[Main] = pc[Main] /\ pc'[Main] \in MainAt
      /\ pc'[a] = l /\ \A b \in Caller \ {a} : pc'[b] = pc[b]
  BY <1>2, <1>4, <1>5, <1>6, CallerTurn
<1>8. \A b \in Caller : pc'[b] \in CallerAt
  BY <1>2, <1>4, <1>5, <1>6, CallerTurn
<1>9. UNCHANGED <<config, reg, schedOn, jobRuns, left, plan>>
  BY DEF Steady, sched
<1>10. FlowTypes'
  <2>1. \A b \in Caller : pc'[b] \in {"add", "update"} => b # a
    BY <1>7
  <2>2. \A b \in Caller : pc'[b] \in HandAt => obj'[b] \in Obj
    BY <1>1, <1>7 DEF FlowTypes, HandAt
  <2>3. QED
    BY <1>1, <1>7, <1>8, <1>9, <2>1, <2>2 DEF FlowTypes
<1>11. SupTypes'
  BY <1>1, <1>3, <1>9 DEF SupTypes
<1>12. HandInv'
  BY <1>1, <1>5, <1>7, <1>9, HandKeeps
<1>13. ~overlap /\ s.state # "stopped" => N(a) \in DOMAIN reg /\ reg[N(a)] = o /\ N(a) \in Enabled(config)
  BY <1>1, <1>3 DEF HandInv
<1>14. AliveInv'
  <2> SUFFICES ASSUME ~overlap'
               PROVE  /\ \A x \in Obj : sup'[x].alive => \E n \in DOMAIN reg : reg[n] = x
                      /\ \A n \in DOMAIN reg \ Pending : sup'[reg[n]].state # "stopped" => n \in Enabled(config)
    BY <1>7, <1>9 DEF AliveInv, Enabled
  <2>1. ~overlap
    BY <1>5
  <2>2. \A x \in Obj : sup'[x].alive => \E n \in DOMAIN reg : reg[n] = x
    BY <1>1, <1>3, <1>13, <2>1 DEF AliveInv, SupTypes
  <2>3. ASSUME NEW n \in DOMAIN reg \ Pending, sup'[reg[n]].state # "stopped"
        PROVE  n \in Enabled(config)
    BY <1>1, <1>3, <1>6, <1>13, <2>1, <2>3 DEF AliveInv, SupTypes
  <2>4. QED
    BY <2>2, <2>3
<1>15. ShutInv'
  <2>1. ~overlap => pc[Main] = "serving"
    BY <1>1, <1>2, <1>5 DEF BusyInv, Busy
  <2>2. QED
    BY <1>1, <1>5, <1>7, <1>9, <2>1 DEF ShutInv
<1>16. QED
  BY <1>7, <1>10, <1>11, <1>12, <1>14, <1>15 DEF ManagerInv, TypeInv

LEMMA StartActStep ==
  ASSUME ManagerInv, NEW a \in Caller, StartAct(a)
  PROVE  ManagerInv'
<1>1. FlowTypes /\ RestTypes /\ SupTypes /\ a # Main /\ pc[a] = "startAct" /\ Serving /\ Return(a)
  BY DEF ManagerInv, TypeInv, Main, StartAct
<1>2. PICK ok \in StartOK : /\ sup' = [sup EXCEPT ![obj[a]] = IF ok THEN Up(@) ELSE Failed(@)]
                            /\ Note(ok)
  BY DEF StartAct
<1>3. obj[a] \in Obj /\ sup[obj[a]] \in Sup
  BY <1>1 DEF FlowTypes, SupTypes, HandAt
<1>4. PICK s \in Sup : /\ s = IF ok THEN Up(sup[obj[a]]) ELSE Failed(sup[obj[a]])
                       /\ s.cfg = sup[obj[a]].cfg /\ (s.alive => s.state = "running")
  BY <1>3, UpType, FailedType
<1>5. Becomes(sup, obj[a], s)
  BY <1>2, <1>4 DEF Becomes
<1>6. Steady /\ UNCHANGED <<overlap, rest>> /\ pc[a] \in HandAt
  BY <1>1 DEF StartAct, Steady, HandAt
<1>7. PICK l \in {"idle", "restartAll"} : l = After(a)
  BY <1>1, ReturnFacts
<1>8. /\ Goes(a, l) /\ call' = [b \in Caller |-> call'[b]] /\ obj' \in [Caller -> Obj \cup {0}]
      /\ \A b \in Caller \ {a} : call'[b] = call[b] /\ obj'[b] = obj[b]
  BY <1>1, <1>7, ReturnFacts
<1>9. failed' \in BOOLEAN /\ (failed => failed')
  BY <1>2 DEF Note
<1>10. QED
  BY <1>1, <1>4, <1>5, <1>6, <1>7, <1>8, <1>9, ActTurn

LEMMA StopActStep ==
  ASSUME ManagerInv, NEW a \in Caller, StopAct(a)
  PROVE  ManagerInv'
<1>1. FlowTypes /\ RestTypes /\ SupTypes /\ a # Main /\ pc[a] \in {"stopAct", "restartAct"} /\ Serving
  BY DEF ManagerInv, TypeInv, Main, StopAct
<1>2. PICK r \in Stops(obj[a]) :
        /\ sup' = [sup EXCEPT ![obj[a]] = Down(@, r)] /\ Note(r.ok)
        /\ IF pc[a] = "restartAct" /\ r.ok THEN Goto(a, "startAct") /\ UNCHANGED <<obj, call>> ELSE Return(a)
  BY DEF StopAct
<1>3. obj[a] \in Obj /\ sup[obj[a]] \in Sup /\ r.told \in BOOLEAN
  BY <1>1, StopsTypes DEF FlowTypes, SupTypes, HandAt
<1>4. PICK s \in Sup : /\ s = Down(sup[obj[a]], r)
                       /\ s.cfg = sup[obj[a]].cfg /\ ~s.alive /\ s.state = "stopped"
  BY <1>3, DownType
<1>5. Becomes(sup, obj[a], s)
  BY <1>2, <1>4 DEF Becomes
<1>6. Steady /\ UNCHANGED <<overlap, rest>> /\ pc[a] \in HandAt
  BY <1>1 DEF StopAct, Steady, HandAt
<1>7. failed' \in BOOLEAN /\ (failed => failed')
  BY <1>2 DEF Note
<1>8. CASE Return(a)
  <2>1. PICK l \in {"idle", "restartAll"} : l = After(a)
    BY <1>1, <1>8, ReturnFacts
  <2>2. /\ Goes(a, l) /\ call' = [b \in Caller |-> call'[b]] /\ obj' \in [Caller -> Obj \cup {0}]
        /\ \A b \in Caller \ {a} : call'[b] = call[b] /\ obj'[b] = obj[b]
    BY <1>1, <1>8, <2>1, ReturnFacts
  <2>3. QED
    BY <1>1, <1>4, <1>5, <1>6, <1>7, <2>1, <2>2, ActTurn
<1>9. CASE pc[a] = "restartAct" /\ Goto(a, "startAct") /\ UNCHANGED <<obj, call>>
  <2>1. Goes(a, "startAct")
    BY <1>9 DEF Goto, Goes
  <2>2. /\ call' = [b \in Caller |-> call'[b]] /\ obj' \in [Caller -> Obj \cup {0}]
        /\ \A b \in Caller \ {a} : call'[b] = call[b] /\ obj'[b] = obj[b]
    BY <1>1, <1>9 DEF FlowTypes
  <2>3. QED
    BY <1>1, <1>4, <1>5, <1>6, <1>7, <1>9, <2>1, <2>2, ActTurn
<1>10. QED
  BY <1>2, <1>8, <1>9

-----------------------------------------------------------------------------
(* The main loop and Shutdown *)

\* What is left to show of a step of the main goroutine while it serves or shuts down.
LEMMA MainTurn ==
  ASSUME ManagerInv, NEW l \in MainAt, Goes(Main, l), {pc[Main], l} \subseteq Ordinary, ~Exited,
         UNCHANGED <<scn, config, reg, jobs, plan, call, obj, rest>>, RestTypes', left' \subseteq Name, SupTypes',
         \/ mu' = mu /\ (l \in Locked => pc[Main] \in Locked)
         \/ mu = Free /\ mu' = Main
         \/ pc[Main] \in Locked /\ l \notin Locked,
         failed => failed',
         ~overlap' => ~overlap /\ (Busy(Main) \/ \A b \in Actor \ {Main} : ~Busy(b)),
         \A o \in Obj : /\ sup'[o].cfg = sup[o].cfg /\ (sup'[o].alive => sup[o].alive)
                        /\ sup'[o].state # "stopped" => sup[o].state # "stopped",
         ShutInv'
  PROVE  ManagerInv'
<1>1. FlowTypes /\ RestTypes /\ SupTypes /\ LockInv /\ BusyInv /\ HandInv /\ AliveInv
  BY DEF ManagerInv, TypeInv
<1>2. /\ pc'[Main] = l /\ Main \in Actor /\ Main \notin Caller /\ Caller \subseteq Actor
      /\ \A b \in Caller : pc'[b] = pc[b]
  BY <1>1, GoesTo DEF Actor, Main
<1>3. pc[Main] \notin {"boot", "starting"} /\ l \notin {"boot", "starting"}
  BY DEF Ordinary
<1>4. \A n \in DOMAIN reg : sup'[reg[n]].cfg = sup[reg[n]].cfg
  BY <1>1 DEF SupTypes
<1>5. StartInv' /\ PlanInv' /\ AgreeInv' /\ UNCHANGED <<Pending, Missing>>
  BY <1>2, <1>3, <1>4, TurnKeeps
<1>6. LockInv'
  BY <1>1, <1>2, LockStep
<1>7. BusyInv'
  BY <1>1, <1>2, <1>3, BusyStep
<1>8. FlowTypes'
  <2>1. /\ pc' \in [Actor -> MainAt \cup CallerAt] /\ pc'[Main] \in MainAt
        /\ \A b \in Caller : pc'[b] \in CallerAt
    BY <1>1, <1>2, GoesTypes
  <2>2. QED
    BY <1>1, <1>2, <2>1 DEF FlowTypes
<1>9. HandInv'
  BY <1>1, <1>2, HandKeeps
<1>10. AliveInv'
  BY <1>1, <1>5, AliveKeeps
<1>11. QED
  BY <1>5, <1>6, <1>7, <1>8, <1>9, <1>10 DEF ManagerInv, TypeInv

LEMMA SelectStep ==
  ASSUME ManagerInv, SelectShutdown \/ SelectReload
  PROVE  ManagerInv'
<1>1. FlowTypes /\ RestTypes /\ SupTypes /\ ShutInv /\ pc[Main] = "serving"
  BY DEF ManagerInv, TypeInv, SelectShutdown, SelectReload
<1>2. PICK l \in {"shutdown", "reload"} : Enter(l)
  BY DEF SelectShutdown, SelectReload
<1>3. Goes(Main, l) /\ overlap' = (overlap \/ \E a \in Caller : pc[a] # "idle")
  BY <1>2 DEF Enter, Goto, Goes
<1>4. UNCHANGED <<scn, config, reg, sup, sched, mu, flow, deaths, draining, file, failed>>
  BY DEF SelectShutdown, SelectReload, conf, death, watch
<1>5. UNCHANGED <<jobs, schedOn, jobRuns, call, obj, rest, left, plan, stopErr>>
  BY <1>4 DEF sched, flow
<1>6. l \in MainAt /\ {pc[Main], l} \subseteq Ordinary /\ ~Exited /\ l \notin Locked
  BY <1>1 DEF MainAt, Ordinary, Exited, Locked
<1>7. overlap' \in BOOLEAN /\ (~overlap' => ~overlap /\ \A b \in Actor \ {Main} : ~Busy(b))
  BY <1>3 DEF Actor, Busy
<1>8. RestTypes'
  BY <1>1, <1>4, <1>5, <1>7 DEF RestTypes
<1>9. /\ SupTypes'
      /\ \A o \in Obj : /\ sup'[o].cfg = sup[o].cfg /\ (sup'[o].alive => sup[o].alive)
                        /\ sup'[o].state # "stopped" => sup[o].state # "stopped"
  BY <1>1, <1>4 DEF SupTypes
<1>10. pc'[Main] = l
  BY <1>1, <1>3, GoesTo DEF Actor
<1>11. ShutInv'
  BY <1>10 DEF ShutInv
<1>12. left' \subseteq Name /\ (failed => failed')
  BY <1>1, <1>4, <1>5 DEF FlowTypes
<1>13. QED
  BY <1>3, <1>4, <1>5, <1>6, <1>7, <1>8, <1>9, <1>11, <1>12, MainTurn

\* The steps of Shutdown that leave the supervisors alone.
LEMMA ShutdownMoves ==
  ASSUME ManagerInv, ShutdownBegin \/ ShutdownOrder \/ ShutdownEnd \/ CloseAPI
  PROVE  ManagerInv'
<1>1. FlowTypes /\ RestTypes /\ SupTypes /\ ShutInv /\ AliveInv /\ LockInv
  BY DEF ManagerInv, TypeInv
<1>2. /\ UNCHANGED <<scn, config, reg, sup, jobs, call, obj, rest, plan, stopErr, deaths, draining, file, overlap, failed>>
  BY DEF ShutdownBegin, ShutdownOrder, ShutdownEnd, CloseAPI, conf, sched, flow, death, watch
<1>3. \E l \in {"draining", "stopping", "closing", "exit0", "exit1"} :
         /\ Goes(Main, l)
         /\ \/ mu' = mu /\ (l \in Locked => pc[Main] \in Locked)
            \/ mu = Free /\ mu' = Main
            \/ pc[Main] \in Locked /\ l \notin Locked
         /\ \/ l = "draining" /\ ~schedOn' /\ jobRuns' = jobRuns
            \/ l = "stopping" /\ ~jobRuns /\ UNCHANGED <<schedOn, jobRuns>>
               /\ left' = (IF Broken(config) THEN {} ELSE Enabled(config) \cap DOMAIN reg)
               /\ pc[Main] = "draining"
            \/ l \in {"closing", "exit1"} /\ UNCHANGED <<schedOn, jobRuns, left>> /\ pc[Main] = "stopping" /\ left = {}
            \/ l = "exit0" /\ UNCHANGED <<schedOn, jobRuns, left>> /\ pc[Main] = "closing"
  <2>1. CASE ShutdownBegin
    BY <2>1 DEF ShutdownBegin, Goto, Goes, sched
  <2>2. CASE ShutdownOrder
    BY <2>2 DEF ShutdownOrder, Goto, Goes, sched, Locked
  <2>3. CASE ShutdownEnd
    <3>1. PICK l \in {"closing", "exit1"} : Goes(Main, l)
      BY <2>3 DEF ShutdownEnd, Goto, Goes
    <3>2. pc[Main] \in Locked /\ l \notin Locked /\ UNCHANGED <<schedOn, jobRuns, left>> /\ pc[Main] = "stopping" /\ left = {}
      BY <2>3, <3>1 DEF ShutdownEnd, Locked, sched, flow
    <3>3. QED
      BY <3>1, <3>2
  <2>4. CASE CloseAPI
    BY <2>4 DEF CloseAPI, Exit, Goes, sched, flow, Locked
  <2>5. QED
    BY <2>1, <2>2, <2>3, <2>4
<1>4. PICK l \in {"draining", "stopping", "closing", "exit0", "exit1"} :
         /\ Goes(Main, l)
         /\ \/ mu' = mu /\ (l \in Locked => pc[Main] \in Locked)
            \/ mu = Free /\ mu' = Main
            \/ pc[Main] \in Locked /\ l \notin Locked
         /\ \/ l = "draining" /\ ~schedOn' /\ jobRuns' = jobRuns
            \/ l = "stopping" /\ ~jobRuns /\ UNCHANGED <<schedOn, jobRuns>>
               /\ left' = (IF Broken(config) THEN {} ELSE Enabled(config) \cap DOMAIN reg)
               /\ pc[Main] = "draining"
            \/ l \in {"closing", "exit1"} /\ UNCHANGED <<schedOn, jobRuns, left>> /\ pc[Main] = "stopping" /\ left = {}
            \/ l = "exit0" /\ UNCHANGED <<schedOn, jobRuns, left>> /\ pc[Main] = "closing"
  BY <1>3
<1>5. pc[Main] \in {"shutdown", "draining", "stopping", "closing"}
  BY DEF ShutdownBegin, ShutdownOrder, ShutdownEnd, CloseAPI
<1>6. /\ l \in MainAt /\ {pc[Main], l} \subseteq Ordinary /\ ~Exited /\ Busy(Main)
      /\ Main \in Actor /\ pc'[Main] = l
  BY <1>1, <1>4, <1>5, GoesTo DEF MainAt, Ordinary, Exited, Busy, Actor
<1>7. /\ SupTypes'
      /\ \A o \in Obj : /\ sup'[o].cfg = sup[o].cfg /\ (sup'[o].alive => sup[o].alive)
                        /\ sup'[o].state # "stopped" => sup[o].state # "stopped"
  BY <1>1, <1>2 DEF SupTypes
<1>8. RestTypes' /\ left' \subseteq Name
  <2>1. mu' \in Actor \cup {Free}
    BY <1>1, <1>6 DEF ShutdownBegin, ShutdownOrder, ShutdownEnd, CloseAPI, RestTypes
  <2>2. schedOn' \in BOOLEAN /\ jobRuns' \in BOOLEAN
    BY <1>1 DEF ShutdownBegin, ShutdownOrder, ShutdownEnd, CloseAPI, RestTypes, sched
  <2>3. left' \subseteq Name
    BY <1>1 DEF ShutdownBegin, ShutdownOrder, ShutdownEnd, CloseAPI, FlowTypes, SupTypes, flow
  <2>4. QED
    BY <1>1, <1>2, <2>1, <2>2, <2>3 DEF RestTypes
<1>9. Broken(config)' = Broken(config)
  BY <1>2 DEF Broken, Enabled
<1>10. ShutInv'
  <2>1. CASE l = "draining"
    BY <1>4, <1>6, <2>1 DEF ShutInv
  <2>2. CASE l = "stopping"
    <3>1. Pending = {}
      <4>1. \A b \in Actor : pc[b] \notin {"replacing"}
        BY <1>1, <1>4, <1>6, <2>2, Alone DEF Locked
      <4>2. QED
        BY <4>1 DEF Pending
    <3>2. /\ ~jobRuns' /\ ~schedOn' /\ pc[Main] = "draining"
          /\ left' = IF Broken(config) THEN {} ELSE Enabled(config) \cap DOMAIN reg
      BY <1>1, <1>4, <2>2 DEF ShutInv
    <3>3. \A n \in DOMAIN reg : sup[reg[n]].alive => sup[reg[n]].state # "stopped"
      BY <1>1 DEF SupTypes
    <3>4. ~overlap /\ ~Broken(config) => \A n \in DOMAIN reg : sup[reg[n]].alive => n \in left'
      BY <1>1, <3>1, <3>2, <3>3 DEF AliveInv
    <3>5. QED
      BY <1>2, <1>6, <1>9, <2>2, <3>2, <3>4 DEF ShutInv
  <2>3. CASE l \in {"closing", "exit1"}
    <3>1. pc[Main] = "stopping" /\ left = {} /\ UNCHANGED <<schedOn, jobRuns>>
      BY <1>4, <2>3
    <3>2. ~overlap /\ ~Broken(config) => \A o \in Obj : ~sup[o].alive
      BY <1>1, <3>1 DEF ShutInv, AliveInv
    <3>3. QED
      BY <1>1, <1>2, <1>6, <1>9, <2>3, <3>1, <3>2 DEF ShutInv
  <2>4. CASE l = "exit0"
    <3>1. pc[Main] = "closing" /\ UNCHANGED <<schedOn, jobRuns>>
      BY <1>4, <2>4
    <3>2. QED
      BY <1>1, <1>2, <1>6, <1>9, <2>4, <3>1 DEF ShutInv
  <2>5. QED
    BY <2>1, <2>2, <2>3, <2>4
<1>11. QED
  BY <1>2, <1>4, <1>6, <1>7, <1>8, <1>10, MainTurn

LEMMA ShutdownStopStep ==
  ASSUME ManagerInv, NEW n \in Name, ShutdownStop(n)
  PROVE  ManagerInv'
<1>1. FlowTypes /\ RestTypes /\ SupTypes /\ ShutInv /\ pc[Main] = "stopping" /\ n \in left /\ n \in DOMAIN reg
  BY DEF ManagerInv, TypeInv, ShutdownStop, ShutInv
<1>2. PICK r \in Stops(reg[n]) :
        /\ sup' = [sup EXCEPT ![reg[n]] = Down(@, r)]
        /\ Note(r.ok) /\ stopErr' = (stopErr \/ ~r.ok)
  BY DEF ShutdownStop
<1>3. /\ UNCHANGED <<scn, config, reg, sched, mu, pc, call, obj, rest, plan, deaths, draining, file, overlap>>
      /\ left' = left \ {n}
  BY DEF ShutdownStop, death, watch
<1>4. r.told \in BOOLEAN /\ r.ok \in BOOLEAN /\ reg[n] \in Obj /\ sup[reg[n]] \in Sup
  BY <1>1, <1>2, StopsTypes DEF SupTypes
<1>5. PICK s \in Sup : /\ s = Down(sup[reg[n]], r) /\ s.cfg = sup[reg[n]].cfg
                       /\ ~s.alive /\ s.state = "stopped"
  BY <1>4, DownType
<1>6. sup' = [sup EXCEPT ![reg[n]] = s]
  BY <1>2, <1>5
<1>7. /\ SupTypes'
      /\ \A o \in Obj : /\ sup'[o].cfg = sup[o].cfg /\ (sup'[o].alive => sup[o].alive)
                        /\ sup'[o].state # "stopped" => sup[o].state # "stopped"
  BY <1>1, <1>3, <1>4, <1>5, <1>6 DEF SupTypes
<1>8. failed' \in BOOLEAN /\ (failed => failed') /\ stopErr' \in BOOLEAN
  BY <1>2 DEF Note
<1>9. RestTypes' /\ left' \subseteq Name
  BY <1>1, <1>3, <1>8 DEF RestTypes, FlowTypes, sched
<1>10. Goes(Main, "stopping")
  BY <1>1, <1>3 DEF Goes, FlowTypes
<1>11. /\ {pc[Main], "stopping"} \subseteq Ordinary /\ "stopping" \in MainAt /\ ~Exited /\ Busy(Main)
       /\ pc[Main] \in Locked
  BY <1>1 DEF Ordinary, MainAt, Exited, Busy, Locked
<1>12. ShutInv'
  <2>1. Broken(config)' = Broken(config)
    BY <1>3 DEF Broken, Enabled
  <2>2. \A m \in DOMAIN reg : sup'[reg[m]].alive => m # n /\ sup[reg[m]].alive
    BY <1>1, <1>4, <1>5, <1>6 DEF SupTypes
  <2>3. QED
    BY <1>1, <1>3, <2>1, <2>2 DEF ShutInv, sched
<1>13. QED
  BY <1>3, <1>7, <1>8, <1>9, <1>10, <1>11, <1>12, MainTurn DEF sched

-----------------------------------------------------------------------------
(* Start *)

\* What is left to show of a step of Start.
LEMMA StartTurn ==
  ASSUME ManagerInv, pc[Main] \in {"boot", "starting"},
         NEW l \in {"starting", "serving", "exit1"}, Goes(Main, l),
         UNCHANGED <<scn, config, call, obj, rest, plan, overlap>>,
         RestTypes', left' \subseteq Name, SupTypes', DOMAIN reg' \subseteq DOMAIN config,
         \/ mu' = mu /\ (l \in Locked => pc[Main] \in Locked)
         \/ mu = Free /\ mu' = Main
         \/ pc[Main] \in Locked /\ l \notin Locked
  PROVE  /\ FlowTypes' /\ LockInv' /\ BusyInv' /\ PlanInv' /\ HandInv' /\ ShutInv'
         /\ Pending = {} /\ Pending' = {} /\ pc'[Main] = l
         /\ (l = "starting" \/ Missing' = {})
<1>1. FlowTypes /\ LockInv /\ BusyInv /\ RestTypes /\ \A b \in Caller : pc[b] = "idle"
  BY DEF ManagerInv, TypeInv, BusyInv
<1>2. /\ pc'[Main] = l /\ Main \in Actor /\ Main \notin Caller /\ Caller \subseteq Actor
      /\ \A b \in Caller : pc'[b] = "idle"
  BY <1>1, GoesTo DEF Actor, Main
<1>3. l \in MainAt
  BY DEF MainAt
<1>4. /\ pc' \in [Actor -> MainAt \cup CallerAt] /\ pc'[Main] \in MainAt
      /\ \A b \in Caller : pc'[b] \in CallerAt
  BY <1>1, <1>2, <1>3, GoesTypes
<1>5. FlowTypes'
  BY <1>1, <1>2, <1>4 DEF FlowTypes, HandAt
<1>6. LockInv'
  BY <1>1, <1>2, LockStep
<1>7. ~overlap' => ~overlap /\ Busy(Main)
  BY DEF Busy
<1>8. BusyInv'
  BY <1>1, <1>2, <1>7, BusyStep
<1>9. \A a \in Actor : pc[a] \notin {"removing", "replacing"} /\ pc'[a] \notin {"removing", "replacing"}
  BY <1>1, <1>2 DEF Actor
<1>10. PlanInv'
  BY <1>9 DEF PlanInv
<1>11. HandInv'
  BY <1>2 DEF HandInv
<1>12. ShutInv'
  BY <1>2 DEF ShutInv
<1>13. Pending = {} /\ Pending' = {} /\ (l = "starting" \/ Missing' = {})
  BY <1>2, <1>9 DEF Pending, Missing
<1>14. QED
  BY <1>2, <1>5, <1>6, <1>8, <1>10, <1>11, <1>12, <1>13

LEMMA BootStep ==
  ASSUME ManagerInv, Boot
  PROVE  ManagerInv'
<1>1. FlowTypes /\ RestTypes /\ SupTypes /\ StartInv /\ PlanInv /\ AliveInv /\ pc[Main] = "boot"
  BY DEF ManagerInv, TypeInv, Boot
<1>2. UNCHANGED <<scn, config, reg, sup, jobs, schedOn, jobRuns, call, obj, rest, plan, overlap, failed, stopErr, deaths, draining, file>>
  BY DEF Boot, conf, sched, death, watch
<1>3. SupTypes' /\ \A o \in Obj : sup'[o].alive => sup[o].alive
  BY <1>1, <1>2 DEF SupTypes
<1>4. PICK l \in {"starting", "exit1"} :
        /\ Goes(Main, l)
        /\ \/ l = "exit1" /\ UNCHANGED <<mu, left>>
           \/ l = "starting" /\ mu = Free /\ mu' = Main /\ left' = Enabled(config)
  BY DEF Boot, Exit, Goto, Goes
<1>5. Main \in Actor /\ DOMAIN reg' \subseteq DOMAIN config /\ "exit1" \notin Locked
  BY <1>1, <1>2 DEF Actor, PlanInv, Locked
<1>6. left' \subseteq Name /\ RestTypes'
  BY <1>1, <1>2, <1>4, <1>5 DEF FlowTypes, RestTypes, Enabled, IsConfig
<1>7. /\ FlowTypes' /\ LockInv' /\ BusyInv' /\ PlanInv' /\ HandInv' /\ ShutInv'
      /\ Pending = {} /\ Pending' = {} /\ pc'[Main] = l
  BY <1>1, <1>2, <1>3, <1>4, <1>5, <1>6, StartTurn
<1>8. StartInv'
  BY <1>1, <1>2, <1>4, <1>7 DEF StartInv, DependenciesUp, Enabled
<1>9. AgreeInv'
  <2>1. l = "starting" => Missing' = Enabled(config)
    BY <1>4, <1>7 DEF Missing
  <2>2. QED
    BY <1>1, <1>2, <1>4, <1>7, <2>1 DEF AgreeInv, StartInv, Exited, Enabled
<1>10. AliveInv'
  BY <1>1, <1>2, <1>7 DEF AliveInv, StartInv
<1>11. QED
  BY <1>3, <1>6, <1>7, <1>8, <1>9, <1>10 DEF ManagerInv, TypeInv

\* The steps of Start that leave the supervisors alone.
LEMMA StartMoves ==
  ASSUME ManagerInv,
         \/ StartupDone
         \/ \E n \in Name : StartGivesUp(n) \/ RegisterScheduled(n)
  PROVE  ManagerInv'
<1>1. FlowTypes /\ RestTypes /\ SupTypes /\ StartInv /\ PlanInv /\ AgreeInv /\ AliveInv /\ pc[Main] = "starting"
  BY DEF ManagerInv, TypeInv, StartupDone, StartGivesUp, RegisterScheduled, InOrder
<1>2. UNCHANGED <<scn, config, reg, sup, jobRuns, call, obj, rest, plan, overlap, failed, stopErr, deaths, draining, file>>
  BY DEF StartupDone, StartGivesUp, RegisterScheduled, conf, sched, death, watch, flow
<1>3. SupTypes'
  BY <1>1, <1>2 DEF SupTypes
<1>4. \E l \in {"starting", "serving", "exit1"} :
        /\ Goes(Main, l)
        /\ \/ l = "exit1" /\ UNCHANGED <<mu, left, schedOn, jobs>>
           \/ l = "starting" /\ UNCHANGED <<mu, schedOn>> /\ jobs' # {} /\ jobs' \subseteq Name /\ left' \subseteq left
           \/ l = "serving" /\ mu' = Free /\ schedOn' \in BOOLEAN /\ UNCHANGED <<left, jobs>> /\ left = {}
  <2>1. CASE StartupDone
    BY <2>1 DEF StartupDone, Goto, Goes, flow
  <2>2. ASSUME NEW n \in Name, StartGivesUp(n)
        PROVE  Goes(Main, "exit1") /\ UNCHANGED <<mu, left, schedOn, jobs>>
    BY <2>2 DEF StartGivesUp, Exit, Goes, flow, sched
  <2>3. ASSUME NEW n \in Name, RegisterScheduled(n)
        PROVE  /\ Goes(Main, "starting") /\ UNCHANGED <<mu, schedOn>>
               /\ jobs' # {} /\ jobs' \subseteq Name /\ left' \subseteq left
    BY <1>1, <2>3 DEF RegisterScheduled, Goes, FlowTypes, RestTypes
  <2>4. QED
    BY <2>1, <2>2, <2>3
<1>5. PICK l \in {"starting", "serving", "exit1"} :
        /\ Goes(Main, l)
        /\ \/ l = "exit1" /\ UNCHANGED <<mu, left, schedOn, jobs>>
           \/ l = "starting" /\ UNCHANGED <<mu, schedOn>> /\ jobs' # {} /\ jobs' \subseteq Name /\ left' \subseteq left
           \/ l = "serving" /\ mu' = Free /\ schedOn' \in BOOLEAN /\ UNCHANGED <<left, jobs>> /\ left = {}
  BY <1>4
<1>6. /\ DOMAIN reg' \subseteq DOMAIN config /\ left' \subseteq Name /\ RestTypes'
      /\ \/ mu' = mu /\ (l \in Locked => pc[Main] \in Locked)
         \/ pc[Main] \in Locked /\ l \notin Locked
  BY <1>1, <1>2, <1>5 DEF PlanInv, FlowTypes, RestTypes, Locked
<1>7. /\ FlowTypes' /\ LockInv' /\ BusyInv' /\ PlanInv' /\ HandInv' /\ ShutInv'
      /\ Pending = {} /\ Pending' = {} /\ pc'[Main] = l /\ (l = "starting" \/ Missing' = {})
  BY <1>1, <1>2, <1>3, <1>5, <1>6, StartTurn
<1>8. StartInv'
  <2>1. l = "starting" => DependenciesUp'
    BY <1>1, <1>2, <1>7 DEF StartInv, DependenciesUp, IsReady
  <2>2. QED
    BY <1>1, <1>2, <1>5, <1>7, <2>1 DEF StartInv, DependenciesUp, Enabled
<1>9. AgreeInv'
  <2>1. CASE l = "serving"
    <3>1. Missing = {}
      BY <1>1, <1>5, <2>1 DEF Missing
    <3>2. QED
      BY <1>1, <1>2, <1>5, <1>7, <2>1, <3>1 DEF AgreeInv, Exited
  <2>2. CASE l # "serving"
    BY <1>5, <1>7, <2>2 DEF AgreeInv, Exited
  <2>3. QED
    BY <2>1, <2>2
<1>10. AliveInv'
  BY <1>1, <1>2, <1>7 DEF AliveInv, Enabled
<1>11. QED
  BY <1>3, <1>6, <1>7, <1>8, <1>9, <1>10 DEF ManagerInv, TypeInv

LEMMA StartRegularStep ==
  ASSUME ManagerInv, NEW n \in Name, StartRegular(n)
  PROVE  ManagerInv'
<1>1. FlowTypes /\ RestTypes /\ SupTypes /\ StartInv /\ PlanInv /\ AgreeInv /\ AliveInv /\ pc[Main] = "starting"
  BY DEF ManagerInv, TypeInv, StartRegular, InOrder
<1>2. n \in left /\ n \in Enabled(config) /\ n \in DOMAIN config /\ n \notin DOMAIN reg /\ DepsReady(n) /\ config[n] \in Cfg /\ HasRoom
  BY <1>1 DEF StartRegular, InOrder, StartInv, Enabled, RestTypes, IsConfig
<1>3. /\ UNCHANGED <<scn, config, sched, mu, call, obj, rest, plan, overlap, stopErr, deaths, draining, file>>
      /\ reg' = Put(reg, n, NewObj) /\ left' = left \ {n}
  BY DEF StartRegular, death, watch
<1>4. PICK s \in Sup, l \in {"starting", "exit1"} :
        /\ s.cfg = config[n] /\ (s.alive => s.state = "running")
        /\ Goes(Main, l) /\ Becomes(sup, NewObj, s)
        /\ failed' \in BOOLEAN /\ (failed => failed')
  <2> DEFINE new == New(config[n], TRUE)
  <2>1. new \in Sup /\ new.cfg = config[n] /\ ~new.alive
    BY <1>2, NewType
  <2>2. CASE config[n].initial = "running"
    <3>1. PICK ok \in StartOK :
            /\ sup' = [sup EXCEPT ![NewObj] = IF ok THEN Up(new) ELSE Failed(new)]
            /\ Note(ok)
            /\ IF ok THEN UNCHANGED pc ELSE Exit("exit1")
      BY <2>2 DEF StartRegular
    <3> HIDE DEF new
    <3>2. failed' \in BOOLEAN /\ (failed => failed')
      BY <3>1 DEF Note
    <3>3. CASE ok
      <4>1. PICK s \in Sup : s = Up(new) /\ s.cfg = config[n] /\ s.state = "running"
        BY <2>1, UpType
      <4>2. Goes(Main, "starting") /\ Becomes(sup, NewObj, s)
        BY <1>1, <3>1, <3>3, <4>1 DEF Goes, FlowTypes, Becomes
      <4>3. QED
        BY <3>2, <4>1, <4>2
    <3>4. CASE ~ok
      <4>1. PICK s \in Sup : s = Failed(new) /\ s.cfg = config[n] /\ ~s.alive
        BY <2>1, FailedType
      <4>2. Goes(Main, "exit1") /\ Becomes(sup, NewObj, s)
        BY <3>1, <3>4, <4>1 DEF Exit, Goes, Becomes
      <4>3. QED
        BY <3>2, <4>1, <4>2
    <3>5. QED
      BY <3>3, <3>4
  <2>3. CASE config[n].initial # "running"
    <3>1. sup' = [sup EXCEPT ![NewObj] = [new EXCEPT !.ready = TRUE]] /\ UNCHANGED <<pc, failed>>
      BY <2>3 DEF StartRegular
    <3> HIDE DEF new
    <3>2. PICK s \in Sup : s = [new EXCEPT !.ready = TRUE]
      BY <2>1 DEF Sup
    <3>3. s.cfg = config[n] /\ ~s.alive
      BY <2>1, <3>2 DEF Sup
    <3>4. Goes(Main, "starting") /\ Becomes(sup, NewObj, s)
      BY <1>1, <3>1, <3>2 DEF Goes, FlowTypes, Becomes
    <3>5. QED
      BY <1>1, <3>1, <3>3, <3>4 DEF RestTypes
  <2>4. QED
    BY <2>2, <2>3
<1>5. SupTypes' /\ OnlyOf(n) /\ n \in DOMAIN reg' /\ sup'[reg'[n]] = s
  <2>1. sup \in [Obj -> Sup]
    BY <1>1 DEF SupTypes
  <2>2. Gone(n, sup)
    BY <1>2 DEF Gone
  <2>3. QED
    BY <1>1, <1>2, <1>3, <1>4, <2>1, <2>2, PlaceEffect
<1>6. DOMAIN reg' = DOMAIN reg \cup {n} /\ \A m \in DOMAIN reg : reg'[m] = reg[m] /\ sup'[reg[m]] = sup[reg[m]]
  BY <1>2, <1>5 DEF OnlyOf
<1>7. DOMAIN reg' \subseteq DOMAIN config /\ left' \subseteq Name /\ RestTypes'
  BY <1>1, <1>2, <1>3, <1>4, <1>6 DEF PlanInv, FlowTypes, RestTypes, sched
<1>8. mu' = mu /\ pc[Main] \in Locked
  BY <1>1, <1>3 DEF Locked
<1>9. /\ FlowTypes' /\ LockInv' /\ BusyInv' /\ PlanInv' /\ HandInv' /\ ShutInv'
      /\ Pending = {} /\ Pending' = {} /\ pc'[Main] = l /\ (l = "starting" \/ Missing' = {})
  BY <1>1, <1>3, <1>4, <1>5, <1>7, <1>8, StartTurn
<1>10. StartInv'
  <2>1. ASSUME l = "starting" PROVE DependenciesUp'
    <3>1. \A d \in config[n].deps : d \in DOMAIN reg /\ IsReady(reg[d])
      BY <1>2 DEF DepsReady
    <3>2. \A m \in DOMAIN reg : \A d \in config[m].deps : d \in DOMAIN reg /\ IsReady(reg[d])
      BY <1>1 DEF StartInv, DependenciesUp
    <3>3. \A d \in DOMAIN reg : IsReady(reg[d]) => IsReady(reg[d])'
      BY <1>6 DEF IsReady
    <3>4. QED
      BY <1>3, <1>6, <3>1, <3>2, <3>3 DEF DependenciesUp
  <2>2. QED
    BY <1>1, <1>2, <1>3, <1>4, <1>6, <1>9, <2>1 DEF StartInv, DependenciesUp, Enabled
<1>11. AgreeInv'
  <2> SUFFICES ASSUME l = "starting", ~failed', jobs' = {}
               PROVE  /\ \A m \in DOMAIN config : m \in DOMAIN reg' <=> config[m].enabled /\ m \notin left'
                      /\ \A m \in DOMAIN reg' : Equal(sup'[reg'[m]].cfg, config[m])
    <3>1. l = "starting" => Missing' = left'
      BY <1>9 DEF Missing
    <3>2. QED
      BY <1>3, <1>4, <1>9, <3>1 DEF AgreeInv, Exited
  <2>1. /\ \A m \in DOMAIN config : m \in DOMAIN reg <=> config[m].enabled /\ m \notin left
        /\ \A m \in DOMAIN reg : Equal(sup[reg[m]].cfg, config[m])
    <3>1. Missing = left /\ ~Exited /\ ~failed /\ jobs = {} /\ pc[Main] # "boot"
      BY <1>1, <1>3, <1>4 DEF Missing, Exited, sched
    <3>2. QED
      BY <1>1, <1>9, <3>1 DEF AgreeInv
  <2>2. config[n].enabled
    BY <1>2 DEF Enabled
  <2>3. QED
    BY <1>2, <1>3, <1>4, <1>5, <1>6, <2>1, <2>2, EqualSelf
<1>12. AliveInv'
  <2> SUFFICES ASSUME ~overlap
               PROVE  /\ \A o \in Obj : sup'[o].alive => \E m \in DOMAIN reg' : reg'[m] = o
                      /\ \A m \in DOMAIN reg' : sup'[reg'[m]].state # "stopped" => m \in Enabled(config)
    BY <1>3, <1>9 DEF AliveInv, Enabled
  <2>1. /\ \A o \in Obj : sup[o].alive => \E m \in DOMAIN reg : reg[m] = o
        /\ \A m \in DOMAIN reg : sup[reg[m]].state # "stopped" => m \in Enabled(config)
    BY <1>1, <1>9 DEF AliveInv
  <2>2. \A o \in Obj : sup'[o].alive => o = reg'[n] \/ sup[o].alive
    BY <1>5 DEF OnlyOf
  <2>3. QED
    BY <1>2, <1>5, <1>6, <2>1, <2>2
<1>13. QED
  BY <1>5, <1>7, <1>9, <1>10, <1>11, <1>12 DEF ManagerInv, TypeInv

-----------------------------------------------------------------------------
(* API requests that change the maps *)

LEMMA MapsTurn ==
  ASSUME ManagerInv, NEW a \in Caller, NEW l \in {"idle", "restartAll"}, Goes(a, l),
         pc[a] \in {"add", "remove", "update"}, mu = Free, Serving,
         UNCHANGED <<scn, sched, mu, left, plan, stopErr, signal, death, watch, overlap>>,
         call' = [b \in Caller |-> call'[b]], obj' \in [Caller -> Obj \cup {0}], rest' \in [Caller -> SUBSET Name],
         \A b \in Caller \ {a} : call'[b] = call[b] /\ obj'[b] = obj[b],
         SupTypes', IsConfig(config)', failed' \in BOOLEAN, failed => failed',
         NEW n \in Name, OnlyOf(n),
         \A m \in Name \ {n} : /\ m \in DOMAIN config' <=> m \in DOMAIN config
                               /\ m \in DOMAIN config => config'[m] = config[m],
         n \in DOMAIN reg' => n \in DOMAIN config',
         n \in DOMAIN reg' /\ sup'[reg'[n]].state # "stopped" => config'[n].enabled,
         ~failed' /\ n \in DOMAIN config' =>
           /\ n \in DOMAIN reg' <=> config'[n].enabled
           /\ n \in DOMAIN reg' => Equal(sup'[reg'[n]].cfg, config'[n])
  PROVE  ManagerInv'
<1>1. /\ FlowTypes /\ RestTypes /\ SupTypes /\ LockInv /\ BusyInv /\ PlanInv /\ AgreeInv /\ HandInv /\ AliveInv /\ ShutInv
      /\ DOMAIN reg \subseteq Name /\ DOMAIN config \subseteq Name /\ DOMAIN config' \subseteq Name
  BY DEF ManagerInv, TypeInv, SupTypes, RestTypes, IsConfig
<1>2. /\ a \in Actor /\ Main \in Actor /\ a # Main /\ pc'[Main] = pc[Main] /\ pc'[a] = l
      /\ Caller \subseteq Actor /\ Main \notin Caller
      /\ \A b \in Actor \ {a} : pc'[b] = pc[b]
  BY <1>1, GoesTo DEF Actor
<1>3. pc[Main] \notin {"boot", "starting", "exit0", "exit1"}
  BY DEF Serving
<1>4. \A b \in Actor : pc[b] \notin Locked
  BY <1>1, <1>2, Alone DEF Locked
<1>5. l \notin Locked /\ l \notin HandAt /\ l \notin {"boot", "add", "update", "startAct", "restartAct"} /\ l \in CallerAt
  BY DEF Locked, HandAt, CallerAt
<1>6. \A b \in Actor : pc'[b] \notin Locked
  BY <1>2, <1>4, <1>5
<1>7. Pending = {} /\ Pending' = {} /\ Missing = {} /\ Missing' = {}
  BY <1>2, <1>4, <1>6 DEF Pending, Missing, Locked
<1>8. FlowTypes'
  <2>1. /\ pc' \in [Actor -> MainAt \cup CallerAt] /\ pc'[Main] \in MainAt
        /\ \A b \in Caller : pc'[b] \in CallerAt
    BY <1>1, <1>2, <1>5, GoesTypes
  <2>2. \A b \in Caller : pc'[b] \in {"add", "update"} \cup HandAt => b # a /\ pc'[b] = pc[b]
    BY <1>2, <1>5
  <2>3. QED
    BY <1>1, <2>1, <2>2 DEF FlowTypes
<1>9. RestTypes'
  BY <1>1 DEF RestTypes, sched, death, watch
<1>10. LockInv'
  BY <1>6 DEF LockInv
<1>11. Busy(a)
  BY <1>2 DEF Busy
<1>12. BusyInv'
  BY <1>1, <1>2, <1>3, <1>5, <1>11, BusyStep DEF Locked
<1>13. StartInv'
  BY <1>2, <1>3 DEF StartInv, DependenciesUp
<1>14. \A m \in DOMAIN reg' \ {n} : /\ m \in DOMAIN reg /\ m \in Name /\ reg'[m] = reg[m] /\ sup'[reg'[m]] = sup[reg[m]]
  BY <1>1 DEF OnlyOf
<1>15. PlanInv'
  <2>1. DOMAIN reg' \subseteq DOMAIN config'
    BY <1>1, <1>14 DEF PlanInv
  <2>2. QED
    BY <1>6, <2>1 DEF PlanInv, Locked
<1>16. AgreeInv'
  <2> SUFFICES ASSUME ~failed', jobs' = {}
               PROVE  /\ \A m \in DOMAIN config' : m \in DOMAIN reg' <=> config'[m].enabled
                      /\ \A m \in DOMAIN reg' : Equal(sup'[reg'[m]].cfg, config'[m])
    BY <1>7 DEF AgreeInv
  <2>1. /\ \A m \in DOMAIN config : m \in DOMAIN reg <=> config[m].enabled
        /\ \A m \in DOMAIN reg : Equal(sup[reg[m]].cfg, config[m])
    BY <1>1, <1>3, <1>7 DEF AgreeInv, sched, Exited
  <2>2. \A m \in DOMAIN reg \ {n} : m \in DOMAIN reg'
    BY DEF OnlyOf
  <2>3. QED
    BY <1>1, <1>14, <2>1, <2>2 DEF PlanInv
<1>17. ~overlap => pc[Main] = "serving" /\ \A b \in Caller \ {a} : pc[b] = "idle"
  BY <1>1, <1>2, <1>11 DEF BusyInv, Busy
<1>18. HandInv'
  BY <1>2, <1>5, <1>17 DEF HandInv
<1>19. AliveInv'
  <2> SUFFICES ASSUME ~overlap
               PROVE  /\ \A o \in Obj : sup'[o].alive => \E m \in DOMAIN reg' : reg'[m] = o
                      /\ \A m \in DOMAIN reg' : sup'[reg'[m]].state # "stopped" => m \in DOMAIN config' /\ config'[m].enabled
    BY <1>7 DEF AliveInv, Enabled
  <2>1. /\ \A o \in Obj : sup[o].alive => \E m \in DOMAIN reg : reg[m] = o
        /\ \A m \in DOMAIN reg : sup[reg[m]].state # "stopped" => m \in DOMAIN config /\ config[m].enabled
    BY <1>1, <1>7 DEF AliveInv, Enabled
  <2>2. ASSUME NEW o \in Obj, sup'[o].alive
        PROVE  \E m \in DOMAIN reg' : reg'[m] = o
    BY <2>1, <2>2 DEF OnlyOf
  <2>3. QED
    BY <1>14, <2>1, <2>2
<1>20. ShutInv'
  <2>1. pc[Main] # "stopping"
    BY <1>2, <1>4 DEF Locked
  <2>2. QED
    BY <1>1, <1>2, <1>17, <2>1 DEF ShutInv, sched
<1>21. QED
  BY <1>8, <1>9, <1>10, <1>12, <1>13, <1>15, <1>16, <1>18, <1>19, <1>20 DEF ManagerInv, TypeInv

LEMMA AddProcessStep ==
  ASSUME ManagerInv, NEW a \in Caller, AddProcess(a)
  PROVE  ManagerInv'
<1>1. FlowTypes /\ RestTypes /\ SupTypes /\ PlanInv /\ pc[a] = "add" /\ mu = Free /\ Serving /\ Return(a)
  BY DEF ManagerInv, TypeInv, AddProcess, Lookup
<1>2. UNCHANGED <<scn, sched, mu, rest, left, plan, stopErr, signal, death, watch, overlap>>
  BY DEF AddProcess
<1>3. CASE N(a) \in DOMAIN config
  <2>1. Steady /\ UNCHANGED <<sup, failed, overlap, rest>> /\ pc[a] \in Ordinary
    BY <1>1, <1>2, <1>3 DEF AddProcess, conf, Steady, Ordinary, CallerAt
  <2>2. QED
    BY <1>1, <2>1, RequestReturns
<1>4. CASE N(a) \notin DOMAIN config
  <2>1. PICK up \in StartsOf(call[a].cfg) :
          /\ Apply(N(a), call[a].cfg, NothingToStop, up)
          /\ config' = IF up THEN Put(config, N(a), call[a].cfg) ELSE config
    BY <1>4 DEF AddProcess
  <2>2. PICK n \in Name, c \in Cfg : n = N(a) /\ c = call[a].cfg
    BY <1>1 DEF FlowTypes, N
  <2>3. n \notin DOMAIN config /\ n \notin DOMAIN reg /\ NothingToStop \in StopsOf(n) /\ NothingToStop.ok /\ up \in BOOLEAN
    BY <1>1, <1>4, <2>1, <2>2, StartsTypes DEF PlanInv, StopsOf, NothingToStop, RestTypes
  <2>4. /\ SupTypes' /\ OnlyOf(n)
        /\ up => (n \in DOMAIN reg' <=> c.enabled) /\ (n \in DOMAIN reg' => sup'[reg'[n]].cfg = c)
        /\ n \in DOMAIN reg' => c.enabled /\ up
        /\ failed' = (failed \/ ~up)
    BY <1>1, <2>1, <2>2, <2>3, ApplyEffect DEF RestTypes
  <2>5. /\ IsConfig(config)'
        /\ \A m \in Name \ {n} : /\ m \in DOMAIN config' <=> m \in DOMAIN config
                                 /\ m \in DOMAIN config => config'[m] = config[m]
        /\ up => n \in DOMAIN config' /\ config'[n] = c
        /\ ~up => n \notin DOMAIN config'
    <3>1. CASE up
      <4>1. config' = Put(config, n, c)
        BY <2>1, <2>2, <3>1
      <4>2. IsConfig(config')
        BY <1>1, <4>1, PutConfig DEF RestTypes
      <4>3. QED
        BY <3>1, <4>1, <4>2 DEF Put
    <3>2. CASE ~up
      BY <1>1, <2>1, <2>3, <3>2 DEF RestTypes, IsConfig
    <3>3. QED
      BY <2>3, <3>1, <3>2
  <2>6. PICK l \in {"idle", "restartAll"} : l = After(a)
    BY <1>1, ReturnFacts
  <2>7. /\ Goes(a, l) /\ call' = [b \in Caller |-> call'[b]] /\ obj' \in [Caller -> Obj \cup {0}]
        /\ \A b \in Caller \ {a} : call'[b] = call[b] /\ obj'[b] = obj[b]
    BY <1>1, <2>6, ReturnFacts
  <2>8. rest' \in [Caller -> SUBSET Name] /\ failed' \in BOOLEAN /\ (failed => failed')
    BY <1>1, <1>2, <2>4 DEF FlowTypes
  <2>9. ~failed' /\ n \in DOMAIN config' =>
          /\ n \in DOMAIN reg' <=> config'[n].enabled
          /\ n \in DOMAIN reg' => Equal(sup'[reg'[n]].cfg, config'[n])
    BY <2>3, <2>4, <2>5, EqualSelf
  <2>10. pc[a] \in {"add", "remove", "update"}
    BY <1>1
  <2>11. (n \in DOMAIN reg' => n \in DOMAIN config') /\ (n \in DOMAIN reg' => config'[n].enabled)
    BY <2>4, <2>5
  <2>12. QED
    BY <1>1, <1>2, <2>4, <2>5, <2>6, <2>7, <2>8, <2>9, <2>10, <2>11, MapsTurn
<1>5. QED
  BY <1>3, <1>4

LEMMA RemoveProcessStep ==
  ASSUME ManagerInv, NEW a \in Caller, RemoveProcess(a)
  PROVE  ManagerInv'
<1>1. FlowTypes /\ RestTypes /\ SupTypes /\ PlanInv /\ AliveInv /\ pc[a] = "remove" /\ mu = Free /\ Serving /\ Return(a)
  BY DEF ManagerInv, TypeInv, RemoveProcess, Lookup
<1>2. UNCHANGED <<scn, sched, mu, rest, left, plan, stopErr, signal, death, watch, overlap>>
  BY DEF RemoveProcess
<1>3. CASE N(a) \notin DOMAIN config
  <2>1. Steady /\ UNCHANGED <<sup, failed, overlap, rest>> /\ pc[a] \in Ordinary
    BY <1>1, <1>2, <1>3 DEF RemoveProcess, conf, Steady, Ordinary, CallerAt
  <2>2. QED
    BY <1>1, <2>1, RequestReturns
<1>4. CASE N(a) \in DOMAIN config
  <2>1. PICK n \in Name : n = N(a) /\ n \in DOMAIN config
    BY <1>1, <1>4 DEF RestTypes, IsConfig
  <2>2. PICK r \in StopsOf(n) :
          /\ sup' = IF n \notin DOMAIN reg THEN sup
                    ELSE [sup EXCEPT ![reg[n]] = IF r.ok THEN Dropped(reg[n], r) ELSE Down(@, r)]
          /\ IF r.ok THEN reg' = Del(reg, n) /\ config' = Del(config, n) ELSE UNCHANGED <<reg, config>>
          /\ Note(r.ok)
    BY <1>4, <2>1 DEF RemoveProcess
  <2>3. r.ok \in BOOLEAN /\ r.told \in BOOLEAN /\ (n \notin DOMAIN reg => r.ok)
    BY StopsTypes DEF StopsOf, NothingToStop
  <2>4. /\ SupTypes' /\ OnlyOf(n)
        /\ r.ok => n \notin DOMAIN reg'
        /\ n \in DOMAIN reg' => sup'[reg'[n]].state = "stopped"
    <3>1. CASE n \notin DOMAIN reg
      <4>1. reg' = reg /\ sup' = sup
        BY <1>1, <2>2, <2>3, <3>1 DEF Del, SupTypes
      <4>2. QED
        BY <1>1, <3>1, <4>1 DEF SupTypes, OnlyOf
    <3>2. CASE n \in DOMAIN reg /\ r.ok
      <4>1. Becomes(sup, reg[n], Dropped(reg[n], r)) /\ reg' = Del(reg, n)
        BY <2>2, <3>2 DEF Becomes
      <4>2. SupTypes' /\ OnlyOf(n) /\ n \notin DOMAIN reg'
        BY <1>1, <2>3, <3>2, <4>1, DropEffect
      <4>3. QED
        BY <4>2
    <3>3. CASE n \in DOMAIN reg /\ ~r.ok
      <4>1. Becomes(sup, reg[n], Down(sup[reg[n]], r)) /\ UNCHANGED reg
        BY <2>2, <3>3 DEF Becomes
      <4>2. SupTypes' /\ OnlyOf(n) /\ sup'[reg'[n]].state = "stopped"
        BY <1>1, <2>3, <3>3, <4>1, DownEffect
      <4>3. QED
        BY <3>3, <4>2
    <3>4. QED
      BY <2>3, <3>1, <3>2, <3>3
  <2>5. /\ IsConfig(config)'
        /\ \A m \in Name \ {n} : /\ m \in DOMAIN config' <=> m \in DOMAIN config
                                 /\ m \in DOMAIN config => config'[m] = config[m]
        /\ r.ok => n \notin DOMAIN config'
        /\ ~r.ok => config' = config
    <3>1. CASE r.ok
      <4>1. config' = Del(config, n)
        BY <2>2, <3>1
      <4>2. IsConfig(config')
        BY <1>1, <4>1, DelConfig DEF RestTypes
      <4>3. QED
        BY <3>1, <4>1, <4>2, DelFacts DEF IsConfig
    <3>2. CASE ~r.ok
      BY <1>1, <2>2, <3>2 DEF RestTypes, IsConfig
    <3>3. QED
      BY <2>3, <3>1, <3>2
  <2>6. PICK l \in {"idle", "restartAll"} : l = After(a)
    BY <1>1, ReturnFacts
  <2>7. /\ Goes(a, l) /\ call' = [b \in Caller |-> call'[b]] /\ obj' \in [Caller -> Obj \cup {0}]
        /\ \A b \in Caller \ {a} : call'[b] = call[b] /\ obj'[b] = obj[b]
    BY <1>1, <2>6, ReturnFacts
  <2>8. rest' \in [Caller -> SUBSET Name] /\ failed' \in BOOLEAN /\ (failed => failed') /\ (~failed' => r.ok)
    BY <1>1, <1>2, <2>2 DEF FlowTypes, Note
  <2>9. pc[a] \in {"add", "remove", "update"}
    BY <1>1
  <2>10. n \in DOMAIN reg' => n \in DOMAIN config'
    BY <2>1, <2>3, <2>4, <2>5
  <2>11. /\ ~(~failed' /\ n \in DOMAIN config')
         /\ ~(n \in DOMAIN reg' /\ sup'[reg'[n]].state # "stopped")
    BY <2>4, <2>5, <2>8
  <2>12. QED
    BY <1>1, <1>2, <2>4, <2>5, <2>6, <2>7, <2>8, <2>9, <2>10, <2>11, MapsTurn
<1>5. QED
  BY <1>3, <1>4

LEMMA UpdateProcessStep ==
  ASSUME ManagerInv, NEW a \in Caller, UpdateProcess(a)
  PROVE  ManagerInv'
<1>1. FlowTypes /\ RestTypes /\ SupTypes /\ PlanInv /\ pc[a] = "update" /\ mu = Free /\ Serving
  BY DEF ManagerInv, TypeInv, UpdateProcess, Lookup
<1>2. UNCHANGED <<scn, sched, mu, left, plan, stopErr, signal, death, watch, overlap>>
  BY DEF UpdateProcess
<1>3. CASE N(a) \notin DOMAIN config
  <2>1. Steady /\ UNCHANGED <<sup, failed, overlap, rest>> /\ pc[a] \in Ordinary /\ Return(a)
    BY <1>1, <1>2, <1>3 DEF UpdateProcess, conf, Steady, Ordinary, CallerAt
  <2>2. QED
    BY <1>1, <2>1, RequestReturns
<1>4. CASE N(a) \in DOMAIN config
  <2>1. PICK r \in StopsOf(N(a)), up \in StartsOf(call[a].cfg) :
          /\ Apply(N(a), call[a].cfg, r, up)
          /\ IF r.ok /\ up
             THEN /\ config' = Put(config, N(a), call[a].cfg)
                  /\ rest' = [rest EXCEPT ![a] = DOMAIN reg'] /\ Goto(a, "restartAll") /\ UNCHANGED <<obj, call>>
             ELSE UNCHANGED <<config, rest>> /\ Return(a)
    BY <1>4 DEF UpdateProcess
  <2>2. PICK n \in Name, c \in Cfg : n = N(a) /\ c = call[a].cfg /\ n \in DOMAIN config
    BY <1>1, <1>4 DEF FlowTypes, N
  <2>3. r.ok \in BOOLEAN /\ up \in BOOLEAN
    BY <1>1, <2>1, StopsTypes, StartsTypes DEF RestTypes
  <2>4. /\ SupTypes' /\ OnlyOf(n)
        /\ r.ok /\ up => (n \in DOMAIN reg' <=> c.enabled) /\ (n \in DOMAIN reg' => sup'[reg'[n]].cfg = c)
        /\ n \in DOMAIN reg' /\ sup'[reg'[n]].state # "stopped" => c.enabled /\ up /\ r.ok
        /\ failed' = (failed \/ ~(r.ok /\ up))
    <3>1. r \in StopsOf(n) /\ up \in StartsOf(c) /\ Apply(n, c, r, up)
      BY <2>1, <2>2
    <3>2. QED
      BY <1>1, <3>1, ApplyEffect DEF RestTypes
  <2>5. /\ IsConfig(config)' /\ n \in DOMAIN config'
        /\ \A m \in Name \ {n} : /\ m \in DOMAIN config' <=> m \in DOMAIN config
                                 /\ m \in DOMAIN config => config'[m] = config[m]
        /\ r.ok /\ up => config'[n] = c
    <3>1. CASE r.ok /\ up
      <4>1. config' = Put(config, n, c)
        BY <2>1, <2>2, <3>1
      <4>2. IsConfig(config')
        BY <1>1, <4>1, PutConfig DEF RestTypes
      <4>3. QED
        BY <3>1, <4>1, <4>2 DEF Put
    <3>2. CASE ~(r.ok /\ up)
      BY <1>1, <2>1, <2>2, <3>2 DEF RestTypes, IsConfig
    <3>3. QED
      BY <2>3, <3>1, <3>2
  <2>6. \E l \in {"idle", "restartAll"} : Goes(a, l)
    <3>1. CASE r.ok /\ up
      BY <2>1, <3>1 DEF Goto, Goes
    <3>2. CASE ~(r.ok /\ up)
      BY <1>1, <2>1, <3>2, ReturnFacts
    <3>3. QED
      BY <3>1, <3>2
  <2>7. /\ call' = [b \in Caller |-> call'[b]] /\ obj' \in [Caller -> Obj \cup {0}]
        /\ \A b \in Caller \ {a} : call'[b] = call[b] /\ obj'[b] = obj[b]
    <3>1. CASE r.ok /\ up
      BY <1>1, <2>1, <3>1 DEF FlowTypes
    <3>2. CASE ~(r.ok /\ up)
      <4>1. Return(a)
        BY <2>1, <3>2
      <4>2. QED
        BY <1>1, <4>1, ReturnFacts
    <3>3. QED
      BY <3>1, <3>2
  <2>8. rest' \in [Caller -> SUBSET Name] /\ failed' \in BOOLEAN /\ (failed => failed')
    <3>1. rest' = rest \/ rest' = [rest EXCEPT ![a] = DOMAIN reg']
      BY <2>1
    <3>2. DOMAIN reg' \subseteq Name
      BY <2>4 DEF SupTypes
    <3>3. QED
      BY <1>1, <2>3, <2>4, <3>1, <3>2 DEF FlowTypes
  <2>9. ~failed' =>
          /\ n \in DOMAIN reg' <=> config'[n].enabled
          /\ n \in DOMAIN reg' => Equal(sup'[reg'[n]].cfg, config'[n])
    BY <2>3, <2>4, <2>5, EqualSelf
  <2>10. n \in DOMAIN reg' /\ sup'[reg'[n]].state # "stopped" => config'[n].enabled
    BY <2>4, <2>5
  <2>11. pc[a] \in {"add", "remove", "update"}
    BY <1>1
  <2>12. QED
    BY <1>1, <1>2, <2>4, <2>5, <2>6, <2>7, <2>8, <2>9, <2>10, <2>11, MapsTurn
<1>5. QED
  BY <1>3, <1>4

-----------------------------------------------------------------------------
(* ReloadConfig *)

\* What is left to show of a step of a reload.
LEMMA ReloadTurn ==
  ASSUME ManagerInv, NEW a \in Actor, pc[a] \in {"reload", "removing", "replacing"}, ~Exited,
         NEW l \in {"serving", "idle", "restartAll", "removing", "replacing"}, Goes(a, l),
         l = "serving" => a = Main, l \in {"idle", "restartAll"} => a # Main,
         mu = Free \/ pc[a] \in Locked, mu' \in Actor \cup {Free},
         \/ mu' = mu /\ (l \in Locked => pc[a] \in Locked)
         \/ mu = Free /\ mu' = a
         \/ pc[a] \in Locked /\ l \notin Locked,
         UNCHANGED <<scn, sched, call, obj, rest, left, stopErr, signal, death, watch, overlap>>,
         pc[a] = "reload" => UNCHANGED reg,
         IsConfig(config)', IsConfig(plan.new)', plan'.stop \subseteq Name, plan'.start \subseteq Name, plan'.update \subseteq Name,
         plan' = [new |-> plan'.new, stop |-> plan'.stop, start |-> plan'.start, update |-> plan'.update],
         failed' \in BOOLEAN
  PROVE  /\ FlowTypes' /\ RestTypes' /\ LockInv' /\ BusyInv' /\ StartInv' /\ HandInv' /\ ShutInv'
         /\ \A b \in Actor \ {a} : pc[b] \notin Locked /\ pc'[b] \notin Locked
         /\ pc'[a] = l /\ pc[Main] # "boot"
         /\ Pending = IF pc[a] = "replacing" THEN plan.start \cup plan.update ELSE {}
         /\ Pending' = IF l = "replacing" THEN plan'.start \cup plan'.update ELSE {}
         /\ Missing = IF pc[a] = "removing" THEN DOMAIN config \ (DOMAIN plan.new \cup plan.stop) ELSE {}
         /\ Missing' = IF l = "removing" THEN DOMAIN config' \ (DOMAIN plan'.new \cup plan'.stop) ELSE {}
<1>1. FlowTypes /\ RestTypes /\ LockInv /\ BusyInv /\ HandInv /\ ShutInv
  BY DEF ManagerInv, TypeInv
<1>2. /\ Main \in Actor /\ Main \notin Caller /\ Caller \subseteq Actor /\ (a # Main => a \in Caller) /\ pc'[a] = l
      /\ \A b \in Actor \ {a} : pc'[b] = pc[b]
  BY <1>1, GoesTo DEF Actor
<1>3. \A b \in Actor \ {a} : pc[b] \notin Locked /\ pc'[b] \notin Locked
  BY <1>1, <1>2, Alone
<1>4. Busy(a)
  BY <1>2 DEF Busy
<1>5. pc[Main] \notin {"boot", "starting"} /\ pc'[Main] \notin {"boot", "starting"}
  BY <1>1, <1>2 DEF BusyInv
<1>6. /\ pc' \in [Actor -> MainAt \cup CallerAt] /\ pc'[Main] \in MainAt
      /\ \A b \in Caller : pc'[b] \in CallerAt
  <2>1. IF a = Main THEN l \in MainAt ELSE l \in CallerAt
    BY DEF MainAt, CallerAt
  <2>2. QED
    BY <1>1, <2>1, GoesTypes
<1>7. \A b \in Caller : pc'[b] \in {"add", "update", "startAct", "restartAct"} \cup HandAt => b # a /\ pc'[b] = pc[b]
  BY <1>2 DEF HandAt
<1>8. FlowTypes'
  BY <1>1, <1>6, <1>7 DEF FlowTypes
<1>9. RestTypes'
  BY <1>1 DEF RestTypes, sched, death, watch
<1>10. LockInv'
  BY <1>1, LockStep
<1>11. BusyInv'
  BY <1>1, <1>4, <1>5, BusyStep
<1>12. StartInv'
  BY <1>5 DEF StartInv, DependenciesUp
<1>13. ~overlap => (a # Main => pc[Main] = "serving") /\ \A b \in Caller \ {a} : pc[b] = "idle"
  BY <1>1, <1>2, <1>4 DEF BusyInv, Busy
<1>14. HandInv'
  BY <1>2, <1>7, <1>13 DEF HandInv
<1>15. ShutInv'
  <2>1. pc'[Main] = "stopping" => pc[Main] = "stopping" /\ UNCHANGED reg
    BY <1>2, <1>3 DEF Locked
  <2>2. ~overlap => pc'[Main] \notin {"stopping", "closing", "exit0"}
    BY <1>2, <1>13
  <2>3. pc'[Main] \in {"draining", "stopping", "closing", "exit0"} => pc'[Main] = pc[Main]
    BY <1>2
  <2>4. QED
    BY <1>1, <2>1, <2>2, <2>3 DEF ShutInv, sched
<1>16. /\ Pending = IF pc[a] = "replacing" THEN plan.start \cup plan.update ELSE {}
       /\ Pending' = IF l = "replacing" THEN plan'.start \cup plan'.update ELSE {}
  BY <1>2, <1>3 DEF Pending, Locked
<1>17. /\ Missing = IF pc[a] = "removing" THEN DOMAIN config \ (DOMAIN plan.new \cup plan.stop) ELSE {}
       /\ Missing' = IF l = "removing" THEN DOMAIN config' \ (DOMAIN plan'.new \cup plan'.stop) ELSE {}
  BY <1>2, <1>3, <1>5 DEF Missing, Locked
<1>18. QED
  BY <1>2, <1>3, <1>5, <1>8, <1>9, <1>10, <1>11, <1>12, <1>14, <1>15, <1>16, <1>17

\* Where ReloadConfig returns to.
LEMMA AfterReload ==
  ASSUME NEW a \in Actor
  PROVE  /\ After(a) \in {"serving", "idle", "restartAll"} /\ After(a) \notin Locked
         /\ After(a) = "serving" => a = Main
         /\ After(a) \in {"idle", "restartAll"} => a # Main
BY DEF After, Locked

LEMMA ReloadBeginStep ==
  ASSUME ManagerInv, NEW a \in Actor, ReloadBegin(a)
  PROVE  ManagerInv'
<1>1. /\ FlowTypes /\ RestTypes /\ SupTypes /\ PlanInv /\ AgreeInv /\ AliveInv
      /\ ~Exited /\ pc[a] = "reload" /\ mu = Free
  BY DEF ManagerInv, TypeInv, ReloadBegin
<1>2. /\ UNCHANGED <<scn, sched, call, obj, rest, left, stopErr, signal, death, watch, overlap>>
      /\ UNCHANGED <<config, reg, sup, jobs, failed>>
  BY DEF ReloadBegin, conf, sched
<1>3. \E l \in {"serving", "idle", "restartAll", "removing"} :
        /\ Goes(a, l) /\ (l = "serving" => a = Main) /\ (l \in {"idle", "restartAll"} => a # Main)
        /\ \/ l # "removing" /\ l \notin Locked /\ UNCHANGED <<mu, plan>>
           \/ /\ l = "removing" /\ mu' = a
              /\ plan' = [new |-> file.procs,
                          stop |-> DOMAIN config \ DOMAIN file.procs,
                          start |-> DOMAIN file.procs \ DOMAIN config,
                          update |-> {n \in DOMAIN config \cap DOMAIN file.procs : ~Equal(config[n], file.procs[n])}]
  <2>1. CASE file.ok
    BY <2>1 DEF ReloadBegin, Goto, Goes
  <2>2. CASE ~file.ok
    BY <2>2, AfterReload DEF ReloadBegin, Goto, Goes
  <2>3. QED
    BY <2>1, <2>2
<1>4. PICK l \in {"serving", "idle", "restartAll", "removing"} :
        /\ Goes(a, l) /\ (l = "serving" => a = Main) /\ (l \in {"idle", "restartAll"} => a # Main)
        /\ \/ l # "removing" /\ l \notin Locked /\ UNCHANGED <<mu, plan>>
           \/ /\ l = "removing" /\ mu' = a
              /\ plan' = [new |-> file.procs,
                          stop |-> DOMAIN config \ DOMAIN file.procs,
                          start |-> DOMAIN file.procs \ DOMAIN config,
                          update |-> {n \in DOMAIN config \cap DOMAIN file.procs : ~Equal(config[n], file.procs[n])}]
  BY <1>3
<1>5. /\ IsConfig(config)' /\ IsConfig(plan.new)'
      /\ plan'.stop \subseteq Name /\ plan'.start \subseteq Name /\ plan'.update \subseteq Name
      /\ plan' = [new |-> plan'.new, stop |-> plan'.stop, start |-> plan'.start, update |-> plan'.update]
  <2>1. IsConfig(config) /\ IsConfig(file.procs) /\ DOMAIN config \subseteq Name /\ DOMAIN file.procs \subseteq Name
    BY <1>1 DEF RestTypes, IsConfig
  <2>2. CASE UNCHANGED plan
    BY <1>1, <1>2, <2>1, <2>2 DEF FlowTypes, IsConfig
  <2>3. CASE l = "removing"
    <3>1. /\ plan'.new = file.procs /\ plan'.stop = DOMAIN config \ DOMAIN file.procs
          /\ plan'.start = DOMAIN file.procs \ DOMAIN config
          /\ plan'.update = {n \in DOMAIN config \cap DOMAIN file.procs : ~Equal(config[n], file.procs[n])}
          /\ plan' = [new |-> plan'.new, stop |-> plan'.stop, start |-> plan'.start, update |-> plan'.update]
      BY <1>4, <2>3
    <3>2. IsConfig(config)' /\ IsConfig(plan.new)'
      BY <1>2, <2>1, <3>1 DEF IsConfig
    <3>3. QED
      BY <2>1, <3>1, <3>2
  <2>4. QED
    BY <1>4, <2>2, <2>3
<1>6. /\ FlowTypes' /\ RestTypes' /\ LockInv' /\ BusyInv' /\ StartInv' /\ HandInv' /\ ShutInv'
      /\ \A b \in Actor \ {a} : pc[b] \notin Locked /\ pc'[b] \notin Locked
      /\ pc'[a] = l /\ pc[Main] # "boot"
      /\ Pending = {} /\ Pending' = {} /\ Missing = {}
      /\ Missing' = IF l = "removing" THEN DOMAIN config' \ (DOMAIN plan'.new \cup plan'.stop) ELSE {}
  <2>1. failed' \in BOOLEAN /\ mu' \in Actor \cup {Free}
    BY <1>1, <1>2, <1>4 DEF RestTypes
  <2>2. /\ FlowTypes' /\ RestTypes' /\ LockInv' /\ BusyInv' /\ StartInv' /\ HandInv' /\ ShutInv'
        /\ \A b \in Actor \ {a} : pc[b] \notin Locked /\ pc'[b] \notin Locked
        /\ pc'[a] = l /\ pc[Main] # "boot"
        /\ Pending = IF pc[a] = "replacing" THEN plan.start \cup plan.update ELSE {}
        /\ Pending' = IF l = "replacing" THEN plan'.start \cup plan'.update ELSE {}
        /\ Missing = IF pc[a] = "removing" THEN DOMAIN config \ (DOMAIN plan.new \cup plan.stop) ELSE {}
        /\ Missing' = IF l = "removing" THEN DOMAIN config' \ (DOMAIN plan'.new \cup plan'.stop) ELSE {}
    BY <1>1, <1>2, <1>4, <1>5, <2>1, ReloadTurn
  <2>3. QED
    BY <1>1, <1>4, <2>2
<1>7. SupTypes'
  BY <1>1, <1>2 DEF SupTypes
<1>8. Missing' = {}
  <2>1. l = "removing" => plan'.new = file.procs /\ plan'.stop = DOMAIN config \ DOMAIN file.procs
    BY <1>4
  <2>2. QED
    BY <1>2, <1>6, <2>1
<1>9. PlanInv'
  <2>1. CASE l = "removing"
    <3>1. /\ plan'.new = file.procs /\ plan'.stop = DOMAIN config \ DOMAIN file.procs
          /\ plan'.start = DOMAIN file.procs \ DOMAIN config
          /\ plan'.update = {n \in DOMAIN config \cap DOMAIN file.procs : ~Equal(config[n], file.procs[n])}
      BY <1>4, <2>1
    <3>2. DOMAIN reg \subseteq DOMAIN config
      BY <1>1 DEF PlanInv
    <3>3. \A b \in Actor : pc'[b] # "replacing"
      BY <1>6, <2>1 DEF Locked
    <3>4. /\ plan'.stop \subseteq DOMAIN config \ DOMAIN plan'.new
          /\ DOMAIN reg \subseteq DOMAIN plan'.new \cup plan'.stop
          /\ plan'.start = DOMAIN plan'.new \ DOMAIN config
          /\ plan'.update = {n \in DOMAIN config \cap DOMAIN plan'.new : ~Equal(config[n], plan'.new[n])}
      BY <3>1, <3>2
    <3>5. QED
      BY <1>2, <3>2, <3>3, <3>4 DEF PlanInv
  <2>2. CASE l # "removing"
    <3>1. \A b \in Actor : pc'[b] \notin {"removing", "replacing"}
      BY <1>4, <1>6, <2>2 DEF Locked
    <3>2. QED
      BY <1>1, <1>2, <3>1 DEF PlanInv
  <2>3. QED
    BY <2>1, <2>2
<1>10. AgreeInv'
  BY <1>1, <1>2, <1>6, <1>8 DEF AgreeInv, Exited
<1>11. AliveInv'
  BY <1>1, <1>2, <1>6 DEF AliveInv, Enabled
<1>12. QED
  BY <1>6, <1>7, <1>9, <1>10, <1>11 DEF ManagerInv, TypeInv

LEMMA ReloadEndStep ==
  ASSUME ManagerInv, NEW a \in Actor, ReloadEnd(a)
  PROVE  ManagerInv'
<1>1. /\ FlowTypes /\ RestTypes /\ SupTypes /\ PlanInv /\ AgreeInv /\ AliveInv
      /\ ~Exited /\ pc[a] = "replacing" /\ plan.start = {} /\ plan.update = {} /\ mu' = Free
  BY DEF ManagerInv, TypeInv, ReloadEnd
<1>2. /\ UNCHANGED <<scn, sched, call, obj, rest, left, stopErr, signal, death, watch, overlap>>
      /\ UNCHANGED <<config, reg, sup, jobs, failed, plan>>
  BY DEF ReloadEnd, conf, sched, flow
<1>3. PICK l \in {"serving", "idle", "restartAll"} :
        /\ Goes(a, l) /\ l \notin Locked /\ (l = "serving" => a = Main) /\ (l \in {"idle", "restartAll"} => a # Main)
  BY AfterReload DEF ReloadEnd, Goto, Goes
<1>4. /\ IsConfig(config)' /\ IsConfig(plan.new)' /\ pc[a] \in Locked /\ failed' \in BOOLEAN
      /\ mu' \in Actor \cup {Free}
      /\ plan'.stop \subseteq Name /\ plan'.start \subseteq Name /\ plan'.update \subseteq Name
      /\ plan' = [new |-> plan'.new, stop |-> plan'.stop, start |-> plan'.start, update |-> plan'.update]
  BY <1>1, <1>2 DEF RestTypes, FlowTypes, IsConfig, Locked
<1>5. /\ FlowTypes' /\ RestTypes' /\ LockInv' /\ BusyInv' /\ StartInv' /\ HandInv' /\ ShutInv'
      /\ \A b \in Actor \ {a} : pc[b] \notin Locked /\ pc'[b] \notin Locked
      /\ pc'[a] = l /\ pc[Main] # "boot"
      /\ Pending = IF pc[a] = "replacing" THEN plan.start \cup plan.update ELSE {}
      /\ Pending' = IF l = "replacing" THEN plan'.start \cup plan'.update ELSE {}
      /\ Missing = IF pc[a] = "removing" THEN DOMAIN config \ (DOMAIN plan.new \cup plan.stop) ELSE {}
      /\ Missing' = IF l = "removing" THEN DOMAIN config' \ (DOMAIN plan'.new \cup plan'.stop) ELSE {}
  BY <1>1, <1>2, <1>3, <1>4, ReloadTurn
<1>6. Pending = {} /\ Pending' = {} /\ Missing = {} /\ Missing' = {}
  BY <1>1, <1>3, <1>5
<1>7. SupTypes'
  BY <1>1, <1>2 DEF SupTypes
<1>8. PlanInv'
  <2>1. \A b \in Actor : pc'[b] \notin {"removing", "replacing"}
    BY <1>3, <1>5 DEF Locked
  <2>2. QED
    BY <1>1, <1>2, <2>1 DEF PlanInv
<1>9. AgreeInv'
  BY <1>1, <1>2, <1>5, <1>6 DEF AgreeInv
<1>10. AliveInv'
  BY <1>1, <1>2, <1>6 DEF AliveInv, Enabled
<1>11. QED
  BY <1>5, <1>7, <1>8, <1>9, <1>10 DEF ManagerInv, TypeInv

LEMMA ReloadSwapStep ==
  ASSUME ManagerInv, NEW a \in Actor, ReloadSwap(a)
  PROVE  ManagerInv'
<1>1. /\ FlowTypes /\ RestTypes /\ SupTypes /\ PlanInv /\ AgreeInv /\ AliveInv /\ ~Exited /\ pc[a] = "removing"
      /\ plan.stop = {} /\ config' = plan.new /\ Goes(a, "replacing") /\ plan' = [plan EXCEPT !.new = NoPlan.new]
  BY DEF ManagerInv, TypeInv, ReloadSwap, Goto, Goes
<1>2. /\ UNCHANGED <<scn, sched, call, obj, rest, left, stopErr, signal, death, watch, overlap>>
      /\ UNCHANGED <<reg, sup, jobs, failed, mu>>
  BY DEF ReloadSwap, sched
<1>3. /\ plan'.stop = plan.stop /\ plan'.start = plan.start /\ plan'.update = plan.update
      /\ plan' = [new |-> plan'.new, stop |-> plan'.stop, start |-> plan'.start, update |-> plan'.update]
      /\ plan'.new = NoPlan.new
  BY <1>1 DEF FlowTypes
<1>4. IsConfig(NoPlan.new)
  BY DEF IsConfig, NoPlan
<1>5. /\ IsConfig(config)' /\ IsConfig(plan.new)' /\ pc[a] \in Locked /\ failed' \in BOOLEAN
      /\ mu' \in Actor \cup {Free}
      /\ plan'.stop \subseteq Name /\ plan'.start \subseteq Name /\ plan'.update \subseteq Name
  BY <1>1, <1>2, <1>3, <1>4 DEF RestTypes, FlowTypes, IsConfig, Locked
<1>6. /\ FlowTypes' /\ RestTypes' /\ LockInv' /\ BusyInv' /\ StartInv' /\ HandInv' /\ ShutInv'
      /\ \A b \in Actor \ {a} : pc[b] \notin Locked /\ pc'[b] \notin Locked
      /\ pc'[a] = "replacing" /\ pc[Main] # "boot"
      /\ Pending = IF pc[a] = "replacing" THEN plan.start \cup plan.update ELSE {}
      /\ Pending' = IF "replacing" = "replacing" THEN plan'.start \cup plan'.update ELSE {}
      /\ Missing = IF pc[a] = "removing" THEN DOMAIN config \ (DOMAIN plan.new \cup plan.stop) ELSE {}
      /\ Missing' = IF "replacing" = "removing" THEN DOMAIN config' \ (DOMAIN plan'.new \cup plan'.stop) ELSE {}
  BY <1>1, <1>2, <1>3, <1>5, ReloadTurn
<1>7. /\ Pending = {} /\ Pending' = plan.start \cup plan.update /\ Missing' = {}
      /\ Missing = DOMAIN config \ DOMAIN plan.new
  BY <1>1, <1>3, <1>6
<1>8. /\ plan.start = DOMAIN config' \ DOMAIN config
      /\ plan.update = {n \in DOMAIN config \cap DOMAIN config' : ~Equal(config[n], config'[n])}
      /\ DOMAIN reg \subseteq DOMAIN config' /\ DOMAIN reg \subseteq DOMAIN config
  BY <1>1 DEF PlanInv
<1>9. \A n \in DOMAIN config' \ Pending' :
        /\ n \in DOMAIN config /\ Equal(config[n], config'[n]) /\ config[n].enabled = config'[n].enabled
  <2>1. ASSUME NEW n \in DOMAIN config' \ Pending'
        PROVE  n \in DOMAIN config /\ Equal(config[n], config'[n])
    BY <1>7, <1>8
  <2>2. \A n \in DOMAIN config : config[n] \in Cfg
    BY <1>1 DEF RestTypes, IsConfig
  <2>3. \A n \in DOMAIN config' : config'[n] \in Cfg
    BY <1>5 DEF IsConfig
  <2>4. QED
    BY <2>1, <2>2, <2>3, EqualEnabled
<1>10. SupTypes'
  BY <1>1, <1>2 DEF SupTypes
<1>11. PlanInv'
  <2>1. \A b \in Actor : pc'[b] # "removing"
    BY <1>6 DEF Locked
  <2>2. plan'.start \cup plan'.update \subseteq DOMAIN config' /\ plan'.start \cap DOMAIN reg' = {}
    BY <1>2, <1>3, <1>8
  <2>3. QED
    BY <1>2, <1>8, <2>1, <2>2 DEF PlanInv
<1>12. AgreeInv'
  <2> SUFFICES ASSUME ~failed, jobs = {}
               PROVE  /\ \A n \in DOMAIN config' \ Pending' : n \in DOMAIN reg <=> config'[n].enabled
                      /\ \A n \in DOMAIN reg \ Pending' : Equal(sup[reg[n]].cfg, config'[n])
    BY <1>2, <1>7 DEF AgreeInv
  <2>1. /\ \A n \in DOMAIN config : n \in DOMAIN reg <=> config[n].enabled /\ n \notin Missing
        /\ \A n \in DOMAIN reg : Equal(sup[reg[n]].cfg, config[n])
    BY <1>1, <1>6, <1>7 DEF AgreeInv
  <2>2. ASSUME NEW n \in DOMAIN reg \ Pending'
        PROVE  Equal(sup[reg[n]].cfg, config'[n])
    <3>1. Equal(sup[reg[n]].cfg, config[n]) /\ Equal(config[n], config'[n])
      BY <1>8, <1>9, <2>1
    <3>2. QED
      BY <3>1, EqualTrans
  <2>3. ASSUME NEW n \in DOMAIN config' \ Pending'
        PROVE  n \in DOMAIN reg <=> config'[n].enabled
    <3>1. n \notin Missing
      BY <1>1, <1>7
    <3>2. QED
      BY <1>9, <2>1, <3>1
  <2>4. QED
    BY <2>2, <2>3
<1>13. AliveInv'
  <2> SUFFICES ASSUME ~overlap
               PROVE  /\ \A o \in Obj : sup[o].alive => \E n \in DOMAIN reg : reg[n] = o
                      /\ \A n \in DOMAIN reg \ Pending' : sup[reg[n]].state # "stopped" => n \in DOMAIN config' /\ config'[n].enabled
    BY <1>2 DEF AliveInv, Enabled
  <2>1. /\ \A o \in Obj : sup[o].alive => \E n \in DOMAIN reg : reg[n] = o
        /\ \A n \in DOMAIN reg : sup[reg[n]].state # "stopped" => n \in DOMAIN config /\ config[n].enabled
    BY <1>1, <1>7 DEF AliveInv, Enabled
  <2>2. QED
    BY <1>8, <1>9, <2>1
<1>14. QED
  BY <1>6, <1>10, <1>11, <1>12, <1>13 DEF ManagerInv, TypeInv

LEMMA ReloadRemoveStep ==
  ASSUME ManagerInv, NEW a \in Actor, NEW n \in Name, ReloadRemove(a, n)
  PROVE  ManagerInv'
<1>1. /\ FlowTypes /\ RestTypes /\ SupTypes /\ PlanInv /\ AgreeInv /\ AliveInv /\ ~Exited /\ pc[a] = "removing"
      /\ n \in plan.stop /\ plan' = [plan EXCEPT !.stop = @ \ {n}]
  BY DEF ManagerInv, TypeInv, ReloadRemove
<1>2. /\ UNCHANGED <<scn, sched, call, obj, rest, left, stopErr, signal, death, watch, overlap>>
      /\ UNCHANGED <<config, jobs, mu, pc>>
  BY DEF ReloadRemove, sched
<1>3. /\ plan'.stop = plan.stop \ {n} /\ plan'.start = plan.start /\ plan'.update = plan.update /\ plan'.new = plan.new
      /\ plan' = [new |-> plan'.new, stop |-> plan'.stop, start |-> plan'.start, update |-> plan'.update]
  BY <1>1 DEF FlowTypes
<1>4. /\ SupTypes' /\ OnlyOf(n) /\ n \notin DOMAIN reg'
      /\ failed' \in BOOLEAN /\ (failed => failed')
  <2>1. CASE n \in DOMAIN reg
    <3>1. PICK r \in Stops(reg[n]) : Note(r.ok) /\ sup' = [sup EXCEPT ![reg[n]] = Dropped(reg[n], r)]
      BY <2>1 DEF ReloadRemove
    <3>2. reg' = Del(reg, n) /\ Becomes(sup, reg[n], Dropped(reg[n], r)) /\ r.told \in BOOLEAN
      BY <2>1, <3>1, StopsTypes DEF ReloadRemove, Becomes
    <3>3. SupTypes' /\ OnlyOf(n) /\ n \notin DOMAIN reg'
      BY <1>1, <2>1, <3>2, DropEffect
    <3>4. QED
      BY <3>1, <3>3 DEF Note
  <2>2. CASE n \notin DOMAIN reg
    <3>1. UNCHANGED <<reg, sup, failed>>
      BY <2>2 DEF ReloadRemove
    <3>2. QED
      BY <1>1, <2>2, <3>1 DEF SupTypes, RestTypes, OnlyOf
  <2>3. QED
    BY <2>1, <2>2
<1>5. /\ IsConfig(config)' /\ IsConfig(plan.new)' /\ pc[a] \in Locked /\ mu' \in Actor \cup {Free}
      /\ plan'.stop \subseteq Name /\ plan'.start \subseteq Name /\ plan'.update \subseteq Name
      /\ Goes(a, "removing")
  BY <1>1, <1>2, <1>3 DEF RestTypes, FlowTypes, IsConfig, Locked, Goes
<1>6. /\ FlowTypes' /\ RestTypes' /\ LockInv' /\ BusyInv' /\ StartInv' /\ HandInv' /\ ShutInv'
      /\ \A b \in Actor \ {a} : pc[b] \notin Locked /\ pc'[b] \notin Locked
      /\ pc'[a] = "removing" /\ pc[Main] # "boot"
      /\ Pending = IF pc[a] = "replacing" THEN plan.start \cup plan.update ELSE {}
      /\ Pending' = IF "removing" = "replacing" THEN plan'.start \cup plan'.update ELSE {}
      /\ Missing = IF pc[a] = "removing" THEN DOMAIN config \ (DOMAIN plan.new \cup plan.stop) ELSE {}
      /\ Missing' = IF "removing" = "removing" THEN DOMAIN config' \ (DOMAIN plan'.new \cup plan'.stop) ELSE {}
  BY <1>1, <1>2, <1>3, <1>4, <1>5, ReloadTurn
<1>7. /\ plan.stop \subseteq DOMAIN config \ DOMAIN plan.new
      /\ DOMAIN reg \subseteq DOMAIN plan.new \cup plan.stop
      /\ plan.start = DOMAIN plan.new \ DOMAIN config
      /\ plan.update = {m \in DOMAIN config \cap DOMAIN plan.new : ~Equal(config[m], plan.new[m])}
      /\ DOMAIN reg \subseteq DOMAIN config
  BY <1>1 DEF PlanInv
<1>8. Pending = {} /\ Pending' = {} /\ Missing' = Missing \cup {n}
  BY <1>1, <1>2, <1>3, <1>6, <1>7
<1>9. DOMAIN reg' = DOMAIN reg \ {n} /\ \A m \in DOMAIN reg' : reg'[m] = reg[m] /\ sup'[reg'[m]] = sup[reg[m]]
  BY <1>4 DEF OnlyOf
<1>10. PlanInv'
  <2>1. \A b \in Actor : pc'[b] # "replacing"
    BY <1>6 DEF Locked
  <2>2. /\ plan'.stop \subseteq DOMAIN config' \ DOMAIN plan'.new
        /\ DOMAIN reg' \subseteq DOMAIN plan'.new \cup plan'.stop
        /\ plan'.start = DOMAIN plan'.new \ DOMAIN config'
        /\ plan'.update = {m \in DOMAIN config' \cap DOMAIN plan'.new : ~Equal(config'[m], plan'.new[m])}
        /\ DOMAIN reg' \subseteq DOMAIN config'
    BY <1>2, <1>3, <1>7, <1>9
  <2>3. QED
    BY <2>1, <2>2 DEF PlanInv
<1>11. AgreeInv'
  <2> SUFFICES ASSUME ~failed', jobs = {}
               PROVE  /\ \A m \in DOMAIN config : m \in DOMAIN reg' <=> config[m].enabled /\ m \notin Missing'
                      /\ \A m \in DOMAIN reg' : Equal(sup'[reg'[m]].cfg, config[m])
    BY <1>2, <1>8 DEF AgreeInv
  <2>1. /\ \A m \in DOMAIN config : m \in DOMAIN reg <=> config[m].enabled /\ m \notin Missing
        /\ \A m \in DOMAIN reg : Equal(sup[reg[m]].cfg, config[m])
    BY <1>1, <1>4, <1>6, <1>8 DEF AgreeInv
  <2>2. QED
    BY <1>8, <1>9, <2>1
<1>12. AliveInv'
  <2> SUFFICES ASSUME ~overlap
               PROVE  /\ \A o \in Obj : sup'[o].alive => \E m \in DOMAIN reg' : reg'[m] = o
                      /\ \A m \in DOMAIN reg' : sup'[reg'[m]].state # "stopped" => m \in Enabled(config)
    BY <1>2, <1>8 DEF AliveInv, Enabled
  <2>1. /\ \A o \in Obj : sup[o].alive => \E m \in DOMAIN reg : reg[m] = o
        /\ \A m \in DOMAIN reg : sup[reg[m]].state # "stopped" => m \in Enabled(config)
    BY <1>1, <1>8 DEF AliveInv
  <2>2. \A o \in Obj : sup'[o].alive => sup[o].alive /\ ~(n \in DOMAIN reg /\ o = reg[n])
    BY <1>4 DEF OnlyOf
  <2>3. QED
    BY <1>9, <2>1, <2>2
<1>13. QED
  BY <1>4, <1>6, <1>10, <1>11, <1>12 DEF ManagerInv, TypeInv

LEMMA ReloadApplyStep ==
  ASSUME ManagerInv, NEW a \in Actor, NEW n \in Name, ReloadApply(a, n)
  PROVE  ManagerInv'
<1>1. /\ FlowTypes /\ RestTypes /\ SupTypes /\ PlanInv /\ AgreeInv /\ AliveInv /\ ~Exited /\ pc[a] = "replacing"
      /\ n \in plan.start \cup plan.update /\ plan' = [plan EXCEPT !.start = @ \ {n}, !.update = @ \ {n}]
  BY DEF ManagerInv, TypeInv, ReloadApply
<1>2. /\ UNCHANGED <<scn, sched, call, obj, rest, left, stopErr, signal, death, watch, overlap>>
      /\ UNCHANGED <<config, jobs, mu, pc>>
  BY DEF ReloadApply, sched
<1>3. /\ plan'.stop = plan.stop /\ plan'.start = plan.start \ {n} /\ plan'.update = plan.update \ {n} /\ plan'.new = plan.new
      /\ plan' = [new |-> plan'.new, stop |-> plan'.stop, start |-> plan'.start, update |-> plan'.update]
  BY <1>1 DEF FlowTypes
<1>4. PICK r \in StopsOf(n), up \in StartsOf(config[n]) : Apply(n, config[n], r, up)
  BY DEF ReloadApply
<1>5. /\ plan.start \cup plan.update \subseteq DOMAIN config /\ plan.start \cap DOMAIN reg = {}
      /\ DOMAIN reg \subseteq DOMAIN config
  BY <1>1 DEF PlanInv
<1>6. n \in DOMAIN config /\ config[n] \in Cfg /\ r.ok \in BOOLEAN /\ up \in BOOLEAN
  BY <1>1, <1>4, <1>5, StopsTypes, StartsTypes DEF RestTypes, IsConfig
<1>7. /\ SupTypes' /\ OnlyOf(n)
      /\ r.ok /\ up => (n \in DOMAIN reg' <=> config[n].enabled) /\ (n \in DOMAIN reg' => sup'[reg'[n]].cfg = config[n])
      /\ n \in DOMAIN reg' /\ sup'[reg'[n]].state # "stopped" => config[n].enabled /\ up /\ r.ok
      /\ failed' = (failed \/ ~(r.ok /\ up))
  BY <1>1, <1>4, <1>6, ApplyEffect DEF RestTypes
<1>8. /\ IsConfig(config)' /\ IsConfig(plan.new)' /\ pc[a] \in Locked /\ mu' \in Actor \cup {Free}
      /\ plan'.stop \subseteq Name /\ plan'.start \subseteq Name /\ plan'.update \subseteq Name
      /\ Goes(a, "replacing") /\ failed' \in BOOLEAN
  BY <1>1, <1>2, <1>3, <1>7 DEF RestTypes, FlowTypes, IsConfig, Locked, Goes
<1>9. /\ FlowTypes' /\ RestTypes' /\ LockInv' /\ BusyInv' /\ StartInv' /\ HandInv' /\ ShutInv'
      /\ \A b \in Actor \ {a} : pc[b] \notin Locked /\ pc'[b] \notin Locked
      /\ pc'[a] = "replacing" /\ pc[Main] # "boot"
      /\ Pending = IF pc[a] = "replacing" THEN plan.start \cup plan.update ELSE {}
      /\ Pending' = IF "replacing" = "replacing" THEN plan'.start \cup plan'.update ELSE {}
      /\ Missing = IF pc[a] = "removing" THEN DOMAIN config \ (DOMAIN plan.new \cup plan.stop) ELSE {}
      /\ Missing' = IF "replacing" = "removing" THEN DOMAIN config' \ (DOMAIN plan'.new \cup plan'.stop) ELSE {}
  BY <1>1, <1>2, <1>3, <1>8, ReloadTurn
<1>10. Pending' = Pending \ {n} /\ Missing = {} /\ Missing' = {}
  BY <1>1, <1>3, <1>9
<1>11. /\ DOMAIN reg' \subseteq DOMAIN reg \cup {n}
       /\ \A m \in DOMAIN reg \ {n} : m \in DOMAIN reg' /\ reg'[m] = reg[m] /\ sup'[reg[m]] = sup[reg[m]]
  BY <1>7 DEF OnlyOf
<1>12. PlanInv'
  <2>1. \A b \in Actor : pc'[b] # "removing"
    BY <1>9 DEF Locked
  <2>2. /\ plan'.start \cup plan'.update \subseteq DOMAIN config' /\ plan'.start \cap DOMAIN reg' = {}
        /\ DOMAIN reg' \subseteq DOMAIN config'
    BY <1>2, <1>3, <1>5, <1>6, <1>11
  <2>3. QED
    BY <2>1, <2>2 DEF PlanInv
<1>13. AgreeInv'
  <2> SUFFICES ASSUME ~failed', jobs = {}
               PROVE  /\ \A m \in DOMAIN config \ Pending' : m \in DOMAIN reg' <=> config[m].enabled
                      /\ \A m \in DOMAIN reg' \ Pending' : Equal(sup'[reg'[m]].cfg, config[m])
    BY <1>2, <1>10 DEF AgreeInv
  <2>1. ~failed /\ r.ok /\ up
    BY <1>7
  <2>2. /\ \A m \in DOMAIN config \ Pending : m \in DOMAIN reg <=> config[m].enabled
        /\ \A m \in DOMAIN reg \ Pending : Equal(sup[reg[m]].cfg, config[m])
    BY <1>1, <1>9, <1>10, <2>1 DEF AgreeInv
  <2>3. n \in DOMAIN reg' => Equal(sup'[reg'[n]].cfg, config[n])
    BY <1>7, <2>1, EqualSelf
  <2>4. QED
    BY <1>7, <1>10, <1>11, <2>1, <2>2, <2>3
<1>14. AliveInv'
  <2> SUFFICES ASSUME ~overlap
               PROVE  /\ \A o \in Obj : sup'[o].alive => \E m \in DOMAIN reg' : reg'[m] = o
                      /\ \A m \in DOMAIN reg' \ Pending' : sup'[reg'[m]].state # "stopped" => m \in Enabled(config)
    BY <1>2 DEF AliveInv, Enabled
  <2>1. /\ \A o \in Obj : sup[o].alive => \E m \in DOMAIN reg : reg[m] = o
        /\ \A m \in DOMAIN reg \ Pending : sup[reg[m]].state # "stopped" => m \in Enabled(config)
    BY <1>1 DEF AliveInv
  <2>2. ASSUME NEW o \in Obj, sup'[o].alive
        PROVE  \E m \in DOMAIN reg' : reg'[m] = o
    BY <1>7, <1>11, <2>1, <2>2 DEF OnlyOf
  <2>3. n \in DOMAIN reg' /\ sup'[reg'[n]].state # "stopped" => n \in Enabled(config)
    BY <1>6, <1>7 DEF Enabled
  <2>4. \A m \in DOMAIN reg' \ Pending' : m # n => m \in DOMAIN reg \ Pending /\ sup'[reg'[m]] = sup[reg[m]]
    BY <1>10, <1>11
  <2>5. QED
    BY <2>1, <2>2, <2>3, <2>4
<1>15. QED
  BY <1>7, <1>9, <1>12, <1>13, <1>14 DEF ManagerInv, TypeInv

-----------------------------------------------------------------------------
(* The theorems *)

LEMMA ManagerInitInv == Init => ManagerInv
<1> SUFFICES ASSUME Init
             PROVE  ManagerInv
  OBVIOUS
<1>1. Main \in Actor /\ Main \notin Caller /\ pc[Main] = "boot" /\ \A a \in Caller : a \in Actor /\ pc[a] = "idle"
  BY DEF Init, Actor, Main
<1>2. FlowTypes
  <2>1. /\ plan.new = [n \in {} |-> NoCfg] /\ plan.stop = {} /\ plan.start = {} /\ plan.update = {}
        /\ plan = [new |-> plan.new, stop |-> plan.stop, start |-> plan.start, update |-> plan.update]
    BY DEF Init, NoPlan
  <2>2. IsConfig(plan.new)
    BY <2>1 DEF IsConfig
  <2>3. pc \in [Actor -> MainAt \cup CallerAt] /\ pc[Main] \in MainAt /\ \A a \in Caller : pc[a] \in CallerAt
    BY <1>1 DEF Init, MainAt, CallerAt
  <2>4. QED
    BY <1>1, <2>1, <2>2, <2>3 DEF Init, FlowTypes, HandAt
<1>3. RestTypes
  <2>1. IsConfig(scn.initial) /\ scn \in Scenarios
    BY DEF Init, IsScenario
  <2>2. config = scn.initial /\ file.ok = TRUE /\ file.procs = scn.initial
    BY DEF Init
  <2>3. IsConfig(config) /\ file.ok \in BOOLEAN /\ IsConfig(file.procs)
    BY <2>1, <2>2 DEF IsConfig
  <2>4. mu \in Actor \cup {Free} /\ deaths \in 0..DeathCap /\ jobs \subseteq Name
    BY DEF Init
  <2>5. {schedOn, jobRuns, overlap, failed, draining, stopErr} \subseteq BOOLEAN
    BY DEF Init
  <2>6. QED
    BY <2>1, <2>3, <2>4, <2>5 DEF RestTypes
<1>4. SupTypes /\ DOMAIN reg = {} /\ \A o \in Obj : ~sup[o].alive
  BY NoSupType DEF Init, SupTypes
<1>5. \A a \in Actor : pc[a] \in {"boot", "idle"}
  BY <1>1 DEF Actor
<1>6. LockInv
  BY <1>5 DEF LockInv, Locked
<1>7. BusyInv
  BY <1>1 DEF BusyInv, Busy, Actor
<1>8. StartInv
  BY <1>1, <1>4 DEF Init, StartInv, DependenciesUp
<1>9. PlanInv
  BY <1>4, <1>5 DEF PlanInv
<1>10. AgreeInv /\ HandInv /\ AliveInv /\ ShutInv
  BY <1>1, <1>4 DEF AgreeInv, HandInv, AliveInv, ShutInv
<1>11. QED
  BY <1>2, <1>3, <1>4, <1>6, <1>7, <1>8, <1>9, <1>10 DEF ManagerInv, TypeInv

LEMMA ReloadStep ==
  ASSUME ManagerInv, NEW a \in Actor, Reload(a)
  PROVE  ManagerInv'
BY ReloadBeginStep, ReloadSwapStep, ReloadEndStep, ReloadRemoveStep, ReloadApplyStep DEF Reload

LEMMA HandleStep ==
  ASSUME ManagerInv, NEW a \in Caller, Handle(a)
  PROVE  ManagerInv'
<1>1. a \in Actor
  BY DEF Actor
<1>2. QED
  BY <1>1, StartLookupStep, StartActStep, StopLookupStep, RestartUnknownStep, StopActStep, AddProcessStep,
     RemoveProcessStep, UpdateProcessStep, RestartNextStep, ReloadStep DEF Handle

LEMMA MainInvStep ==
  ASSUME ManagerInv, MainStep
  PROVE  ManagerInv'
<1>1. Main \in Actor
  BY DEF Actor
<1>2. CASE Boot
  BY <1>2, BootStep
<1>3. CASE Starting \/ StartupDone
  BY <1>3, StartMoves, StartRegularStep DEF Starting
<1>4. CASE SelectShutdown \/ SelectReload
  BY <1>4, SelectStep
<1>5. CASE Reload(Main)
  BY <1>1, <1>5, ReloadStep
<1>6. CASE Stopping
  BY <1>6, ShutdownMoves, ShutdownStopStep DEF Stopping
<1>7. QED
  BY <1>2, <1>3, <1>4, <1>5, <1>6 DEF MainStep

LEMMA ManagerStepInv == ManagerInv /\ [Next]_vars => ManagerInv'
<1> SUFFICES ASSUME ManagerInv, [Next]_vars
             PROVE  ManagerInv'
  OBVIOUS
<1>1. TypeInv
  BY DEF ManagerInv
<1>2. CASE MainStep
  BY <1>2, MainInvStep
<1>3. CASE \E a \in Caller : Handle(a)
  BY <1>3, HandleStep
<1>4. CASE \E a \in Caller, r \in scn.requests : Call(a, r)
  BY <1>4, CallStep
<1>5. CASE \/ Notice \/ JobEnds \/ Death \/ Signal \/ DebounceOver \/ JobFires
           \/ \E f \in scn.files : Edit(f)
           \/ \E o \in Obj : Dies(o) \/ BecomesReady(o)
           \/ UNCHANGED vars
  <2>1. Calm
    BY <1>1, <1>5, CalmSteps
  <2>2. QED
    BY <2>1, CalmKeeps
<1>6. QED
  BY <1>2, <1>3, <1>4, <1>5 DEF Next, Environment

\* The inductive invariant.
THEOREM ManagerInvariant == Spec => []ManagerInv
<1>1. Init => ManagerInv
  BY ManagerInitInv
<1>2. ManagerInv /\ [Next]_vars => ManagerInv'
  BY ManagerStepInv
<1>3. QED
  BY <1>1, <1>2, PTL DEF Spec

LEMMA InvTypes == ManagerInv => TypeOK
<1> SUFFICES ASSUME ManagerInv
             PROVE  TypeOK
  OBVIOUS
<1>1. FlowTypes /\ RestTypes /\ SupTypes
  BY DEF ManagerInv, TypeInv
<1>2. \A o \in Obj : sup[o].cfg \in Cfg /\ sup[o].state \in {"stopped", "running", "failed"}
  BY <1>1 DEF SupTypes, Sup
<1>3. QED
  BY <1>1, <1>2 DEF TypeOK, FlowTypes, RestTypes, SupTypes

LEMMA InvAgrees == ManagerInv => InAgreement
<1> SUFFICES ASSUME ManagerInv, Quiet, ~failed, jobs = {}
             PROVE  /\ DOMAIN reg = Enabled(config)
                    /\ \A n \in DOMAIN reg : Equal(sup[reg[n]].cfg, config[n])
  BY DEF InAgreement
<1>1. AgreeInv /\ PlanInv
  BY DEF ManagerInv
<1>2. pc[Main] = "serving" /\ \A a \in Actor : pc[a] \notin {"removing", "replacing"}
  BY DEF Quiet, Actor
<1>3. Pending = {} /\ Missing = {}
  BY <1>2 DEF Pending, Missing
<1>4. QED
  BY <1>1, <1>2, <1>3 DEF AgreeInv, PlanInv, Enabled, Exited

\* While the Manager starts, nothing runs before its dependencies are there and
\* ready: DependenciesUp.
THEOREM DependenciesAlwaysUp == Spec => []DependenciesUp
<1>1. ManagerInv => DependenciesUp
  BY DEF ManagerInv, StartInv
<1>2. QED
  BY <1>1, ManagerInvariant, PTL

\* The maps of the Manager and the processes that run are in step: Consistent.
THEOREM MapsAlwaysConsistent == Spec => []Consistent
<1>1. ManagerInv => NoOrphan
  BY DEF ManagerInv, AliveInv, NoOrphan
<1>2. ManagerInv => Consistent
  BY <1>1, InvTypes, InvAgrees DEF Consistent
<1>3. QED
  BY <1>2, ManagerInvariant, PTL

\* A program that ends well has stopped everything: StopsEverything.
THEOREM AlwaysStopsEverything == Spec => []StopsEverything
<1>1. ManagerInv => StopsEverything
  BY DEF ManagerInv, ShutInv, StopsEverything
<1>2. QED
  BY <1>1, ManagerInvariant, PTL

=============================================================================
