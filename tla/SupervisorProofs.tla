-------------------------- MODULE SupervisorProofs --------------------------
(***************************************************************************)
(* Proofs about Supervisor, for any set of instances, callers and          *)
(* configurations: its type correctness; that an instance whose stop was   *)
(* begun is never restarted; and, from one inductive invariant (SupIInv),  *)
(* that slots keep their numbers and no process gets lost, that nothing is *)
(* left after Stop, and that only dead instances leave their slots.        *)
(***************************************************************************)
EXTENDS Supervisor, SequenceTheorems, TLAPS

-----------------------------------------------------------------------------
(* What the operators that change many variables at once do to the types. *)

\* startInstance leaves every variable it writes well typed.
LEMMA StartInstanceType ==
  ASSUME InstTypeOK, OsTypeOK, NEW q \in Inst, NEW i \in Nat, NEW c \in Contexts,
         NEW m \in [Inst -> MonPcs], StartInstance(q, i, c, m)
  PROVE  InstTypeOK' /\ mon' \in [Inst -> MonPcs] /\ OsTypeOK'
BY DEF StartInstance, InstTypeOK, OsTypeOK, InstStates, MonPcs

\* So does the wiping of garbage.
LEMMA WipeType ==
  ASSUME InstTypeOK, MonTypeOK, pctx \in [Inst -> Contexts], NEW G, Wipe(G)
  PROVE  InstTypeOK' /\ MonTypeOK' /\ pctx' \in [Inst -> Contexts]
BY DEF Wipe, InstTypeOK, MonTypeOK, InstStates, MonPcs, Contexts

\* A restart counter stays a number.
LEMMA SaturateType ==
  ASSUME ConstantsAssumption, ConfTypeOK, NEW n \in Nat
  PROVE  Saturate(n) \in Nat
<1>1. conf.max \in Nat
  BY DEF ConstantsAssumption, ConfTypeOK, Config
<1>2. QED
  BY <1>1 DEF Saturate

\* An operation has an owner, and the owner has work to do, exactly as long as
\* operationMu is held.
OwnerBusy == /\ op.kind = "none" => op.by = {}
             /\ \A c \in op.by : todo[c] # <<>>

TypeInv == StateTypeOK /\ OwnerBusy

\* ScaleDown keeps a prefix of the slots that are there.
DownFits == op.kind = "down" => op.n <= Len(slots)

\* The return of an operation.
LEMMA ReturnType ==
  ASSUME TypeInv, NEW ok \in BOOLEAN, Return(ok)
  PROVE  OpTypeOK' /\ TodoTypeOK' /\ OwnerBusy'
<1> USE DEF TypeInv, StateTypeOK, OpTypeOK, TodoTypeOK, OwnerBusy, Return
<1>1. op' = NoOp /\ NoOp \in [kind : OpKinds, by : SUBSET Caller, n : Nat, list : Seq(Inst)]
  BY DEF NoOp, OpKinds
<1>2. \A c \in op.by : Tail(todo[c]) \in Seq(Step)
  BY HeadTailProperties
<1>3. <<>> \in Seq(Step)
  OBVIOUS
<1>4. todo' \in [Caller -> Seq(Step)]
  BY <1>2, <1>3
<1>5. QED
  BY <1>1, <1>4 DEF NoOp

\* The initial states are well typed.
LEMMA InitType == ConstantsAssumption /\ Init => TypeInv
<1> SUFFICES ASSUME ConstantsAssumption, Init PROVE TypeInv
  OBVIOUS
<1> USE DEF Init
<1>1. conf.scale \in Nat
  BY DEF ConstantsAssumption, Config
<1>2. ConfTypeOK /\ SupTypeOK
  <2>1. slots \in Seq(Inst) /\ cfgScale \in Nat
    BY <1>1, EmptySeq
  <2>2. ready \in BOOLEAN
    BY Zenon
  <2>3. supState \in SupStates /\ ctx \in {"nil", "live", "cancelled"}
    BY DEF SupStates
  <2>4. QED
    BY <2>1, <2>2, <2>3, Zenon DEF ConfTypeOK, SupTypeOK
<1>3. InstTypeOK /\ MonTypeOK /\ OsTypeOK /\ StopTypeOK /\ TodoTypeOK
  <2>1. InstTypeOK /\ MonTypeOK /\ OsTypeOK /\ StopTypeOK
    BY DEF InstTypeOK, MonTypeOK, OsTypeOK, StopTypeOK, InstStates, MonPcs, Contexts, StopPcs
  <2>2. <<>> \in Seq(Step)
    BY EmptySeq
  <2>3. QED
    BY <2>1, <2>2 DEF TodoTypeOK
<1>4. OpTypeOK /\ OwnerBusy
  BY DEF OpTypeOK, OwnerBusy, NoOp, OpKinds
<1>5. DeathTypeOK
  <2>1. deathMsgs \in 0..DeathCap
    BY DEF ConstantsAssumption
  <2>2. QED
    BY <2>1, Zenon DEF DeathTypeOK
<1>6. QED
  BY <1>2, <1>3, <1>4, <1>5 DEF TypeInv, StateTypeOK

-----------------------------------------------------------------------------
(* Every step keeps the types. *)

\* The parts of TypeInv that a step leaves alone because it leaves their
\* variables alone.
LEMMA Unchanged ==
  /\ ConfTypeOK /\ UNCHANGED conf => ConfTypeOK'
  /\ SupTypeOK /\ UNCHANGED supVars => SupTypeOK'
  /\ InstTypeOK /\ UNCHANGED instVars => InstTypeOK'
  /\ MonTypeOK /\ UNCHANGED monVars => MonTypeOK'
  /\ OsTypeOK /\ UNCHANGED osVars => OsTypeOK'
  /\ (OpTypeOK /\ StopTypeOK /\ TodoTypeOK /\ OwnerBusy) /\ UNCHANGED opVars
       => (OpTypeOK /\ StopTypeOK /\ TodoTypeOK /\ OwnerBusy)'
  /\ DeathTypeOK /\ UNCHANGED deathVars => DeathTypeOK'
<1>1. /\ ConfTypeOK /\ UNCHANGED conf => ConfTypeOK'
      /\ SupTypeOK /\ UNCHANGED supVars => SupTypeOK'
      /\ DeathTypeOK /\ UNCHANGED deathVars => DeathTypeOK'
  BY Zenon DEF ConfTypeOK, SupTypeOK, supVars, DeathTypeOK, deathVars
<1>2. /\ InstTypeOK /\ UNCHANGED instVars => InstTypeOK'
      /\ MonTypeOK /\ UNCHANGED monVars => MonTypeOK'
      /\ OsTypeOK /\ UNCHANGED osVars => OsTypeOK'
  BY Zenon DEF InstTypeOK, instVars, MonTypeOK, monVars, OsTypeOK, osVars
<1>3. (OpTypeOK /\ StopTypeOK /\ TodoTypeOK /\ OwnerBusy) /\ UNCHANGED opVars
        => (OpTypeOK /\ StopTypeOK /\ TodoTypeOK /\ OwnerBusy)'
  BY Zenon DEF OpTypeOK, StopTypeOK, TodoTypeOK, OwnerBusy, opVars
<1>4. QED
  BY <1>1, <1>2, <1>3

\* The steps of a monitor goroutine.
LEMMA MonitorType ==
  ASSUME ConstantsAssumption, TypeInv, NEW p \in Inst, Monitor(p)
  PROVE  TypeInv'
<1> USE DEF TypeInv, StateTypeOK
<1>1. CASE MonExited(p)
  <2>1. InstTypeOK' /\ MonTypeOK'
    BY <1>1 DEF MonExited, InstTypeOK, MonTypeOK, InstStates, MonPcs
  <2>2. QED
    BY <1>1, <2>1, Unchanged DEF MonExited
<1>2. CASE MonOneshot(p)
  <2>1. InstTypeOK' /\ MonTypeOK' /\ OsTypeOK'
    BY <1>2 DEF MonOneshot, InstTypeOK, MonTypeOK, OsTypeOK, InstStates, MonPcs
  <2>2. SupTypeOK'
    BY <1>2, Zenon DEF MonOneshot, SupTypeOK
  <2>3. QED
    BY <1>2, <2>1, <2>2, Unchanged DEF MonOneshot
<1>3. CASE MonNoRestart(p)
  <2>1. MonTypeOK' /\ OsTypeOK'
    BY <1>3 DEF MonNoRestart, MonTypeOK, OsTypeOK, MonPcs
  <2>2. QED
    BY <1>3, <2>1, Unchanged DEF MonNoRestart
<1>4. CASE MonDecide(p)
  <2>1. InstTypeOK' /\ MonTypeOK' /\ OsTypeOK'
    BY <1>4 DEF MonDecide, InstTypeOK, MonTypeOK, OsTypeOK, InstStates, MonPcs, Contexts
  <2>2. QED
    BY <1>4, <2>1, Unchanged DEF MonDecide
<1>5. CASE BackoffCancelled(p) \/ BackoffOver(p)
  <2>1. MonTypeOK'
    BY <1>5 DEF BackoffCancelled, BackoffOver, MonTypeOK, MonPcs
  <2>2. QED
    BY <1>5, <2>1, Unchanged DEF BackoffCancelled, BackoffOver
<1>6. CASE RespawnFails(p)
  <2>1. InstTypeOK' /\ MonTypeOK'
    BY <1>6 DEF RespawnFails, InstTypeOK, MonTypeOK, InstStates, MonPcs
  <2>2. QED
    BY <1>6, <2>1, Unchanged DEF RespawnFails
<1>7. ASSUME NEW q \in Inst, Respawn(p, q) PROVE TypeInv'
  <2>1. /\ idx[p] \in Nat /\ "cur" \in Contexts
        /\ [mon EXCEPT ![p] = "count"] \in [Inst -> MonPcs]
    BY DEF InstTypeOK, MonTypeOK, MonPcs, Contexts
  <2>2. InstTypeOK' /\ mon' \in [Inst -> MonPcs] /\ OsTypeOK'
    BY <1>7, <2>1, StartInstanceType DEF Respawn
  <2>3. MonTypeOK'
    BY <1>7, <2>2 DEF Respawn, MonTypeOK
  <2>4. QED
    BY <1>7, <2>2, <2>3, Unchanged DEF Respawn
<1>8. CASE SetCount(p)
  <2>1. succ[p] \in Inst /\ Saturate(seen[p] + 1) \in Nat
    BY SaturateType DEF MonTypeOK
  <2>2. InstTypeOK' /\ MonTypeOK'
    BY <1>8, <2>1 DEF SetCount, InstTypeOK, MonTypeOK, MonPcs
  <2>3. QED
    BY <1>8, <2>2, Unchanged DEF SetCount
<1>9. CASE Replace(p)
  <2>1. InstTypeOK' /\ MonTypeOK' /\ pctx' \in [Inst -> Contexts]
    BY <1>9, WipeType DEF Replace, OsTypeOK
  <2>2. OsTypeOK'
    BY <1>9, <2>1 DEF Replace, OsTypeOK
  <2>3. slots' \in Seq(Inst)
    <3>1. \A i \in DOMAIN slots : slots[i] \in Inst /\ succ[p] \in Inst
      BY ElementOfSeq, LenProperties DEF SupTypeOK, MonTypeOK
    <3>2. Len(slots) \in Nat /\ slots' \in [1..Len(slots) -> Inst]
      BY <1>9, <3>1, LenProperties DEF Replace, SupTypeOK
    <3>3. QED
      BY <3>2, SeqDef
  <2>4. SupTypeOK'
    BY <1>9, <2>3, Zenon DEF Replace, SupTypeOK
  <2>5. QED
    BY <1>9, <2>1, <2>2, <2>4, Unchanged DEF Replace
<1>10. CASE CheckAllDead(p)
  <2>1. MonTypeOK'
    BY <1>10 DEF CheckAllDead, MonTypeOK, MonPcs
  <2>2. QED
    BY <1>10, <2>1, Unchanged DEF CheckAllDead
<1>11. CASE Notify(p)
  <2>1. InstTypeOK' /\ MonTypeOK' /\ pctx' \in [Inst -> Contexts]
    <3>1. CASE Wipe({p})
      BY <3>1, WipeType DEF OsTypeOK
    <3>2. CASE mon' = [mon EXCEPT ![p] = "done"] /\ UNCHANGED <<instVars, seen, succ, pctx>>
      <4>1. MonTypeOK'
        BY <3>2 DEF MonTypeOK, MonPcs
      <4>2. QED
        BY <3>2, <4>1, Unchanged DEF OsTypeOK
    <3>3. QED
      BY <1>11, <3>1, <3>2 DEF Notify
  <2>2. OsTypeOK'
    BY <1>11, <2>1 DEF Notify, OsTypeOK
  <2>3. deathMsgs' \in 0..DeathCap
    BY <1>11 DEF Notify, DeathTypeOK, ConstantsAssumption, deathVars
  <2>4. allDead' \in BOOLEAN
    BY <1>11, Zenon DEF Notify, DeathTypeOK, deathVars, ManagerAllDead
  <2>5. DeathTypeOK'
    BY <2>3, <2>4, Zenon DEF DeathTypeOK
  <2>6. QED
    BY <1>11, <2>1, <2>2, <2>5, Unchanged DEF Notify
<1>12. QED
  BY <1>1, <1>2, <1>3, <1>4, <1>5, <1>6, <1>7, <1>8, <1>9, <1>10, <1>11 DEF Monitor

\* The steps of a stopInstance call.
LEMMA StopInstanceType ==
  ASSUME TypeInv, NEW p \in Inst, StopInstance(p)
  PROVE  TypeInv'
<1> USE DEF TypeInv, StateTypeOK
<1>1. InstTypeOK' /\ StopTypeOK'
  <2>1. CASE StopAsk(p)
    BY <2>1 DEF StopAsk, InstTypeOK, StopTypeOK, InstStates, StopPcs
  <2>2. CASE StopSignal(p) \/ StopKill(p) \/ StopDone(p)
    BY <2>2, Unchanged DEF StopSignal, StopKill, StopDone, StopTypeOK, StopPcs
  <2>3. QED
    BY <2>1, <2>2 DEF StopInstance
<1>2. OsTypeOK'
  BY Unchanged DEF StopInstance, StopAsk, StopSignal, StopKill, StopDone, OsTypeOK, osVars
<1>3. UNCHANGED <<conf, supVars, monVars, op, todo, deathVars>>
  BY DEF StopInstance, StopAsk, StopSignal, StopKill, StopDone
<1>4. OpTypeOK' /\ TodoTypeOK' /\ OwnerBusy'
  BY <1>3, Zenon DEF OpTypeOK, TodoTypeOK, OwnerBusy
<1>5. QED
  BY <1>1, <1>2, <1>3, <1>4, Unchanged

\* The beginning of an operation.
LEMMA AcquireType ==
  ASSUME TypeInv, NEW c \in Caller, NEW kind \in OpKinds \ {"none"}, NEW list \in Seq(Inst),
         todo[c] # <<>>, Acquire(c, kind, list)
  PROVE  OpTypeOK' /\ TodoTypeOK' /\ OwnerBusy'
<1> USE DEF TypeInv, StateTypeOK
<1>1. Head(todo[c]) \in Step
  BY HeadTailProperties DEF TodoTypeOK
<1>2. Head(todo[c]).n \in Nat
  BY <1>1 DEF Step
<1>3. OpTypeOK' /\ TodoTypeOK'
  BY <1>2 DEF Acquire, OpTypeOK, TodoTypeOK
<1>4. OwnerBusy'
  BY DEF Acquire, OwnerBusy
<1>5. QED
  BY <1>3, <1>4

\* Asking a list of instances to stop leaves the stopInstance calls well typed.
LEMMA AskAllType ==
  ASSUME StopTypeOK, NEW s, AskAll(s)
  PROVE  StopTypeOK'
BY DEF AskAll, StopTypeOK, StopPcs

\* The steps of the operation that holds operationMu.
LEMMA OperationType ==
  ASSUME ConstantsAssumption, TypeInv, DownFits, Operation
  PROVE  TypeInv'
<1> USE DEF TypeInv, StateTypeOK
<1>1. ASSUME NEW c \in Caller, StartBegin(c) PROVE TypeInv'
  <2>1. OpTypeOK' /\ TodoTypeOK' /\ OwnerBusy'
    BY <1>1, AcquireType, EmptySeq DEF StartBegin, Wants, OpKinds
  <2>2. OsTypeOK'
    BY <1>1 DEF StartBegin, OsTypeOK, Superseded, Contexts
  <2>3. SupTypeOK'
    BY <1>1, Zenon DEF StartBegin, SupTypeOK, SupStates
  <2>4. StopTypeOK'
    BY <1>1 DEF StartBegin, StopTypeOK
  <2>5. QED
    BY <1>1, <2>1, <2>2, <2>3, <2>4, Unchanged DEF StartBegin
<1>2. ASSUME NEW q \in Inst, StartOne(q) PROVE TypeInv'
  <2>1. op.n \in Nat /\ op.n + 1 \in Nat /\ "cur" \in Contexts /\ mon \in [Inst -> MonPcs]
    BY DEF OpTypeOK, Contexts, MonTypeOK
  <2>2. InstTypeOK' /\ mon' \in [Inst -> MonPcs] /\ OsTypeOK'
    BY <1>2, <2>1, StartInstanceType DEF StartOne
  <2>3. MonTypeOK'
    BY <1>2, <2>2 DEF StartOne, MonTypeOK
  <2>4. slots' \in Seq(Inst)
    BY <1>2, AppendProperties DEF StartOne, SupTypeOK
  <2>5. SupTypeOK'
    BY <1>2, <2>4, Zenon DEF StartOne, SupTypeOK
  <2>6. OpTypeOK' /\ TodoTypeOK' /\ OwnerBusy'
    BY <1>2, <2>1 DEF StartOne, OpTypeOK, TodoTypeOK, OwnerBusy
  <2>7. StopTypeOK'
    BY <1>2 DEF StartOne, StopTypeOK
  <2>8. QED
    BY <1>2, <2>2, <2>3, <2>5, <2>6, <2>7, Unchanged DEF StartOne
<1>3. CASE StartFails
  <2>1. OpTypeOK' /\ TodoTypeOK' /\ OwnerBusy'
    BY <1>3, ReturnType DEF StartFails
  <2>2. OsTypeOK'
    BY <1>3 DEF StartFails, OsTypeOK, Cancelled, CancelKills, Contexts
  <2>3. SupTypeOK'
    BY <1>3, Zenon DEF StartFails, SupTypeOK, SupStates
  <2>4. StopTypeOK'
    BY <1>3 DEF StartFails, StopTypeOK
  <2>5. QED
    BY <1>3, <2>1, <2>2, <2>3, <2>4, Unchanged DEF StartFails
<1>4. CASE StartEnd
  <2>1. OpTypeOK' /\ TodoTypeOK' /\ OwnerBusy'
    BY <1>4, ReturnType DEF StartEnd
  <2>2. SupTypeOK'
    BY <1>4, Zenon DEF StartEnd, SupTypeOK, SupStates
  <2>3. StopTypeOK'
    BY <1>4 DEF StartEnd, StopTypeOK
  <2>4. QED
    BY <1>4, <2>1, <2>2, <2>3, Unchanged DEF StartEnd
<1>5. ASSUME NEW c \in Caller, ScaleUpBegin(c) PROVE TypeInv'
  <2>1. StopTypeOK'
    BY <1>5 DEF ScaleUpBegin, StopTypeOK
  <2>2. OpTypeOK' /\ TodoTypeOK' /\ OwnerBusy'
    <3>1. CASE Acquire(c, "up", <<>>)
      BY <1>5, <3>1, AcquireType, EmptySeq DEF ScaleUpBegin, Wants, OpKinds
    <3>2. CASE todo' = [todo EXCEPT ![c] = <<>>] /\ UNCHANGED op
      BY <1>5, <3>2, EmptySeq DEF ScaleUpBegin, OpTypeOK, TodoTypeOK, OwnerBusy
    <3>3. QED
      BY <1>5, <3>1, <3>2 DEF ScaleUpBegin
  <2>3. QED
    BY <1>5, <2>1, <2>2, Unchanged DEF ScaleUpBegin
<1>6. ASSUME NEW q \in Inst, ScaleUpOne(q) PROVE TypeInv'
  <2>1. /\ Len(slots) + Len(op.list) \in Nat /\ mon \in [Inst -> MonPcs]
        /\ (IF ctx = "nil" THEN "old" ELSE "cur") \in Contexts
    BY LenProperties DEF OpTypeOK, SupTypeOK, Contexts, MonTypeOK
  <2>2. InstTypeOK' /\ mon' \in [Inst -> MonPcs] /\ OsTypeOK'
    BY <1>6, <2>1, StartInstanceType DEF ScaleUpOne
  <2>3. MonTypeOK'
    BY <1>6, <2>2 DEF ScaleUpOne, MonTypeOK
  <2>4. Append(op.list, q) \in Seq(Inst)
    BY AppendProperties DEF OpTypeOK
  <2>5. OpTypeOK' /\ TodoTypeOK' /\ OwnerBusy'
    BY <1>6, <2>4 DEF ScaleUpOne, OpTypeOK, TodoTypeOK, OwnerBusy
  <2>6. StopTypeOK'
    BY <1>6 DEF ScaleUpOne, StopTypeOK
  <2>7. QED
    BY <1>6, <2>2, <2>3, <2>5, <2>6, Unchanged DEF ScaleUpOne
<1>7. CASE ScaleUpFails
  <2>1. OpTypeOK' /\ TodoTypeOK' /\ OwnerBusy' /\ StopTypeOK'
    BY <1>7 DEF ScaleUpFails, OpTypeOK, TodoTypeOK, OwnerBusy, OpKinds, StopTypeOK
  <2>2. QED
    BY <1>7, <2>1, Unchanged DEF ScaleUpFails
<1>8. CASE ScaleUpCleanup
  <2>1. CASE op.list = <<>>
    <3>1. OpTypeOK' /\ TodoTypeOK' /\ OwnerBusy'
      BY <1>8, <2>1, ReturnType DEF ScaleUpCleanup
    <3>2. StopTypeOK' /\ OsTypeOK'
      BY <1>8, <2>1 DEF ScaleUpCleanup, StopTypeOK, OsTypeOK
    <3>3. QED
      BY <1>8, <2>1, <3>1, <3>2, Unchanged DEF ScaleUpCleanup
  <2>2. CASE op.list # <<>>
    <3>1. Head(op.list) \in Inst /\ Tail(op.list) \in Seq(Inst)
      BY <2>2, HeadTailProperties DEF OpTypeOK
    <3>2. OpTypeOK' /\ TodoTypeOK' /\ OwnerBusy' /\ StopTypeOK'
      <4>1. UNCHANGED todo
        BY <1>8, <2>2 DEF ScaleUpCleanup
      <4>2. op' = op \/ op' = [op EXCEPT !.list = Tail(@)]
        BY <1>8, <2>2 DEF ScaleUpCleanup
      <4>3. stopper' \in [Inst -> StopPcs]
        BY <1>8, <2>2, <3>1 DEF ScaleUpCleanup, StopTypeOK, StopPcs
      <4>4. QED
        BY <3>1, <4>1, <4>2, <4>3 DEF OpTypeOK, TodoTypeOK, OwnerBusy, StopTypeOK
    <3>3. InstTypeOK' /\ MonTypeOK' /\ pctx' \in [Inst -> Contexts]
      <4>1. CASE Wipe(Ended(<<Head(op.list)>>))
        BY <4>1, WipeType DEF OsTypeOK
      <4>2. CASE UNCHANGED <<instVars, monVars, pctx>>
        BY <4>2, Unchanged DEF OsTypeOK
      <4>3. QED
        BY <1>8, <2>2, <4>1, <4>2 DEF ScaleUpCleanup
    <3>4. OsTypeOK'
      BY <1>8, <3>3 DEF ScaleUpCleanup, OsTypeOK
    <3>5. QED
      BY <1>8, <3>2, <3>3, <3>4, Unchanged DEF ScaleUpCleanup
  <2>3. QED
    BY <2>1, <2>2
<1>9. CASE ScaleUpEnd
  <2>1. OpTypeOK' /\ TodoTypeOK' /\ OwnerBusy'
    BY <1>9, ReturnType DEF ScaleUpEnd
  <2>2. slots' \in Seq(Inst)
    BY <1>9, ConcatProperties DEF ScaleUpEnd, SupTypeOK, OpTypeOK
  <2>3. SupTypeOK'
    BY <1>9, <2>2, Zenon DEF ScaleUpEnd, SupTypeOK
  <2>4. StopTypeOK'
    BY <1>9 DEF ScaleUpEnd, StopTypeOK
  <2>5. QED
    BY <1>9, <2>1, <2>3, <2>4, Unchanged DEF ScaleUpEnd
<1>10. ASSUME NEW c \in Caller, ScaleDownBegin(c) PROVE TypeInv'
  <2> DEFINE n == Head(todo[c]).n
             tail == SubSeq(slots, n + 1, Len(slots))
  <2>1. n \in Nat
    <3>1. Head(todo[c]) \in Step
      BY <1>10, HeadTailProperties DEF ScaleDownBegin, Wants, TodoTypeOK
    <3>2. QED
      BY <3>1 DEF Step
  <2>2. tail \in Seq(Inst)
    <3>1. Len(slots) \in Nat /\ n + 1 \in Int /\ \A i \in n + 1 .. Len(slots) : slots[i] \in Inst
      BY <2>1, ElementOfSeq, LenProperties DEF SupTypeOK
    <3>2. QED
      BY <3>1, SubSeqProperties
  <2>3. CASE Acquire(c, "down", tail) /\ AskAll(tail)
    <3>1. OpTypeOK' /\ TodoTypeOK' /\ OwnerBusy' /\ StopTypeOK'
      BY <1>10, <2>2, <2>3, AcquireType, AskAllType DEF ScaleDownBegin, Wants, OpKinds
    <3>2. QED
      BY <1>10, <3>1, Unchanged DEF ScaleDownBegin
  <2>4. CASE todo' = [todo EXCEPT ![c] = <<>>] /\ UNCHANGED <<op, stopper>>
    <3>1. OpTypeOK' /\ TodoTypeOK' /\ OwnerBusy' /\ StopTypeOK'
      BY <1>10, <2>4, EmptySeq
      DEF ScaleDownBegin, OpTypeOK, TodoTypeOK, OwnerBusy, StopTypeOK
    <3>2. QED
      BY <1>10, <3>1, Unchanged DEF ScaleDownBegin
  <2>5. QED
    BY <1>10, <2>3, <2>4 DEF ScaleDownBegin
<1>11. CASE ScaleDownEnd
  <2>1. NoStopError \in BOOLEAN
    BY Zenon DEF NoStopError
  <2>2. OpTypeOK' /\ TodoTypeOK' /\ OwnerBusy'
    BY <1>11, <2>1, ReturnType DEF ScaleDownEnd
  <2>3. InstTypeOK' /\ MonTypeOK' /\ pctx' \in [Inst -> Contexts]
    BY <1>11, WipeType DEF ScaleDownEnd, OsTypeOK
  <2>4. OsTypeOK' /\ StopTypeOK'
    BY <1>11, <2>3 DEF ScaleDownEnd, OsTypeOK, StopTypeOK, StopPcs
  <2>5. slots' \in Seq(Inst)
    <3>1. op.n \in Nat /\ Len(slots) \in Nat /\ op.n <= Len(slots)
      BY <1>11, LenProperties DEF ScaleDownEnd, DownFits, SupTypeOK, OpTypeOK
    <3>2. \A i \in 1..op.n : slots[i] \in Inst
      BY <3>1, ElementOfSeq DEF SupTypeOK
    <3>3. SubSeq(slots, 1, op.n) \in Seq(Inst)
      BY <3>1, <3>2, SubSeqProperties
    <3>4. QED
      BY <1>11, <3>3 DEF ScaleDownEnd
  <2>6. SupTypeOK'
    BY <1>11, <2>5, Zenon DEF ScaleDownEnd, SupTypeOK
  <2>7. QED
    BY <1>11, <2>2, <2>3, <2>4, <2>6, Unchanged DEF ScaleDownEnd
<1>12. ASSUME NEW c \in Caller, StopBegin(c) PROVE TypeInv'
  <2>1. OpTypeOK' /\ TodoTypeOK' /\ OwnerBusy'
    BY <1>12, AcquireType, EmptySeq DEF StopBegin, Wants, OpKinds
  <2>2. OsTypeOK'
    BY <1>12 DEF StopBegin, OsTypeOK, Cancelled, CancelKills, Contexts
  <2>3. SupTypeOK'
    BY <1>12, Zenon DEF StopBegin, SupTypeOK, SupStates
  <2>4. StopTypeOK'
    BY <1>12 DEF StopBegin, StopTypeOK
  <2>5. QED
    BY <1>12, <2>1, <2>2, <2>3, <2>4, Unchanged DEF StopBegin
<1>13. CASE StopInstances
  <2>1. OpTypeOK' /\ TodoTypeOK' /\ OwnerBusy'
    BY <1>13 DEF StopInstances, OpTypeOK, TodoTypeOK, OwnerBusy, OpKinds, SupTypeOK
  <2>2. StopTypeOK'
    BY <1>13, AskAllType DEF StopInstances
  <2>3. QED
    BY <1>13, <2>1, <2>2, Unchanged DEF StopInstances
<1>14. CASE StopEnd
  <2>1. NoStopError \in BOOLEAN
    BY Zenon DEF NoStopError
  <2>2. OpTypeOK' /\ TodoTypeOK' /\ OwnerBusy'
    BY <1>14, <2>1, ReturnType DEF StopEnd
  <2>3. InstTypeOK' /\ MonTypeOK' /\ pctx' \in [Inst -> Contexts]
    BY <1>14, WipeType DEF StopEnd, OsTypeOK
  <2>4. OsTypeOK' /\ StopTypeOK'
    BY <1>14, <2>3 DEF StopEnd, OsTypeOK, StopTypeOK, StopPcs
  <2>5. slots' \in Seq(Inst)
    BY <1>14, EmptySeq DEF StopEnd
  <2>6. SupTypeOK'
    BY <1>14, <2>5, Zenon DEF StopEnd, SupTypeOK, SupStates
  <2>7. QED
    BY <1>14, <2>2, <2>3, <2>4, <2>6, Unchanged DEF StopEnd
<1>15. QED
  BY <1>1, <1>2, <1>3, <1>4, <1>5, <1>6, <1>7, <1>8, <1>9, <1>10, <1>11, <1>12, <1>13,
     <1>14 DEF Operation

\* What an API goroutine plans to do is a sequence of steps.
LEMMA PlanType ==
  ASSUME ConstantsAssumption, TypeInv, NEW r \in conf.requests, Plan(r) # <<>>
  PROVE  Plan(r) \in Seq(Step) /\ r.n \in Nat
<1>1. r.n \in Nat
  BY DEF ConstantsAssumption, TypeInv, StateTypeOK, ConfTypeOK, Config
<1>2. /\ \A do \in {"start", "stop", "up", "down", "cfg", "topup"}, n \in Nat : Do(do, n) \in Step
      /\ 0 \in Nat
  BY DEF Do, Step
<1>3. \A x, y \in Step : <<>> \in Seq(Step) /\ <<x>> \in Seq(Step) /\ <<x, y>> \in Seq(Step)
  BY EmptySeq
<1>4. StartPlan \in Seq(Step) /\ StopPlan \in Seq(Step)
  BY <1>2, <1>3 DEF StartPlan, StopPlan
<1>5. RestartPlan \in Seq(Step)
  BY <1>2, <1>3, <1>4, ConcatProperties DEF RestartPlan
<1>6. ScalePlan(r.n) \in Seq(Step)
  BY <1>1, <1>2, <1>3 DEF ScalePlan
<1>7. r.op \in ApiOps
  BY DEF ConstantsAssumption, TypeInv, StateTypeOK, ConfTypeOK, Config
<1>8. Plan(r) \in Seq(Step)
  BY <1>4, <1>5, <1>6, <1>7 DEF Plan, ApiOps
<1>9. QED
  BY <1>1, <1>8

\* The steps of an API goroutine keep the types.
LEMMA ApiType ==
  ASSUME ConstantsAssumption, TypeInv, NEW c \in Caller, Api(c)
  PROVE  TypeInv'
<1> USE DEF TypeInv, StateTypeOK
<1>1. ASSUME NEW r \in conf.requests, Request(c, r) PROVE TypeInv'
  <2>1. Plan(r) # <<>> /\ Plan(r) \in Seq(Step) /\ r.n \in Nat
    BY <1>1, PlanType DEF Request
  <2>2. OpTypeOK' /\ TodoTypeOK' /\ OwnerBusy' /\ StopTypeOK'
    BY <1>1, <2>1 DEF Request, OpTypeOK, TodoTypeOK, OwnerBusy, StopTypeOK
  <2>3. cfgScale' \in Nat
    BY <1>1, <2>1 DEF Request, SupTypeOK
  <2>4. SupTypeOK'
    BY <1>1, <2>3, Zenon DEF Request, SupTypeOK
  <2>5. QED
    BY <1>1, <2>2, <2>4, Unchanged DEF Request
<1>2. CASE UpdateScaleConfig(c)
  <2>1. Head(todo[c]) \in Step /\ Tail(todo[c]) \in Seq(Step)
    BY <1>2, HeadTailProperties DEF UpdateScaleConfig, Wants, TodoTypeOK
  <2>2. OpTypeOK' /\ TodoTypeOK' /\ OwnerBusy' /\ StopTypeOK'
    BY <1>2, <2>1 DEF UpdateScaleConfig, OpTypeOK, TodoTypeOK, OwnerBusy, StopTypeOK
  <2>3. cfgScale' \in Nat
    BY <1>2, <2>1 DEF UpdateScaleConfig, Step
  <2>4. SupTypeOK'
    BY <1>2, <2>3, Zenon DEF UpdateScaleConfig, SupTypeOK
  <2>5. QED
    BY <1>2, <2>2, <2>4, Unchanged DEF UpdateScaleConfig
<1>3. CASE TopUp(c)
  <2>1. Head(todo[c]).n \in Nat
    BY <1>3, HeadTailProperties DEF TopUp, Wants, TodoTypeOK, Step
  <2>2. <<>> \in Seq(Step) /\ <<Do("up", Head(todo[c]).n)>> \in Seq(Step)
    BY <2>1, EmptySeq DEF Do, Step
  <2>3. OpTypeOK' /\ TodoTypeOK' /\ OwnerBusy' /\ StopTypeOK'
    BY <1>3, <2>2 DEF TopUp, OpTypeOK, TodoTypeOK, OwnerBusy, StopTypeOK
  <2>4. QED
    BY <1>3, <2>3, Unchanged DEF TopUp
<1>4. QED
  BY <1>1, <1>2, <1>3 DEF Api

\* The steps of the Manager, the health monitor and the operating system.
LEMMA OtherType ==
  ASSUME ConstantsAssumption, TypeInv,
         ManagerCheck \/ HealthPassed \/ HealthFailed \/ \E p \in Inst : ProcExit(p)
  PROVE  TypeInv'
<1> USE DEF TypeInv, StateTypeOK
<1>1. CASE ManagerCheck
  <2>1. deathMsgs' \in 0..DeathCap
    BY <1>1 DEF ManagerCheck, DeathTypeOK, ConstantsAssumption
  <2>2. DeathTypeOK'
    BY <1>1, <2>1, Zenon DEF ManagerCheck, DeathTypeOK, ManagerAllDead
  <2>3. QED
    BY <1>1, <2>2, Unchanged DEF ManagerCheck
<1>2. CASE HealthPassed
  <2>1. SupTypeOK'
    BY <1>2, Zenon DEF HealthPassed, SupTypeOK
  <2>2. QED
    BY <1>2, <2>1, Unchanged DEF HealthPassed
<1>3. CASE HealthFailed
  <2>1. OsTypeOK'
    BY <1>3 DEF HealthFailed, OsTypeOK
  <2>2. QED
    BY <1>3, <2>1, Unchanged DEF HealthFailed
<1>4. ASSUME NEW p \in Inst, ProcExit(p) PROVE TypeInv'
  <2>1. OsTypeOK'
    BY <1>4 DEF ProcExit, OsTypeOK
  <2>2. QED
    BY <1>4, <2>1, Unchanged DEF ProcExit
<1>5. QED
  BY <1>1, <1>2, <1>3, <1>4

\* A ScaleDown in progress keeps the slots it saw: only restarts write to them,
\* and they keep their number.
LEMMA DownFitsStep ==
  ASSUME ConstantsAssumption, TypeInv, DownFits, CodeStep
  PROVE  DownFits'
<1> SUFFICES ASSUME op'.kind = "down" PROVE op'.n <= Len(slots')
  BY DEF DownFits
<1>1. ASSUME NEW p \in Inst, Monitor(p) \/ StopInstance(p) \/ ProcExit(p)
      PROVE  op'.n <= Len(slots')
  <2>1. UNCHANGED op
    BY <1>1 DEF Monitor, StopInstance, ProcExit, MonExited, MonOneshot, MonNoRestart, MonDecide,
       BackoffCancelled, BackoffOver, RespawnFails, Respawn, SetCount, Replace, CheckAllDead,
       Notify, StopAsk, StopSignal, StopKill, StopDone, opVars
  <2>2. Len(slots') = Len(slots)
    <3>1. CASE Replace(p)
      <4>1. Len(slots) \in Nat /\ DOMAIN slots = 1..Len(slots)
        BY LenProperties DEF TypeInv, StateTypeOK, SupTypeOK
      <4>2. DOMAIN slots' = DOMAIN slots
        BY <3>1 DEF Replace
      <4>3. slots' \in Seq(Inst)
        BY <1>1, MonitorType, <3>1 DEF Monitor, TypeInv, StateTypeOK, SupTypeOK
      <4>4. QED
        BY <4>1, <4>2, <4>3, LenProperties
    <3>2. CASE ~Replace(p)
      BY <1>1, <3>2 DEF Monitor, StopInstance, ProcExit, MonExited, MonOneshot, MonNoRestart, MonDecide,
         BackoffCancelled, BackoffOver, RespawnFails, Respawn, SetCount, CheckAllDead,
         Notify, StopAsk, StopSignal, StopKill, StopDone, supVars
    <3>3. QED
      BY <3>1, <3>2
  <2>3. QED
    BY <2>1, <2>2 DEF DownFits
<1>2. CASE Operation
  <2>1. ASSUME NEW c \in Caller, ScaleDownBegin(c) PROVE op'.n <= Len(slots')
    <3>1. Head(todo[c]).n \in Nat /\ Len(slots) \in Nat
      <4>1. Head(todo[c]) \in Step
        BY <2>1, HeadTailProperties DEF ScaleDownBegin, Wants, TypeInv, StateTypeOK, TodoTypeOK
      <4>2. QED
        BY <4>1, LenProperties DEF Step, TypeInv, StateTypeOK, SupTypeOK
    <3>2. ~(Head(todo[c]).n >= Len(slots)) /\ slots' = slots
      BY <2>1 DEF ScaleDownBegin, NoOp, supVars
    <3>3. op'.n = Head(todo[c]).n
      BY <2>1, <3>2 DEF ScaleDownBegin, Acquire
    <3>4. QED
      BY <3>1, <3>2, <3>3
  <2>2. CASE ~\E c \in Caller : ScaleDownBegin(c)
    <3>1. CASE op' = NoOp
      BY <3>1 DEF NoOp
    <3>2. ASSUME NEW c \in Caller,
                 Acquire(c, "start", <<>>) \/ Acquire(c, "up", <<>>) \/ Acquire(c, "cancelled", <<>>)
          PROVE FALSE
      BY <3>2 DEF Acquire
    <3>3. CASE ScaleUpFails \/ StopInstances \/ \E q \in Inst : StartOne(q) \/ ScaleUpOne(q)
      BY <3>3 DEF TypeInv, StateTypeOK, OpTypeOK, ScaleUpFails, StopInstances, StartOne, ScaleUpOne
    <3>4. CASE \/ op' = op /\ op.kind # "down"
               \/ op' = [op EXCEPT !.list = Tail(@)] /\ op.kind = "upfail"
      BY <3>4 DEF TypeInv, StateTypeOK, OpTypeOK
    <3>5. CASE \E c \in Caller : ScaleUpBegin(c) /\ UNCHANGED op
      BY <3>5 DEF ScaleUpBegin
    <3>6. QED
      BY <1>2, <2>2, <3>1, <3>2, <3>3, <3>4, <3>5
      DEF Operation, StartBegin, ScaleUpBegin, StopBegin, StartFails, StartEnd, ScaleUpCleanup,
          ScaleUpEnd, ScaleDownEnd, StopEnd, Return
  <2>3. QED
    BY <2>1, <2>2
<1>3. CASE \/ \E c \in Caller : Api(c)
           \/ ManagerCheck \/ HealthPassed \/ HealthFailed
  BY <1>3 DEF Api, Request, UpdateScaleConfig, TopUp, ManagerCheck, HealthPassed, HealthFailed,
     supVars, opVars, DownFits
<1>4. QED
  BY <1>1, <1>2, <1>3 DEF CodeStep

-----------------------------------------------------------------------------
TypeIInv == TypeInv /\ DownFits

\* Every step keeps the inductive invariant.
LEMMA TypeIInvStep == ConstantsAssumption /\ TypeIInv /\ [Next]_vars => TypeIInv'
<1> SUFFICES ASSUME ConstantsAssumption, TypeIInv, [Next]_vars PROVE TypeIInv'
  OBVIOUS
<1>1. CASE CodeStep
  <2>1. TypeInv'
    BY <1>1, MonitorType, StopInstanceType, OperationType, ApiType, OtherType
    DEF CodeStep, TypeIInv
  <2>2. QED
    BY <1>1, <2>1, DownFitsStep DEF TypeIInv
<1>2. CASE UNCHANGED vars
  <2>1. TypeInv'
    BY <1>2, Unchanged DEF vars, state, TypeIInv, TypeInv, StateTypeOK
  <2>2. DownFits'
    BY <1>2, Zenon DEF vars, state, supVars, opVars, TypeIInv, DownFits
  <2>3. QED
    BY <2>1, <2>2 DEF TypeIInv
<1>3. QED
  BY <1>1, <1>2 DEF Next

\* Every variable keeps its type, for any number of instances, callers and
\* configurations; and a ScaleDown never slices s.instances beyond its length.
THEOREM TypeInvariant == Spec => []TypeIInv
<1>1. Init => TypeIInv
  <2>1. Init => DownFits
    BY DEF Init, DownFits, NoOp
  <2>2. QED
    BY <2>1, InitType, ConstantsAssumption DEF TypeIInv
<1>2. TypeIInv /\ [Next]_vars => TypeIInv'
  BY TypeIInvStep, ConstantsAssumption
<1>3. QED
  BY <1>1, <1>2, PTL DEF Spec

\* Type correctness (TypeOK), with the history variable.
THEOREM TypeCorrect == Spec => []TypeOK
<1>1. Init => caught \in BOOLEAN
  BY Zenon DEF Init
<1>2. caught \in BOOLEAN /\ [Next]_vars => (caught \in BOOLEAN)'
  BY Zenon DEF Next, vars
<1>3. TypeIInv /\ caught \in BOOLEAN => TypeOK
  BY DEF TypeIInv, TypeInv, TypeOK
<1>4. QED
  BY <1>1, <1>2, <1>3, TypeInvariant, PTL DEF Spec

-----------------------------------------------------------------------------
(* An instance that is being stopped is not restarted. *)

\* The inductive invariant: a running instance is still waited for, so the flag
\* stopInstance clears under inst.mu has not been read by the monitor yet.
WaitsWhileRunning == \A p \in Inst : istate[p] = "running" => mon[p] = "wait"
RestartInv == WaitsWhileRunning /\ NoRestartAfterStop

\* Wiping garbage puts no monitor into the restart loop.
LEMMA WipeRestart ==
  ASSUME StateTypeOK, RestartInv, NEW G, Wipe(G)
  PROVE  RestartInv'
BY DEF Wipe, RestartInv, WaitsWhileRunning, NoRestartAfterStop, Restarting, StateTypeOK, InstTypeOK,
       MonTypeOK

\* Nor does starting an instance, which is waited for from the start.
LEMMA StartRestart ==
  ASSUME StateTypeOK, RestartInv, NEW q \in Inst, NEW i, NEW c,
         NEW m \in [Inst -> MonPcs],
         \A p \in Inst : p # q => /\ mon[p] = "wait" => m[p] = "wait"
                                  /\ m[p] \in Restarting => mon[p] \in Restarting,
         StartInstance(q, i, c, m)
  PROVE  RestartInv'
BY DEF StartInstance, RestartInv, WaitsWhileRunning, NoRestartAfterStop, Restarting, StateTypeOK,
       InstTypeOK, MonTypeOK, MonPcs

\* Every step keeps the invariant, given the types.
LEMMA RestartStep ==
  ASSUME StateTypeOK, RestartInv, [Next]_vars
  PROVE  RestartInv'
<1>1. ASSUME NEW p \in Inst, Monitor(p) PROVE RestartInv'
  <2>1. CASE \/ MonExited(p) \/ MonOneshot(p) \/ MonNoRestart(p) \/ MonDecide(p)
             \/ BackoffCancelled(p) \/ BackoffOver(p) \/ RespawnFails(p)
             \/ SetCount(p) \/ CheckAllDead(p)
    BY <2>1 DEF MonExited, MonOneshot, MonNoRestart, MonDecide, BackoffCancelled, BackoffOver,
       RespawnFails, SetCount, CheckAllDead, RestartInv, WaitsWhileRunning, NoRestartAfterStop,
       Restarting, StateTypeOK, InstTypeOK, MonTypeOK, instVars
  <2>2. ASSUME NEW q \in Inst, Respawn(p, q) PROVE RestartInv'
    <3>1. [mon EXCEPT ![p] = "count"] \in [Inst -> MonPcs]
      BY DEF StateTypeOK, MonTypeOK, MonPcs
    <3>2. \A o \in Inst : /\ mon[o] = "wait" => [mon EXCEPT ![p] = "count"][o] = "wait"
                          /\ [mon EXCEPT ![p] = "count"][o] \in Restarting
                               => mon[o] \in Restarting
      BY <2>2 DEF Respawn, Restarting, StateTypeOK, MonTypeOK
    <3>3. QED
      BY <2>2, <3>1, <3>2, StartRestart DEF Respawn
  <2>3. CASE Replace(p)
    BY <2>3, WipeRestart DEF Replace
  <2>4. CASE Notify(p)
    <3>1. CASE Wipe({p})
      BY <3>1, WipeRestart
    <3>2. CASE mon' = [mon EXCEPT ![p] = "done"] /\ UNCHANGED instVars
      BY <2>4, <3>2 DEF Notify, RestartInv, WaitsWhileRunning, NoRestartAfterStop, Restarting,
         StateTypeOK, InstTypeOK, MonTypeOK, instVars
    <3>3. QED
      BY <2>4, <3>1, <3>2 DEF Notify
  <2>5. QED
    BY <1>1, <2>1, <2>2, <2>3, <2>4 DEF Monitor
<1>2. ASSUME NEW p \in Inst, StopInstance(p) PROVE RestartInv'
  BY <1>2 DEF StopInstance, StopAsk, StopSignal, StopKill, StopDone, RestartInv,
     WaitsWhileRunning, NoRestartAfterStop, Restarting, StateTypeOK, InstTypeOK, MonTypeOK,
     instVars, monVars
<1>3. CASE Operation
  <2>1. mon \in [Inst -> MonPcs]
    BY DEF StateTypeOK, MonTypeOK
  <2>2. ASSUME NEW q \in Inst, StartOne(q) \/ ScaleUpOne(q) PROVE RestartInv'
    BY <2>1, <2>2, StartRestart DEF StartOne, ScaleUpOne
  <2>3. CASE ScaleUpCleanup \/ ScaleDownEnd \/ StopEnd
    <3>1. CASE \E G : Wipe(G)
      BY <3>1, WipeRestart
    <3>2. CASE UNCHANGED <<instVars, monVars>>
      BY <3>2 DEF RestartInv, WaitsWhileRunning, NoRestartAfterStop, instVars, monVars
    <3>3. QED
      BY <2>3, <3>1, <3>2 DEF ScaleUpCleanup, ScaleDownEnd, StopEnd
  <2>4. CASE UNCHANGED <<instVars, monVars>>
    BY <2>4 DEF RestartInv, WaitsWhileRunning, NoRestartAfterStop, instVars, monVars
  <2>5. QED
    BY <1>3, <2>2, <2>3, <2>4
    DEF Operation, StartBegin, ScaleUpBegin, ScaleDownBegin, StopBegin, StartFails, StartEnd,
        ScaleUpFails, ScaleUpEnd, StopInstances
<1>4. CASE \/ \E p \in Inst : ProcExit(p)
           \/ \E c \in Caller : Api(c)
           \/ ManagerCheck \/ HealthPassed \/ HealthFailed \/ UNCHANGED vars
  <2>1. UNCHANGED <<instVars, monVars>>
    BY <1>4 DEF ProcExit, Api, Request, UpdateScaleConfig, TopUp, ManagerCheck, HealthPassed,
       HealthFailed, vars, state
  <2>2. QED
    BY <2>1 DEF RestartInv, WaitsWhileRunning, NoRestartAfterStop, instVars, monVars
<1>5. QED
  BY <1>1, <1>2, <1>3, <1>4 DEF Next, CodeStep

\* NoRestartAfterStop: once stopInstance has found an instance running and
\* cleared allowRestart, its monitor never enters the restart loop, whenever the
\* process exits and whichever operations run.
THEOREM StoppedStaysStopped == Spec => []NoRestartAfterStop
<1>1. Init => RestartInv
  BY DEF Init, RestartInv, WaitsWhileRunning, NoRestartAfterStop, Restarting
<1>2. StateTypeOK /\ RestartInv /\ [Next]_vars => RestartInv'
  BY RestartStep
<1>3. RestartInv => NoRestartAfterStop
  BY DEF RestartInv
<1>4. TypeOK => StateTypeOK
  BY DEF TypeOK
<1>5. QED
  BY <1>1, <1>2, <1>3, <1>4, TypeCorrect, PTL DEF Spec
-----------------------------------------------------------------------------
(* The instances in a sequence of them. *)

\* What is in a sequence.
LEMMA RangeSeq ==
  ASSUME NEW S, NEW s \in Seq(S)
  PROVE  /\ Len(s) \in Nat /\ DOMAIN s = 1..Len(s)
         /\ \A i \in 1..Len(s) : s[i] \in S /\ s[i] \in Range(s)
         /\ \A x \in Range(s) : \E i \in 1..Len(s) : s[i] = x
         /\ Range(s) \subseteq S
<1>1. Len(s) \in Nat /\ DOMAIN s = 1..Len(s) /\ \A i \in 1..Len(s) : s[i] \in S
  BY LenProperties, ElementOfSeq
<1>2. QED
  BY <1>1 DEF Range

LEMMA RangeEmpty == Range(<<>>) = {}
BY EmptySeq DEF Range

LEMMA RangeAppend ==
  ASSUME NEW S, NEW s \in Seq(S), NEW x \in S
  PROVE  Range(Append(s, x)) = Range(s) \cup {x}
<1>1. Append(s, x) \in Seq(S) /\ Len(Append(s, x)) = Len(s) + 1 /\ Len(s) \in Nat
  BY AppendProperties, LenProperties
<1>2. \A i \in 1..Len(s) : Append(s, x)[i] = s[i]
  BY AppendProperties
<1>3. Append(s, x)[Len(s) + 1] = x
  BY AppendProperties
<1>4. ASSUME NEW y \in Range(Append(s, x)) PROVE y \in Range(s) \cup {x}
  <2>1. PICK i \in 1..Len(s) + 1 : Append(s, x)[i] = y
    BY <1>1, RangeSeq
  <2>2. QED
    BY <1>1, <1>2, <1>3, <2>1, RangeSeq
<1>5. Range(s) \cup {x} \subseteq Range(Append(s, x))
  <2>1. \A i \in 1..Len(s) + 1 : Append(s, x)[i] \in Range(Append(s, x))
    BY <1>1, RangeSeq
  <2>2. QED
    BY <1>1, <1>2, <1>3, <2>1, RangeSeq
<1>6. QED
  BY <1>4, <1>5

LEMMA RangeTail ==
  ASSUME NEW S, NEW s \in Seq(S), s # <<>>
  PROVE  Head(s) \in Range(s) /\ Range(s) = {Head(s)} \cup Range(Tail(s))
<1>1. /\ Tail(s) \in Seq(S) /\ Len(Tail(s)) = Len(s) - 1 /\ Len(s) \in Nat /\ Len(s) >= 1
      /\ \A i \in 1..Len(s) - 1 : Tail(s)[i] = s[i + 1]
      /\ Head(s) = s[1]
  BY HeadTailProperties, LenProperties, EmptySeq
<1>2. Head(s) \in Range(s)
  BY <1>1, RangeSeq
<1>3. ASSUME NEW y \in Range(s), y # Head(s) PROVE y \in Range(Tail(s))
  <2>1. PICK i \in 1..Len(s) : s[i] = y
    BY RangeSeq
  <2>2. i - 1 \in 1..Len(s) - 1 /\ Tail(s)[i - 1] = y
    BY <1>1, <1>3, <2>1
  <2>3. QED
    BY <1>1, <2>2, RangeSeq
<1>4. ASSUME NEW y \in Range(Tail(s)) PROVE y \in Range(s)
  <2>1. PICK i \in 1..Len(Tail(s)) : Tail(s)[i] = y
    BY <1>1, <1>4, RangeSeq
  <2>2. i \in 1..Len(s) - 1 /\ i + 1 \in 1..Len(s) /\ s[i + 1] = y
    BY <1>1, <2>1
  <2>3. QED
    BY <2>2, RangeSeq
<1>5. QED
  BY <1>2, <1>3, <1>4

\* The two halves of a sequence.
LEMMA RangeCut ==
  ASSUME NEW S, NEW s \in Seq(S), NEW n \in Nat, n <= Len(s)
  PROVE  /\ SubSeq(s, 1, n) \in Seq(S) /\ Len(SubSeq(s, 1, n)) = n
         /\ \A i \in 1..n : SubSeq(s, 1, n)[i] = s[i]
         /\ SubSeq(s, n + 1, Len(s)) \in Seq(S)
         /\ \A x : x \in Range(SubSeq(s, 1, n)) <=> \E i \in 1..n : x = s[i]
         /\ \A x : x \in Range(SubSeq(s, n + 1, Len(s))) <=> \E i \in n + 1 .. Len(s) : x = s[i]
<1>1. Len(s) \in Nat /\ \A i \in 1..Len(s) : s[i] \in S
  BY RangeSeq
<1>2. /\ SubSeq(s, 1, n) \in Seq(S) /\ Len(SubSeq(s, 1, n)) = n
      /\ \A i \in 1..n : SubSeq(s, 1, n)[i] = s[i]
  <2>1. n + 1 - 1 = n /\ 1 \in Int /\ n \in Int /\ \A i \in 1..n : s[i] \in S
    BY <1>1
  <2>2. /\ SubSeq(s, 1, n) \in Seq(S)
        /\ Len(SubSeq(s, 1, n)) = IF 1 <= n THEN n - 1 + 1 ELSE 0
        /\ \A i \in 1 .. n - 1 + 1 : SubSeq(s, 1, n)[i] = s[1 + i - 1]
    BY <1>1, <2>1, SubSeqProperties
  <2>3. QED
    BY <1>1, <2>2
<1>3. /\ SubSeq(s, n + 1, Len(s)) \in Seq(S)
      /\ Len(SubSeq(s, n + 1, Len(s))) = Len(s) - n
      /\ \A i \in 1 .. Len(s) - n : SubSeq(s, n + 1, Len(s))[i] = s[n + i]
  <2>1. n + 1 \in Int /\ Len(s) \in Int /\ \A i \in n + 1 .. Len(s) : s[i] \in S
    BY <1>1
  <2>2. /\ SubSeq(s, n + 1, Len(s)) \in Seq(S)
        /\ Len(SubSeq(s, n + 1, Len(s))) = IF n + 1 <= Len(s) THEN Len(s) - (n + 1) + 1 ELSE 0
        /\ \A i \in 1 .. Len(s) - (n + 1) + 1 : SubSeq(s, n + 1, Len(s))[i] = s[n + 1 + i - 1]
    BY <2>1, SubSeqProperties
  <2>3. QED
    BY <1>1, <2>2
<1>4. \A x : x \in Range(SubSeq(s, 1, n)) <=> \E i \in 1..n : x = s[i]
  <2>1. ASSUME NEW x, x \in Range(SubSeq(s, 1, n)) PROVE \E i \in 1..n : x = s[i]
    <3>1. PICK i \in 1..Len(SubSeq(s, 1, n)) : SubSeq(s, 1, n)[i] = x
      BY <1>2, <2>1, RangeSeq
    <3>2. QED
      BY <1>2, <3>1
  <2>2. ASSUME NEW x, NEW i \in 1..n, x = s[i] PROVE x \in Range(SubSeq(s, 1, n))
    <3>1. i \in 1..Len(SubSeq(s, 1, n)) /\ SubSeq(s, 1, n)[i] = x
      BY <1>2, <2>2
    <3>2. QED
      BY <1>2, <3>1, RangeSeq
  <2>3. QED
    BY <2>1, <2>2
<1>5. ASSUME NEW x PROVE x \in Range(SubSeq(s, n + 1, Len(s))) <=> \E i \in n + 1 .. Len(s) : x = s[i]
  <2>1. ASSUME NEW i \in n + 1 .. Len(s), x = s[i] PROVE x \in Range(SubSeq(s, n + 1, Len(s)))
    <3>1. i - n \in 1 .. Len(s) - n /\ SubSeq(s, n + 1, Len(s))[i - n] = x
      BY <1>1, <1>3, <2>1
    <3>2. QED
      BY <1>3, <3>1, RangeSeq
  <2>2. ASSUME x \in Range(SubSeq(s, n + 1, Len(s))) PROVE \E i \in n + 1 .. Len(s) : x = s[i]
    <3>1. PICK i \in 1 .. Len(s) - n : SubSeq(s, n + 1, Len(s))[i] = x
      BY <1>3, <2>2, RangeSeq
    <3>2. n + i \in n + 1 .. Len(s) /\ x = s[n + i]
      BY <1>1, <1>3, <3>1
    <3>3. QED
      BY <3>2
  <2>3. QED
    BY <2>1, <2>2
<1>6. QED
  BY <1>2, <1>3, <1>4, <1>5
-----------------------------------------------------------------------------
(* Processes, their monitors and their stopInstance calls. *)

\* A process that has not exited is waited for by its monitor.
AliveWaits == \A p \in alive : mon[p] = "wait"

\* A monitor waits for an instance that runs or is being stopped, and one being
\* stopped will not be restarted.
WaitState ==
  \A p \in Inst : /\ mon[p] = "wait" => istate[p] \in {"running", "stopping"}
                  /\ istate[p] = "stopping" => ~allow[p]

\* How far stopInstance has come with a process: before it looks, the instance
\* of a process that lives is running; when it returns, the process is dead.
Begun == {"signal", "wait", "killed"}
StopState ==
  \A p \in Inst :
    /\ p \in alive => istate[p] = "running" \/ (istate[p] = "stopping" /\ stopper[p] \in Begun)
    /\ stopper[p] \in {"ok", "err"} => p \notin alive
    /\ stopper[p] \in Begun \cup {"ok", "err"} => istate[p] # "running"
    /\ stopper[p] # "idle" => p \in InHand /\ op.kind \in {"upfail", "down", "stopping"}

\* A process whose context is cancelled has been sent SIGKILL.
CancelledDie == \A p \in alive : pctx[p] = "cancelled" => p \in killed

ProcInv == AliveWaits /\ WaitState /\ StopState /\ CancelledDie

\* What the operation that holds operationMu knows of the supervisor.
OpInv ==
  /\ op.kind \in {"none", "start", "cancelled"} => op.list = <<>>
  /\ op.kind \in {"cancelled", "stopping"} => supState = "stopping" /\ ctx # "live"
  /\ op.kind = "start" => supState = "starting" /\ ctx = "live"
  /\ supState = "stopped" => ctx = "nil"

\* Starting a process: nobody waits for it or stops it yet.
LEMMA StartProc ==
  ASSUME StateTypeOK, ProcInv, NEW q \in Inst, NEW i, NEW c \in {"cur", "old"},
         NEW m \in [Inst -> MonPcs],
         \A p \in Inst : mon[p] = "wait" <=> m[p] = "wait",
         StartInstance(q, i, c, m), UNCHANGED stopper,
         Range(op.list) \subseteq Range(op'.list), op'.kind = op.kind
  PROVE  ProcInv'
<1> USE DEF StartInstance, Fresh, StateTypeOK, InstTypeOK, MonTypeOK, OsTypeOK, StopTypeOK
<1>1. AliveWaits' /\ WaitState'
  BY DEF ProcInv, AliveWaits, WaitState
<1>2. StopState'
  BY DEF ProcInv, StopState, InHand, Begun
<1>3. CancelledDie'
  BY DEF ProcInv, CancelledDie
<1>4. QED
  BY <1>1, <1>2, <1>3 DEF ProcInv

\* Wiping garbage, and leaving the stopInstance calls alone or dropping those
\* that have returned.
LEMMA WipeProc ==
  ASSUME StateTypeOK, ProcInv, NEW G, Wipe(G), \A p \in G : mon[p] # "wait",
         UNCHANGED <<alive, killed>>, StopTypeOK',
         \A p \in Inst :
           \/ /\ stopper'[p] = stopper[p]
              /\ stopper'[p] # "idle" => p \in InHand' /\ op'.kind \in {"upfail", "down", "stopping"}
           \/ stopper'[p] = "idle" /\ stopper[p] \in {"idle", "ok", "err"}
  PROVE  ProcInv'
<1> USE DEF Wipe, StateTypeOK, InstTypeOK, MonTypeOK, OsTypeOK, StopTypeOK, ProcInv
<1>1. AliveWaits' /\ WaitState'
  BY DEF AliveWaits, WaitState
<1>2. StopState'
  BY DEF AliveWaits, StopState, Begun
<1>3. CancelledDie'
  BY DEF AliveWaits, CancelledDie
<1>4. QED
  BY <1>1, <1>2, <1>3

\* The steps of a monitor.
LEMMA MonitorProc ==
  ASSUME StateTypeOK, ProcInv, NEW p \in Inst, Monitor(p)
  PROVE  ProcInv'
<1> USE DEF StateTypeOK, InstTypeOK, MonTypeOK, OsTypeOK, StopTypeOK
<1>1. CASE \/ MonExited(p) \/ MonOneshot(p) \/ MonNoRestart(p) \/ MonDecide(p)
           \/ BackoffCancelled(p) \/ BackoffOver(p) \/ RespawnFails(p)
           \/ SetCount(p) \/ CheckAllDead(p)
  <2> USE DEF MonExited, MonOneshot, MonNoRestart, MonDecide, BackoffCancelled, BackoffOver,
       RespawnFails, SetCount, CheckAllDead, ProcInv
  <2>1. AliveWaits' /\ WaitState'
    BY <1>1 DEF AliveWaits, WaitState, instVars, osVars
  <2>2. StopState'
    BY <1>1 DEF AliveWaits, StopState, Begun, instVars, osVars, opVars, InHand
  <2>3. CancelledDie'
    BY <1>1 DEF AliveWaits, CancelledDie, osVars
  <2>4. QED
    BY <2>1, <2>2, <2>3
<1>2. ASSUME NEW q \in Inst, Respawn(p, q) PROVE ProcInv'
  <2>1. [mon EXCEPT ![p] = "count"] \in [Inst -> MonPcs]
    BY DEF MonPcs
  <2>2. \A o \in Inst : mon[o] = "wait" <=> [mon EXCEPT ![p] = "count"][o] = "wait"
    BY <1>2 DEF Respawn
  <2>3. StartInstance(q, idx[p], "cur", [mon EXCEPT ![p] = "count"])
    BY <1>2 DEF Respawn
  <2>4. UNCHANGED <<op, stopper>>
    BY <1>2 DEF Respawn, opVars
  <2>5. Range(op.list) \subseteq Range(op'.list) /\ op'.kind = op.kind
    BY <2>4
  <2>6. QED
    BY <2>1, <2>2, <2>3, <2>4, <2>5, StartProc
<1>3. CASE Wipe({p}) /\ UNCHANGED <<alive, killed, op, stopper>> /\ mon[p] # "wait"
  BY <1>3, WipeProc DEF ProcInv, StopState, InHand
<1>4. CASE Replace(p)
  BY <1>3, <1>4 DEF Replace, opVars
<1>5. CASE Notify(p)
  <2>1. CASE Wipe({p})
    BY <1>3, <1>5, <2>1 DEF Notify, opVars
  <2>2. CASE mon' = [mon EXCEPT ![p] = "done"] /\ UNCHANGED <<instVars, seen, succ, pctx>>
    BY <1>5, <2>2 DEF Notify, ProcInv, AliveWaits, WaitState, StopState, CancelledDie, Begun,
       instVars, opVars, InHand
  <2>3. QED
    BY <1>5, <2>1, <2>2 DEF Notify
<1>6. QED
  BY <1>1, <1>2, <1>4, <1>5 DEF Monitor

\* The steps of a stopInstance call.
LEMMA StopInstanceProc ==
  ASSUME StateTypeOK, ProcInv, NEW p \in Inst, StopInstance(p)
  PROVE  ProcInv'
<1> USE DEF StateTypeOK, InstTypeOK, MonTypeOK, OsTypeOK, StopTypeOK, ProcInv,
            StopInstance, StopAsk, StopSignal, StopKill, StopDone
<1>1. AliveWaits' /\ WaitState'
  BY DEF AliveWaits, WaitState, instVars, monVars, osVars
<1>2. StopState'
  BY DEF AliveWaits, StopState, Begun, instVars, monVars, osVars, InHand
<1>3. CancelledDie'
  BY DEF CancelledDie, osVars
<1>4. QED
  BY <1>1, <1>2, <1>3

\* Nothing has a stopInstance call but what the operation stops.
LEMMA NoStoppers ==
  ASSUME StateTypeOK, ProcInv, op.kind \notin {"upfail", "down", "stopping"} \/ op.list = <<>>
  PROVE  \A p \in Inst : stopper[p] = "idle"
BY RangeEmpty DEF ProcInv, StopState, InHand

\* Asking a list of instances to stop.
LEMMA AskAllProc ==
  ASSUME StateTypeOK, ProcInv, \A p \in Inst : stopper[p] = "idle", NEW s, AskAll(s),
         UNCHANGED <<instVars, monVars, osVars>>, op'.list = s, op'.kind \in {"down", "stopping"}
  PROVE  ProcInv'
<1> USE DEF StateTypeOK, InstTypeOK, MonTypeOK, OsTypeOK, StopTypeOK, ProcInv, instVars, monVars, osVars
<1>1. AliveWaits' /\ WaitState' /\ CancelledDie'
  BY DEF AliveWaits, WaitState, CancelledDie
<1>2. StopState'
  BY DEF AskAll, StopState, Begun, InHand
<1>3. QED
  BY <1>1, <1>2

\* The steps of an operation.
LEMMA OperationProc ==
  ASSUME TypeInv, ProcInv, OpInv, Operation
  PROVE  ProcInv'
<1> USE DEF TypeInv
<1>1. ASSUME NEW c \in Caller, NEW k \in {"start", "up", "cancelled"}, Acquire(c, k, <<>>),
             UNCHANGED <<instVars, monVars, alive, stopper>>,
             \A p \in alive : pctx'[p] = "cancelled" => p \in killed'
      PROVE  ProcInv'
  <2>1. \A p \in Inst : stopper[p] = "idle"
    BY <1>1, NoStoppers DEF Acquire
  <2>2. QED
    BY <1>1, <2>1 DEF ProcInv, AliveWaits, WaitState, StopState, CancelledDie, instVars, monVars
<1>2. ASSUME NEW c \in Caller, StartBegin(c) PROVE ProcInv'
  <2>1. \A p \in alive : pctx'[p] = "cancelled" => p \in killed'
    BY <1>2 DEF StartBegin, Superseded, ProcInv, CancelledDie, StateTypeOK, OsTypeOK
  <2>2. QED
    BY <1>1, <1>2, <2>1 DEF StartBegin
<1>3. ASSUME NEW c \in Caller, StopBegin(c) PROVE ProcInv'
  <2>1. \A p \in alive : pctx'[p] = "cancelled" => p \in killed'
    BY <1>3 DEF StopBegin, Cancelled, CancelKills, ProcInv, CancelledDie, StateTypeOK, OsTypeOK
  <2>2. QED
    BY <1>1, <1>3, <2>1 DEF StopBegin
<1>4. ASSUME NEW c \in Caller, ScaleUpBegin(c) PROVE ProcInv'
  <2>1. \A p \in alive : pctx'[p] = "cancelled" => p \in killed'
    BY <1>4 DEF ScaleUpBegin, ProcInv, CancelledDie, osVars
  <2>2. CASE UNCHANGED op
    BY <1>4, <2>2 DEF ScaleUpBegin, ProcInv, AliveWaits, WaitState, StopState, CancelledDie,
       InHand, instVars, monVars, osVars
  <2>3. CASE Acquire(c, "up", <<>>)
    BY <1>1, <1>4, <2>1, <2>3 DEF ScaleUpBegin, osVars
  <2>4. QED
    BY <1>4, <2>2, <2>3 DEF ScaleUpBegin
<1>5. ASSUME NEW c \in Caller, ScaleDownBegin(c) PROVE ProcInv'
  <2>1. CASE UNCHANGED <<op, stopper>>
    BY <1>5, <2>1 DEF ScaleDownBegin, ProcInv, AliveWaits, WaitState, StopState, CancelledDie,
       InHand, instVars, monVars, osVars
  <2>2. ASSUME NEW t, Acquire(c, "down", t), AskAll(t) PROVE ProcInv'
    <3>1. \A p \in Inst : stopper[p] = "idle"
      BY <1>5, NoStoppers DEF ScaleDownBegin
    <3>2. op'.list = t /\ op'.kind = "down"
      BY <2>2 DEF Acquire
    <3>3. QED
      BY <1>5, <2>2, <3>1, <3>2, AskAllProc DEF ScaleDownBegin
  <2>3. QED
    BY <1>5, <2>1, <2>2 DEF ScaleDownBegin
<1>6. ASSUME NEW q \in Inst, StartOne(q) \/ ScaleUpOne(q) PROVE ProcInv'
  <2>1. mon \in [Inst -> MonPcs]
    BY DEF StateTypeOK, MonTypeOK
  <2>2. Range(op.list) \subseteq Range(op'.list) /\ op'.kind = op.kind
    <3>1. op.list \in Seq(Inst)
      BY DEF StateTypeOK, OpTypeOK
    <3>2. op'.kind = op.kind /\ op'.list \in {op.list, Append(op.list, q)}
      BY <1>6 DEF StartOne, ScaleUpOne, StateTypeOK, OpTypeOK
    <3>3. Range(op.list) \subseteq Range(Append(op.list, q))
      BY <3>1, RangeAppend
    <3>4. QED
      BY <3>2, <3>3
  <2>3. CASE StartOne(q)
    <3>1. StartInstance(q, op.n, "cur", mon) /\ UNCHANGED stopper
      BY <2>3 DEF StartOne
    <3>2. QED
      BY <2>1, <2>2, <3>1, StartProc
  <2>4. CASE ScaleUpOne(q)
    <3> DEFINE c == IF ctx = "nil" THEN "old" ELSE "cur"
    <3>1. StartInstance(q, Len(slots) + Len(op.list), c, mon) /\ UNCHANGED stopper
      BY <2>4 DEF ScaleUpOne
    <3>2. c \in {"cur", "old"}
      OBVIOUS
    <3>3. QED
      BY <2>1, <2>2, <3>1, <3>2, StartProc
  <2>5. QED
    BY <1>6, <2>3, <2>4
<1>7. CASE StartFails \/ StartEnd \/ ScaleUpEnd
  <2>1. \A p \in Inst : stopper[p] = "idle"
    BY <1>7, NoStoppers DEF StartFails, StartEnd, ScaleUpEnd
  <2>2. \A p \in alive : pctx'[p] = "cancelled" => p \in killed'
    BY <1>7 DEF StartFails, StartEnd, ScaleUpEnd, Cancelled, CancelKills, ProcInv, CancelledDie,
       StateTypeOK, OsTypeOK, osVars
  <2>3. UNCHANGED <<instVars, monVars, alive, stopper>>
    BY <1>7 DEF StartFails, StartEnd, ScaleUpEnd, osVars
  <2>4. QED
    BY <2>1, <2>2, <2>3 DEF ProcInv, AliveWaits, WaitState, StopState, CancelledDie, instVars, monVars
<1>8. CASE ScaleUpFails
  BY <1>8, NoStoppers DEF ScaleUpFails, ProcInv, AliveWaits, WaitState, StopState, CancelledDie,
       instVars, monVars, osVars
<1>9. CASE ScaleUpCleanup
  <2>1. op.list \in Seq(Inst) /\ op \in [kind : OpKinds, by : SUBSET Caller, n : Nat, list : Seq(Inst)]
    BY DEF StateTypeOK, OpTypeOK
  <2>2. CASE op.list = <<>>
    <3>1. \A p \in Inst : stopper[p] = "idle"
      BY <2>2, NoStoppers
    <3>2. UNCHANGED <<instVars, monVars, alive, killed, pctx, stopper>>
      BY <1>9, <2>2 DEF ScaleUpCleanup
    <3>3. QED
      BY <3>1, <3>2 DEF ProcInv, AliveWaits, WaitState, StopState, CancelledDie, instVars, monVars
  <2>3. CASE op.list # <<>> /\ stopper[Head(op.list)] = "idle"
    <3>1. Head(op.list) \in InHand /\ Head(op.list) \in Inst
      BY <2>1, <2>3, RangeTail, RangeSeq DEF InHand
    <3>2. UNCHANGED <<op, instVars, monVars, alive, killed, pctx>>
      BY <1>9, <2>3 DEF ScaleUpCleanup
    <3>3. stopper' = [stopper EXCEPT ![Head(op.list)] = "ask"] /\ op.kind = "upfail"
      BY <1>9, <2>3 DEF ScaleUpCleanup
    <3>4. AliveWaits' /\ WaitState' /\ CancelledDie'
      BY <3>2 DEF ProcInv, AliveWaits, WaitState, CancelledDie, instVars, monVars
    <3>5. StopState'
      BY <2>3, <3>1, <3>2, <3>3 DEF ProcInv, StopState, Begun, StateTypeOK, StopTypeOK, InHand, instVars
    <3>6. QED
      BY <3>4, <3>5 DEF ProcInv
  <2>4. CASE op.list # <<>> /\ stopper[Head(op.list)] # "idle"
    <3> DEFINE h == Head(op.list)
    <3>1. /\ h \in Inst /\ InHand = {h} \cup Range(Tail(op.list))
      BY <2>1, <2>4, RangeTail, RangeSeq DEF InHand
    <3>2. /\ stopper[h] \in {"ok", "err"} /\ stopper' = [stopper EXCEPT ![h] = "idle"]
          /\ op' = [op EXCEPT !.list = Tail(@)] /\ Wipe(Ended(<<h>>)) /\ UNCHANGED <<alive, killed>>
          /\ op.kind = "upfail"
      BY <1>9, <2>4 DEF ScaleUpCleanup
    <3>3. InHand' = Range(Tail(op.list)) /\ op'.kind = "upfail"
      BY <2>1, <3>2 DEF InHand
    <3>4. \A p \in Ended(<<h>>) : mon[p] # "wait"
      BY DEF Ended
    <3>5. stopper' \in [Inst -> StopPcs]
      BY <3>2 DEF StateTypeOK, StopTypeOK, StopPcs
    <3>6. \A p \in Inst :
           \/ /\ stopper'[p] = stopper[p]
              /\ stopper'[p] # "idle" => p \in InHand' /\ op'.kind \in {"upfail", "down", "stopping"}
           \/ stopper'[p] = "idle" /\ stopper[p] \in {"idle", "ok", "err"}
      BY <3>1, <3>2, <3>3 DEF ProcInv, StopState, StateTypeOK, StopTypeOK
    <3>7. QED
      BY <3>2, <3>4, <3>5, <3>6, WipeProc DEF StopTypeOK
  <2>5. QED
    BY <2>2, <2>3, <2>4
<1>10. CASE ScaleDownEnd \/ StopEnd
  <2>1. PICK G : Wipe(G) /\ \A p \in G : mon[p] # "wait"
    BY <1>10 DEF ScaleDownEnd, StopEnd, Ended
  <2>2. stopper' = [p \in Inst |-> "idle"] /\ UNCHANGED <<alive, killed>>
    BY <1>10 DEF ScaleDownEnd, StopEnd
  <2>3. \A p \in Inst : stopper'[p] = "idle" /\ stopper[p] \in {"idle", "ok", "err"}
    BY <1>10, <2>2 DEF ScaleDownEnd, StopEnd, StoppersDone, ProcInv, StopState
  <2>4. StopTypeOK'
    BY <2>2 DEF StopTypeOK, StopPcs
  <2>5. QED
    BY <2>1, <2>2, <2>3, <2>4, WipeProc
<1>11. CASE StopInstances
  <2>1. \A p \in Inst : stopper[p] = "idle"
    BY <1>11, NoStoppers DEF StopInstances
  <2>2. op'.list = slots /\ op'.kind = "stopping"
    BY <1>11 DEF StopInstances, StateTypeOK, OpTypeOK
  <2>3. QED
    BY <1>11, <2>1, <2>2, AskAllProc DEF StopInstances
<1>12. QED
  BY <1>2, <1>3, <1>4, <1>5, <1>6, <1>7, <1>8, <1>9, <1>10, <1>11 DEF Operation

\* Every step of the code keeps both.
LEMMA ProcStep ==
  ASSUME TypeInv, ProcInv, OpInv, CodeStep
  PROVE  ProcInv'
<1> USE DEF TypeInv
<1>1. ASSUME NEW p \in Inst, ProcExit(p) PROVE ProcInv'
  BY <1>1 DEF ProcExit, ProcInv, AliveWaits, WaitState, StopState, CancelledDie, InHand,
     instVars, monVars, opVars
<1>2. CASE \/ \E c \in Caller : Api(c)
           \/ ManagerCheck \/ HealthPassed \/ HealthFailed
  <2>1. /\ UNCHANGED <<instVars, monVars, alive, pctx, op, stopper>>
        /\ killed \subseteq killed'
    BY <1>2 DEF Api, Request, UpdateScaleConfig, TopUp, ManagerCheck, HealthPassed, HealthFailed,
       osVars, opVars
  <2>2. QED
    BY <2>1 DEF ProcInv, AliveWaits, WaitState, StopState, CancelledDie, InHand, instVars, monVars
<1>3. QED
  BY <1>1, <1>2, MonitorProc, StopInstanceProc, OperationProc DEF CodeStep

LEMMA OpStep ==
  ASSUME TypeInv, OpInv, CodeStep
  PROVE  OpInv'
<1> USE DEF TypeInv, StateTypeOK, OpTypeOK
<1>1. CASE \/ \E p \in Inst : ProcExit(p) \/ Monitor(p) \/ StopInstance(p)
           \/ \E c \in Caller : Api(c)
           \/ ManagerCheck \/ HealthPassed \/ HealthFailed
  <2>1. UNCHANGED <<op, supState, ctx>>
    BY <1>1 DEF Monitor, StopInstance, ProcExit, MonExited, MonOneshot, MonNoRestart, MonDecide,
       BackoffCancelled, BackoffOver, RespawnFails, Respawn, SetCount, Replace, CheckAllDead,
       Notify, StopAsk, StopSignal, StopKill, StopDone, Api, Request, UpdateScaleConfig, TopUp,
       ManagerCheck, HealthPassed, HealthFailed, supVars, opVars
  <2>2. QED
    BY <2>1 DEF OpInv
<1>2. CASE Operation
  <2>1. CASE \/ \E q \in Inst : StartOne(q) \/ ScaleUpOne(q)
             \/ ScaleUpFails \/ ScaleUpCleanup \/ StopInstances
    <3>1. UNCHANGED <<supState, ctx>>
      BY <2>1 DEF StartOne, ScaleUpOne, ScaleUpFails, ScaleUpCleanup, StopInstances, supVars
    <3>2. \/ op'.kind = op.kind /\ (op.kind = "start" => op'.list = op.list)
          \/ op.kind = "up" /\ op'.kind = "upfail"
          \/ op.kind = "cancelled" /\ op'.kind = "stopping"
          \/ op'.kind = "none" /\ op'.list = <<>>
      <4>1. ASSUME NEW q \in Inst, StartOne(q) \/ ScaleUpOne(q)
            PROVE  op'.kind = op.kind /\ (op.kind = "start" => op'.list = op.list)
        BY <4>1 DEF StartOne, ScaleUpOne
      <4>2. CASE ScaleUpFails \/ StopInstances
        BY <4>2 DEF ScaleUpFails, StopInstances
      <4>3. CASE ScaleUpCleanup
        BY <4>3 DEF ScaleUpCleanup, Return, NoOp
      <4>4. QED
        BY <2>1, <4>1, <4>2, <4>3
    <3>3. op'.kind = op.kind /\ op.kind \in {"none", "cancelled"} => op'.list = op.list
      BY <2>1 DEF StartOne, ScaleUpOne, ScaleUpFails, ScaleUpCleanup, StopInstances
    <3>4. QED
      BY <3>1, <3>2, <3>3 DEF OpInv
  <2>2. ASSUME NEW c \in Caller,
               StartBegin(c) \/ ScaleUpBegin(c) \/ ScaleDownBegin(c) \/ StopBegin(c)
        PROVE  OpInv'
    BY <2>2 DEF OpInv, StartBegin, ScaleUpBegin, ScaleDownBegin, StopBegin, Acquire, supVars
  <2>3. CASE StartFails \/ StartEnd \/ ScaleUpEnd \/ ScaleDownEnd \/ StopEnd
    <3>1. op'.kind = "none" /\ op'.list = <<>>
      BY <2>3 DEF StartFails, StartEnd, ScaleUpEnd, ScaleDownEnd, StopEnd, Return, NoOp
    <3>2. supState' = "stopped" => ctx' = "nil"
      BY <2>3 DEF OpInv, StartFails, StartEnd, ScaleUpEnd, ScaleDownEnd, StopEnd
    <3>3. QED
      BY <3>1, <3>2 DEF OpInv
  <2>4. QED
    BY <1>2, <2>1, <2>2, <2>3 DEF Operation
<1>3. QED
  BY <1>1, <1>2 DEF CodeStep

-----------------------------------------------------------------------------
(* What a lone API goroutine has still to do, and what the supervisor looks   *)
(* like meanwhile.                                                            *)

\* The plans, and what is left of them on the way.
Shape(s) ==
  \/ s = <<>>
  \/ \E n \in Nat : s \in {<<Do("start", 0)>>, <<Do("stop", 0)>>, <<Do("topup", n)>>,
                           <<Do("up", n)>>, <<Do("cfg", n)>>}
  \/ \E n \in Nat : s \in {<<Do("stop", 0), Do("start", 0)>>, <<Do("stop", 0), Do("cfg", 0)>>,
                           <<Do("start", 0), Do("topup", n)>>, <<Do("up", n), Do("cfg", n)>>,
                           <<Do("down", n), Do("cfg", n)>>}

\* The step that an operation carries out.
StepOf == [start |-> "start", up |-> "up", upfail |-> "up", down |-> "down",
           cancelled |-> "stop", stopping |-> "stop"]

\* Plans have their shapes, and only a caller has one.
Planned == \A c \in Caller : Shape(todo[c]) /\ (todo[c] # <<>> => c \in conf.callers)
\* An operation is the first step of its owner's plan.
Owned == op.kind # "none" =>
           \E c \in Caller : op.by = {c} /\ todo[c] # <<>> /\ Head(todo[c]).do = StepOf[op.kind]
\* A goroutine about to scale has seen a context, and one about to start has
\* seen no instances.
Ahead ==
  \A c \in Caller : todo[c] # <<>> =>
    /\ Head(todo[c]).do \in {"up", "topup", "down"} => ctx # "nil"
    /\ Head(todo[c]).do = "start" /\ op.kind = "none" => slots = <<>>
\* Start has made as many instances as it has counted.
Counted == op.kind = "start" => Len(slots) = op.n
NilIsEmpty == ctx = "nil" => slots = <<>>

Flow == Planned /\ Owned /\ Ahead /\ Counted /\ NilIsEmpty
FlowInv == OneCaller => Flow

\* One step of a plan and what follows it.
LEMMA ShapeTail ==
  ASSUME NEW s \in Seq(Step), Shape(s), s # <<>>
  PROVE  /\ Shape(Tail(s))
         /\ Head(s).do = "start" =>
              Head(s).n = 0 /\ (Tail(s) # <<>> => Head(Tail(s)).do = "topup")
         /\ Head(s).do = "stop" => (Tail(s) # <<>> => Head(Tail(s)).do \in {"start", "cfg"})
         /\ Head(s).do \in {"up", "down"} => (Tail(s) # <<>> => Head(Tail(s)).do = "cfg")
         /\ Head(s).do \in {"topup", "cfg"} => Tail(s) = <<>>
<1>1. \A x : Head(<<x>>) = x /\ Tail(<<x>>) = <<>>
  OBVIOUS
<1>2. \A x, y : Head(<<x, y>>) = x /\ Tail(<<x, y>>) = <<y>>
  OBVIOUS
<1>3. CASE \E n \in Nat : s \in {<<Do("start", 0)>>, <<Do("stop", 0)>>, <<Do("topup", n)>>,
                                 <<Do("up", n)>>, <<Do("cfg", n)>>}
  <2>1. PICK x : s = <<x>> /\ (x.do = "start" => x.n = 0) /\ x.do # "down"
    BY <1>3 DEF Do
  <2>2. QED
    BY <1>1, <2>1 DEF Shape
<1>4. CASE \E n \in Nat : s \in {<<Do("stop", 0), Do("start", 0)>>, <<Do("stop", 0), Do("cfg", 0)>>,
                                 <<Do("start", 0), Do("topup", n)>>, <<Do("up", n), Do("cfg", n)>>,
                                 <<Do("down", n), Do("cfg", n)>>}
  <2>1. PICK x, y : /\ s = <<x, y>>
                    /\ \E n \in Nat : y \in {Do("start", 0), Do("cfg", n), Do("topup", n)}
                    /\ x.do \in {"start", "stop", "up", "down"}
                    /\ x.do = "start" => x.n = 0 /\ y.do = "topup"
                    /\ x.do = "stop" => y.do \in {"start", "cfg"}
                    /\ x.do \in {"up", "down"} => y.do = "cfg"
    BY <1>4 DEF Do
  <2>2. Shape(<<y>>) /\ Head(<<y>>) = y
    BY <2>1 DEF Shape
  <2>3. QED
    BY <1>2, <2>1, <2>2
<1>5. QED
  BY <1>3, <1>4 DEF Shape

\* Only one goroutine has a plan.
LEMMA Alone ==
  ASSUME OneCaller, Planned, NEW c \in Caller, NEW d \in Caller, todo[c] # <<>>, todo[d] # <<>>
  PROVE  c = d
BY DEF OneCaller, Planned

\* Two plans of one step make one of two steps.
LEMMA TwoSteps ==
  ASSUME NEW S, NEW x \in S, NEW y \in S
  PROVE  <<x>> \o <<y>> = <<x, y>>
<1>1. /\ <<x>> \in Seq(S) /\ Len(<<x>>) = 1 /\ <<x>>[1] = x
      /\ <<y>> \in Seq(S) /\ Len(<<y>>) = 1 /\ <<y>>[1] = y
      /\ <<x, y>> \in Seq(S) /\ Len(<<x, y>>) = 2 /\ <<x, y>>[1] = x /\ <<x, y>>[2] = y
  OBVIOUS
<1>2. /\ <<x>> \o <<y>> \in Seq(S) /\ Len(<<x>> \o <<y>>) = 2
      /\ (<<x>> \o <<y>>)[1] = x /\ (<<x>> \o <<y>>)[2] = y
  BY <1>1, ConcatProperties
<1>3. \A i \in 1..2 : i = 1 \/ i = 2
  OBVIOUS
<1>4. QED
  BY <1>1, <1>2, <1>3, SeqEqual

\* What a request makes its goroutine plan.
LEMMA PlanShape ==
  ASSUME ConstantsAssumption, TypeInv, NEW r \in conf.requests, Plan(r) # <<>>
  PROVE  /\ Plan(r) \in Seq(Step) /\ Shape(Plan(r))
         /\ Head(Plan(r)).do \in {"up", "topup", "down"} => slots # <<>>
         /\ Head(Plan(r)).do = "start" => slots = <<>> \/ supState = "stopped"
<1> DEFINE Fits(s) == /\ Shape(s)
                      /\ s # <<>> =>
                           /\ Head(s).do \in {"up", "topup", "down"} => slots # <<>>
                           /\ Head(s).do = "start" => slots = <<>> \/ supState = "stopped"
<1>1. Plan(r) \in Seq(Step) /\ r.n \in Nat
  BY PlanType
<1>2. /\ \A x : Head(<<x>>) = x /\ <<x>> # <<>>
      /\ \A x, y : Head(<<x, y>>) = x /\ <<x, y>> # <<>>
  OBVIOUS
<1>3. Fits(<<>>) /\ Fits(<<Do("stop", 0)>>)
  BY <1>2 DEF Shape, Do
<1>4. supState = "stopped" \/ slots = <<>> => Fits(<<Do("start", 0)>>)
  BY <1>2 DEF Shape, Do
<1>5. Fits(<<Do("stop", 0), Do("start", 0)>>) /\ Fits(<<Do("stop", 0), Do("cfg", 0)>>)
  BY <1>2 DEF Shape, Do
<1>6. ASSUME NEW n \in Nat
      PROVE  /\ slots = <<>> => Fits(<<Do("start", 0), Do("topup", n)>>)
             /\ slots # <<>> => Fits(<<Do("up", n), Do("cfg", n)>>)
             /\ slots # <<>> => Fits(<<Do("down", n), Do("cfg", n)>>)
  <2>1. /\ Shape(<<Do("start", 0), Do("topup", n)>>) /\ Shape(<<Do("up", n), Do("cfg", n)>>)
        /\ Shape(<<Do("down", n), Do("cfg", n)>>)
    BY DEF Shape
  <2>2. \A d, e, k, l : Head(<<Do(d, k), Do(e, l)>>).do = d
    BY <1>2 DEF Do
  <2>3. QED
    BY <2>1, <2>2
<1>7. slots = <<>> <=> Len(slots) = 0
  BY EmptySeq DEF TypeInv, StateTypeOK, SupTypeOK
<1>8. Len(slots) \in Nat
  BY LenProperties DEF TypeInv, StateTypeOK, SupTypeOK
<1>9. Fits(StartPlan) /\ Fits(StopPlan)
  BY <1>3, <1>4, Zenon DEF StartPlan, StopPlan
<1>10. Fits(RestartPlan)
  <2>1. RestartPlan = IF supState = "stopped" THEN <<Do("start", 0)>>
                      ELSE <<Do("stop", 0), Do("start", 0)>>
    <3>1. Do("start", 0) \in Step /\ Do("stop", 0) \in Step
      BY DEF Do, Step
    <3>2. <<>> \o <<Do("start", 0)>> = <<Do("start", 0)>>
      BY <3>1, ConcatEmptySeq
    <3>3. <<Do("stop", 0)>> \o <<Do("start", 0)>> = <<Do("stop", 0), Do("start", 0)>>
      BY <3>1, TwoSteps
    <3>4. QED
      BY <3>2, <3>3 DEF RestartPlan, StopPlan
  <2>2. QED
    BY <1>4, <1>5, <2>1, Zenon
<1>11. Fits(ScalePlan(r.n))
  <2> HIDE DEF Fits
  <2>1. CASE conf.oneshot \/ r.n = Len(slots)
    BY <1>3, <2>1 DEF ScalePlan
  <2>2. CASE ~(conf.oneshot \/ r.n = Len(slots))
    <3>1. CASE r.n = 0
      BY <1>5, <2>2, <3>1 DEF ScalePlan
    <3>2. CASE r.n # 0 /\ Len(slots) = 0
      BY <1>1, <1>4, <1>6, <1>7, <2>2, <3>2 DEF ScalePlan
    <3>3. CASE r.n # 0 /\ Len(slots) # 0
      BY <1>1, <1>6, <1>7, <1>8, <2>2, <3>3 DEF ScalePlan
    <3>4. QED
      BY <3>1, <3>2, <3>3
  <2>3. QED
    BY <2>1, <2>2
<1>12. r.op \in ApiOps
  BY DEF ConstantsAssumption, TypeInv, StateTypeOK, ConfTypeOK, Config
<1>13. Fits(Plan(r))
  <2> HIDE DEF Fits
  <2>1. QED
    BY <1>9, <1>10, <1>11, <1>12 DEF Plan, ApiOps
<1>14. QED
  BY <1>1, <1>13

\* A step that leaves plans and context alone and stays in the same operation.
LEMMA FlowSame ==
  ASSUME Flow, UNCHANGED <<conf, todo, ctx>>, op'.by = op.by,
         op'.kind = "none" <=> op.kind = "none",
         op.kind # "none" => StepOf[op'.kind] = StepOf[op.kind],
         slots = <<>> /\ (op.kind = "none" \/ ctx = "nil") => slots' = <<>>,
         Counted'
  PROVE  Flow'
<1>1. Planned' /\ Ahead' /\ NilIsEmpty'
  BY DEF Flow, Planned, Ahead, NilIsEmpty
<1>2. Owned'
  BY DEF Flow, Owned
<1>3. QED
  BY <1>1, <1>2 DEF Flow

\* An operation begins.
LEMMA FlowAcquire ==
  ASSUME TypeInv, OneCaller, Flow, NEW c \in Caller, NEW k \in {"start", "up", "down", "cancelled"},
         NEW list, Wants(c, StepOf[k]), Acquire(c, k, list), UNCHANGED <<conf, slots>>,
         ctx' = "nil" => ctx = "nil"
  PROVE  Flow'
<1>1. op'.kind = k /\ op'.by = {c} /\ op'.n = Head(todo[c]).n /\ todo' = todo /\ op.kind = "none"
  BY DEF Acquire
<1>2. Planned' /\ Ahead'
  BY <1>1 DEF Flow, Planned, Ahead
<1>3. Owned'
  BY <1>1 DEF Flow, Owned, Wants
<1>4. Counted'
  <2> SUFFICES ASSUME k = "start" PROVE Len(slots) = op'.n
    BY <1>1 DEF Counted
  <2>1. slots = <<>>
    BY <1>1 DEF Flow, Ahead, Wants, StepOf
  <2>2. op'.n = 0
    BY <1>1, ShapeTail DEF Flow, Planned, Wants, StepOf, TypeInv, StateTypeOK, TodoTypeOK
  <2>3. QED
    BY <2>1, <2>2, EmptySeq
<1>5. NilIsEmpty'
  BY DEF Flow, NilIsEmpty
<1>6. QED
  BY <1>2, <1>3, <1>4, <1>5 DEF Flow

\* An operation returns.
LEMMA FlowReturn ==
  ASSUME TypeInv, OneCaller, Flow, op.kind # "none", NEW ok, Return(ok), UNCHANGED conf,
         ctx' = "nil" => slots' = <<>>,
         StepOf[op.kind] = "start" => ctx' # "nil",
         StepOf[op.kind] = "stop" => slots' = <<>>
  PROVE  Flow'
<1>1. PICK c \in Caller : op.by = {c} /\ todo[c] # <<>> /\ Head(todo[c]).do = StepOf[op.kind]
  BY DEF Flow, Owned
<1>2. op'.kind = "none" /\ todo'[c] \in {Tail(todo[c]), <<>>}
  BY <1>1 DEF Return, NoOp
<1>3. \A d \in Caller : d # c => todo'[d] = <<>>
  BY <1>1, Alone DEF Return, Flow
<1>4. /\ Shape(Tail(todo[c])) /\ Shape(<<>>) /\ c \in conf.callers
      /\ Tail(todo[c]) # <<>> => /\ Head(Tail(todo[c])).do = "topup" => StepOf[op.kind] = "start"
                                 /\ Head(Tail(todo[c])).do = "start" => StepOf[op.kind] = "stop"
                                 /\ Head(Tail(todo[c])).do \notin {"up", "down"}
  <2>1. todo[c] \in Seq(Step) /\ Shape(todo[c]) /\ c \in conf.callers
    BY <1>1 DEF Flow, Planned, TypeInv, StateTypeOK, TodoTypeOK
  <2>2. StepOf[op.kind] \in {"start", "up", "down", "stop"}
    BY DEF StepOf, TypeInv, StateTypeOK, OpTypeOK, OpKinds
  <2>3. Shape(<<>>)
    BY DEF Shape
  <2>4. QED
    BY <1>1, <2>1, <2>2, <2>3, ShapeTail
<1>5. Planned'
  BY <1>2, <1>3, <1>4 DEF Planned
<1>6. Ahead'
  BY <1>2, <1>3, <1>4 DEF Ahead
<1>7. QED
  BY <1>2, <1>5, <1>6 DEF Flow, Owned, Counted, NilIsEmpty

\* A goroutine between operations goes on to another plan.
LEMMA FlowPlan ==
  ASSUME TypeInv, OneCaller, Flow, NEW c \in conf.callers, c \in Caller, op.kind = "none",
         NEW s, Shape(s), todo' = [todo EXCEPT ![c] = s], UNCHANGED <<conf, op, slots, ctx>>,
         s # <<>> => /\ Head(s).do \in {"up", "topup", "down"} => ctx # "nil"
                     /\ Head(s).do = "start" => slots = <<>>
  PROVE  Flow'
<1>1. \A d \in Caller : todo'[d] = IF d = c THEN s ELSE todo[d]
  BY DEF TypeInv, StateTypeOK, TodoTypeOK
<1>2. QED
  BY <1>1 DEF Flow, Planned, Owned, Ahead, Counted, NilIsEmpty

\* A restart replaces in the slots, and changes nothing else of them.
LEMMA ReplaceLen ==
  ASSUME StateTypeOK, StateTypeOK', NEW p \in Inst, Replace(p)
  PROVE  Len(slots') = Len(slots) /\ (slots = <<>> => slots' = <<>>)
<1>1. Len(slots) \in Nat /\ DOMAIN slots = 1..Len(slots) /\ slots' \in Seq(Inst)
  BY LenProperties DEF StateTypeOK, SupTypeOK
<1>2. DOMAIN slots' = DOMAIN slots
  BY DEF Replace
<1>3. Len(slots') = Len(slots)
  BY <1>1, <1>2, LenProperties
<1>4. QED
  BY <1>3, EmptySeq DEF StateTypeOK, SupTypeOK

\* Every step of the code keeps plans and supervisor in tune.
LEMMA FlowStep ==
  ASSUME ConstantsAssumption, TypeInv, StateTypeOK', OpInv, OneCaller, Flow, CodeStep
  PROVE  Flow'
<1> USE DEF TypeInv
<1> op \in [kind : OpKinds, by : SUBSET Caller, n : Nat, list : Seq(Inst)]
  BY DEF StateTypeOK, OpTypeOK
<1>1. ASSUME NEW p \in Inst, Monitor(p) \/ StopInstance(p) \/ ProcExit(p) PROVE Flow'
  <2>1. UNCHANGED <<conf, op, todo, ctx>>
    BY <1>1 DEF Monitor, StopInstance, ProcExit, MonExited, MonOneshot, MonNoRestart, MonDecide,
       BackoffCancelled, BackoffOver, RespawnFails, Respawn, SetCount, Replace, CheckAllDead,
       Notify, StopAsk, StopSignal, StopKill, StopDone, supVars, opVars
  <2>2. UNCHANGED slots \/ Replace(p)
    BY <1>1 DEF Monitor, StopInstance, ProcExit, MonExited, MonOneshot, MonNoRestart, MonDecide,
       BackoffCancelled, BackoffOver, RespawnFails, Respawn, SetCount, CheckAllDead,
       Notify, StopAsk, StopSignal, StopKill, StopDone, supVars
  <2>3. Len(slots') = Len(slots) /\ (slots = <<>> => slots' = <<>>)
    BY <2>2, ReplaceLen
  <2>4. QED
    BY <2>1, <2>3, FlowSame DEF Flow, Counted
<1>2. CASE ManagerCheck \/ HealthPassed \/ HealthFailed
  <2>1. UNCHANGED <<conf, op, todo, ctx, slots>>
    BY <1>2 DEF ManagerCheck, HealthPassed, HealthFailed, supVars, opVars
  <2>2. QED
    BY <2>1, FlowSame DEF Flow, Counted
<1>3. ASSUME NEW c \in Caller, Api(c) PROVE Flow'
  <2>1. \A d \in Caller : todo[d] # <<>> /\ Head(todo[d]).do \notin {"start", "stop", "up", "down"}
                          => op.kind = "none"
    <3>1. \A d \in Caller : op.by = {d} /\ Head(todo[d]).do = StepOf[op.kind] /\ op.kind # "none"
                            => Head(todo[d]).do \in {"start", "stop", "up", "down"}
      BY DEF OpKinds, StepOf
    <3>2. QED
      BY <3>1, Alone DEF Flow, Owned
  <2>2. ASSUME NEW r \in conf.requests, Request(c, r) PROVE Flow'
    <3>1. op.kind = "none"
      BY <2>2 DEF Request, Flow, Planned, Owned, OneCaller
    <3>2. supState = "stopped" => slots = <<>>
      BY DEF OpInv, Flow, NilIsEmpty
    <3>3. /\ todo' = [todo EXCEPT ![c] = Plan(r)] /\ UNCHANGED <<conf, op, slots, ctx>>
          /\ c \in conf.callers /\ Plan(r) # <<>>
      BY <2>2 DEF Request
    <3>4. ctx = "nil" => slots = <<>>
      BY DEF Flow, NilIsEmpty
    <3>5. QED
      BY <3>1, <3>2, <3>3, <3>4, PlanShape, FlowPlan
  <2>3. CASE UpdateScaleConfig(c)
    <3>1. /\ todo[c] # <<>> /\ Head(todo[c]).do = "cfg"
          /\ todo' = [todo EXCEPT ![c] = Tail(todo[c])] /\ UNCHANGED <<conf, op, slots, ctx>>
      BY <2>3 DEF UpdateScaleConfig, Wants
    <3>2. c \in conf.callers /\ Shape(todo[c]) /\ todo[c] \in Seq(Step)
      BY <3>1 DEF Flow, Planned, StateTypeOK, TodoTypeOK
    <3>3. Tail(todo[c]) = <<>> /\ Shape(<<>>)
      BY <3>1, <3>2, ShapeTail DEF Shape
    <3>4. QED
      BY <2>1, <3>1, <3>2, <3>3, FlowPlan
  <2>4. CASE TopUp(c)
    <3>1. /\ todo[c] # <<>> /\ Head(todo[c]).do = "topup" /\ Head(todo[c]) \in Step
          /\ UNCHANGED <<conf, op, slots, ctx>>
      BY <2>4, HeadTailProperties DEF TopUp, Wants, supVars, StateTypeOK, TodoTypeOK
    <3>2. c \in conf.callers /\ ctx # "nil"
      BY <3>1 DEF Flow, Planned, Ahead
    <3>3. PICK s \in {<<>>, <<Do("up", Head(todo[c]).n)>>} : todo' = [todo EXCEPT ![c] = s]
      BY <2>4 DEF TopUp
    <3>4. Head(todo[c]).n \in Nat
      BY <3>1 DEF Step
    <3>5. Shape(s) /\ (s # <<>> => Head(s).do = "up")
      BY <3>3, <3>4 DEF Shape, Do
    <3>6. QED
      BY <2>1, <3>1, <3>2, <3>3, <3>5, FlowPlan
  <2>5. QED
    BY <1>3, <2>2, <2>3, <2>4 DEF Api
<1>4. CASE Operation
  <2>1. ASSUME NEW c \in Caller, StartBegin(c) \/ StopBegin(c) PROVE Flow'
    <3>1. PICK k \in {"start", "cancelled"} : Wants(c, StepOf[k]) /\ Acquire(c, k, <<>>)
      BY <2>1 DEF StartBegin, StopBegin, StepOf
    <3>2. UNCHANGED <<conf, slots>> /\ (ctx' = "nil" => ctx = "nil")
      BY <2>1 DEF StartBegin, StopBegin
    <3>3. QED
      BY <3>1, <3>2, FlowAcquire
  <2>2. ASSUME NEW c \in Caller, ScaleUpBegin(c) \/ ScaleDownBegin(c) PROVE Flow'
    <3>1. UNCHANGED <<conf, slots, ctx>> /\ op.kind = "none" /\ todo[c] # <<>>
      BY <2>2 DEF ScaleUpBegin, ScaleDownBegin, supVars, Wants
    <3>2. CASE todo' = [todo EXCEPT ![c] = <<>>] /\ UNCHANGED op
      BY <3>1, <3>2, FlowPlan DEF Flow, Planned, Shape
    <3>3. ASSUME NEW k \in {"up", "down"}, NEW t, Wants(c, StepOf[k]), Acquire(c, k, t) PROVE Flow'
      BY <3>1, <3>3, FlowAcquire
    <3>4. QED
      BY <2>2, <3>2, <3>3 DEF ScaleUpBegin, ScaleDownBegin, StepOf
  <2>3. ASSUME NEW q \in Inst, StartOne(q) PROVE Flow'
    <3>1. Len(slots') = Len(slots) + 1
      BY <2>3, AppendProperties DEF StartOne, StateTypeOK, SupTypeOK
    <3>2. op' = [op EXCEPT !.n = op.n + 1] /\ op.kind = "start" /\ UNCHANGED <<conf, todo, ctx>>
      BY <2>3 DEF StartOne
    <3>3. ctx # "nil"
      BY <3>2 DEF OpInv
    <3>4. Counted'
      BY <3>1, <3>2 DEF Flow, Counted
    <3>5. QED
      BY <3>2, <3>3, <3>4, FlowSame
  <2>4. CASE \/ ScaleUpFails \/ StopInstances \/ (ScaleUpCleanup /\ op.list # <<>>)
             \/ \E q \in Inst : ScaleUpOne(q)
    <3>1. UNCHANGED <<conf, todo, ctx, slots>> /\ op'.by = op.by /\ op.kind # "none"
      BY <2>4 DEF ScaleUpFails, StopInstances, ScaleUpCleanup, ScaleUpOne, supVars
    <3>2. \/ op.kind \in {"up", "upfail"} /\ op'.kind \in {"up", "upfail"}
          \/ op.kind = "cancelled" /\ op'.kind = "stopping"
      BY <2>4 DEF ScaleUpFails, StopInstances, ScaleUpCleanup, ScaleUpOne
    <3>3. QED
      BY <3>1, <3>2, FlowSame DEF Counted, StepOf
  <2>5. CASE \/ StartFails \/ StartEnd \/ (ScaleUpCleanup /\ op.list = <<>>) \/ ScaleUpEnd
             \/ ScaleDownEnd \/ StopEnd
    <3>1. op.kind # "none" /\ UNCHANGED conf /\ \E ok : Return(ok)
      BY <2>5 DEF StartFails, StartEnd, ScaleUpCleanup, ScaleUpEnd, ScaleDownEnd, StopEnd
    <3>2. /\ StepOf[op.kind] = "start" => ctx' # "nil"
          /\ StepOf[op.kind] = "stop" => slots' = <<>>
      <4>1. CASE StartFails \/ StartEnd
        <5>1. op.kind = "start" /\ ctx' # "nil"
          BY <4>1 DEF StartFails, StartEnd, OpInv
        <5>2. QED
          BY <5>1 DEF StepOf
      <4>2. CASE ScaleUpCleanup \/ ScaleUpEnd \/ ScaleDownEnd
        <5>1. op.kind \in {"up", "upfail", "down"}
          BY <4>2 DEF ScaleUpCleanup, ScaleUpEnd, ScaleDownEnd
        <5>2. QED
          BY <5>1 DEF StepOf
      <4>3. CASE StopEnd
        BY <4>3 DEF StopEnd, StepOf
      <4>4. QED
        BY <2>5, <4>1, <4>2, <4>3
    <3>3. ctx' = "nil" => slots' = <<>>
      <4>1. CASE StopEnd
        BY <4>1 DEF StopEnd
      <4>2. CASE StartFails \/ StartEnd
        BY <4>2 DEF StartFails, StartEnd, OpInv
      <4>3. CASE ~StopEnd /\ ~StartFails /\ ~StartEnd
        <5>1. ctx' = ctx /\ op.kind \in {"up", "upfail", "down"}
          BY <2>5, <4>3 DEF ScaleUpCleanup, ScaleUpEnd, ScaleDownEnd, supVars
        <5>2. ctx # "nil"
          BY <5>1 DEF Flow, Owned, Ahead, StepOf
        <5>3. QED
          BY <5>1, <5>2
      <4>4. QED
        BY <4>1, <4>2, <4>3
    <3>4. QED
      BY <3>1, <3>2, <3>3, FlowReturn
  <2>6. QED
    BY <1>4, <2>1, <2>2, <2>3, <2>4, <2>5 DEF Operation
<1>5. QED
  BY <1>1, <1>2, <1>3, <1>4 DEF CodeStep

-----------------------------------------------------------------------------
(* The slots, the instances in the hands of the operation, and the successors *)
(* that monitors are about to put into a slot.                                *)

\* SlotIds, without its premise.
Numbered == \A i \in DOMAIN slots : idx[slots[i]] = i - 1
\* ScaleUp numbers its instances on from the slots there are, and has them for
\* itself until it stores them.
NewNumbered == op.kind = "up" => \A i \in DOMAIN op.list : idx[op.list[i]] = Len(slots) + i - 1
NewApart == op.kind \in {"up", "upfail"} => InHand \cap Range(slots) = {}
\* A new instance does not get through its backoff while others are forked.
Leaving == {"respawn", "count", "replace"}
NewStay == op.kind = "up" => \A p \in InHand : mon[p] \notin Leaving
\* ScaleDown stops instances above the new number of slots only.
DownAbove == op.kind = "down" => \A p \in InHand : idx[p] >= op.n \/ mon[p] = "none"
\* The successor of an instance has its number, is in no slot yet, is the
\* successor of no other, and is not on its way to a restart itself.
Replacing == {"count", "replace"}
Successors ==
  \A o \in Inst : mon[o] \in Replacing =>
    /\ idx[succ[o]] = idx[o]
    /\ succ[o] \notin Range(slots) \cup InHand
    /\ mon[succ[o]] \notin Leaving
    /\ \A p \in Inst : mon[p] \in Replacing /\ succ[p] = succ[o] => p = o

Slots == Numbered /\ NewNumbered /\ NewApart /\ NewStay /\ DownAbove /\ Successors
SlotInv == Orderly => Slots

\* What is in the slots and in the hands of the operation.
LEMMA SlotFacts ==
  ASSUME StateTypeOK
  PROVE  /\ Len(slots) \in Nat /\ DOMAIN slots = 1..Len(slots)
         /\ \A i \in 1..Len(slots) : slots[i] \in Inst /\ slots[i] \in Range(slots)
         /\ \A p \in Range(slots) : \E i \in 1..Len(slots) : slots[i] = p
         /\ Len(op.list) \in Nat /\ DOMAIN op.list = 1..Len(op.list)
         /\ \A i \in 1..Len(op.list) : op.list[i] \in Inst /\ op.list[i] \in InHand
         /\ \A p \in InHand : \E i \in 1..Len(op.list) : op.list[i] = p
         /\ Range(slots) \subseteq Inst /\ InHand \subseteq Inst
<1>1. slots \in Seq(Inst) /\ op.list \in Seq(Inst)
  BY DEF StateTypeOK, SupTypeOK, OpTypeOK
<1>2. QED
  BY <1>1, RangeSeq DEF InHand

\* A step of a monitor that leaves slots, operation, numbers and successors alone.
LEMMA SlotsSame ==
  ASSUME StateTypeOK, Slots, UNCHANGED <<slots, op, idx, succ>>,
         \A p \in Inst :
           /\ mon[p] = "none" => mon'[p] = "none"
           /\ mon'[p] \in Replacing => mon[p] \in Replacing
           /\ mon'[p] = "respawn" =>
                \/ mon[p] = "respawn"
                \/ op.kind # "up" /\ \A o \in Inst : mon[o] \in Replacing => succ[o] # p
  PROVE  Slots'
<1> USE SlotFacts DEF Slots
<1>1. Numbered' /\ NewNumbered' /\ NewApart'
  BY DEF Numbered, NewNumbered, NewApart, InHand
<1>2. NewStay' /\ DownAbove'
  BY DEF NewStay, DownAbove, Leaving, Replacing, InHand
<1>3. Successors'
  BY DEF Successors, Leaving, Replacing, InHand, StateTypeOK, MonTypeOK
<1>4. QED
  BY <1>1, <1>2, <1>3

\* A step of an operation that only moves instances between its hands and the slots.
LEMMA SlotsMove ==
  ASSUME StateTypeOK, Slots, UNCHANGED <<idx, mon, succ>>,
         Range(slots') \cup InHand' \subseteq Range(slots) \cup InHand
  PROVE  Successors'
BY DEF Slots, Successors, StateTypeOK, MonTypeOK

\* Starting an instance: whatever refers to instances refers to others.
LEMMA StartSlots ==
  ASSUME StateTypeOK, Slots, NEW q \in Inst, NEW i \in Nat, NEW c, NEW m \in [Inst -> MonPcs],
         StartInstance(q, i, c, m)
  PROVE  /\ q \notin Range(slots) \cup InHand
         /\ \A o \in Inst : mon[o] \in Replacing => succ[o] # q /\ o # q
         /\ idx'[q] = i /\ mon'[q] = "wait"
         /\ \A p \in Inst : p # q => idx'[p] = idx[p] /\ mon'[p] = m[p]
BY DEF StartInstance, Fresh, Referenced, Replacing, StateTypeOK, InstTypeOK

\* Starting an instance leaves the successors as they are, and adds it to what
\* is referred to.
LEMMA StartSuccessors ==
  ASSUME StateTypeOK, Slots, NEW q \in Inst, NEW i \in Nat, NEW c,
         StartInstance(q, i, c, mon), UNCHANGED succ,
         Range(slots') \cup InHand' \subseteq Range(slots) \cup InHand \cup {q}
  PROVE  Successors'
<1>1. mon \in [Inst -> MonPcs] /\ succ \in [Inst -> Inst]
  BY DEF StateTypeOK, MonTypeOK
<1>2. QED
  BY <1>1, StartSlots DEF Slots, Successors, Leaving, Replacing

\* Wiping garbage that nothing refers to any more.
LEMMA WipeSlots ==
  ASSUME StateTypeOK, Slots, NEW G, Wipe(G),
         \A p \in G : mon[p] \notin Leaving,
         \A o \in Inst : mon[o] \in Replacing => succ[o] \notin G,
         Range(slots') \cup InHand' \subseteq Range(slots) \cup InHand
  PROVE  /\ Successors'
         /\ \A p \in Inst : p \notin G => idx'[p] = idx[p] /\ mon'[p] = mon[p]
         /\ \A p \in Inst : p \in G => mon'[p] = "none"
<1> USE DEF StateTypeOK, InstTypeOK, MonTypeOK
<1>1. /\ \A p \in Inst : p \notin G => idx'[p] = idx[p] /\ mon'[p] = mon[p] /\ succ'[p] = succ[p]
      /\ \A p \in Inst : p \in G => mon'[p] = "none"
  BY DEF Wipe
<1>2. Successors'
  BY <1>1 DEF Slots, Successors, Leaving, Replacing
<1>3. QED
  BY <1>1, <1>2

\* A restart replaces its own slot, for that is the only one with its number.
LEMMA ReplaceEffect ==
  ASSUME StateTypeOK, StateTypeOK', Numbered, Successors, NEW p \in Inst, Replace(p)
  PROVE  /\ Len(slots') = Len(slots) /\ DOMAIN slots' = 1..Len(slots) /\ p \notin Range(slots')
         /\ Range(slots') \subseteq Range(slots) \cup {succ[p]}
         /\ \A i \in 1..Len(slots) : slots'[i] = IF i = idx[p] + 1 THEN succ[p] ELSE slots[i]
         /\ p \in Range(slots) =>
              succ[p] \in Range(slots') /\ \A x \in Range(slots) : x # p => x \in Range(slots')
         /\ \A o \in Inst : o # p => /\ idx'[o] = idx[o] /\ mon'[o] = mon[o]
                                     /\ succ'[o] = succ[o] /\ pctx'[o] = pctx[o]
                                     /\ allow'[o] = allow[o]
         /\ mon'[p] = "none"
<1> DEFINE same == {i \in DOMAIN slots : idx[slots[i]] = idx[p]}
<1>1. /\ Len(slots') = Len(slots) /\ DOMAIN slots' = 1..Len(slots)
      /\ \A i \in 1..Len(slots) : slots'[i] \in Range(slots')
      /\ \A x \in Range(slots') : \E i \in 1..Len(slots) : slots'[i] = x
  <2>1. Len(slots') = Len(slots) /\ slots' \in Seq(Inst)
    BY ReplaceLen DEF StateTypeOK, SupTypeOK
  <2>2. QED
    BY <2>1, RangeSeq
<1> idx \in [Inst -> Nat] /\ mon \in [Inst -> MonPcs] /\ succ \in [Inst -> Inst]
  BY DEF StateTypeOK, InstTypeOK, MonTypeOK
<1>2. \A i \in 1..Len(slots) : slots'[i] = IF i = idx[p] + 1 THEN succ[p] ELSE slots[i]
  <2>1. \A i \in 1..Len(slots) : i \in same <=> i = idx[p] + 1
    <3>1. /\ \A i \in 1..Len(slots) : idx[slots[i]] = i - 1
          /\ Len(slots) \in Nat /\ DOMAIN slots = 1..Len(slots) /\ idx[p] \in Nat
      BY SlotFacts DEF Numbered
    <3>2. QED
      BY <3>1
  <2>2. \A i \in 1..Len(slots) :
          slots'[i] = IF i \in same /\ \A j \in same : i <= j THEN succ[p] ELSE slots[i]
    BY SlotFacts DEF Replace
  <2>3. same \subseteq 1..Len(slots)
    BY SlotFacts
  <2> HIDE DEF same
  <2>4. QED
    BY <2>1, <2>2, <2>3
<1>3. succ[p] # p
  BY DEF Replace, Successors, Replacing, Leaving
<1>6. p \notin Range(slots')
  <2>1. \A i \in 1..Len(slots) : i # idx[p] + 1 => slots[i] # p
    <3>1. \A i \in 1..Len(slots) : idx[slots[i]] = i - 1
      BY SlotFacts DEF Numbered
    <3>2. Len(slots) \in Nat
      BY SlotFacts
    <3>3. QED
      BY <3>1, <3>2
  <2>2. QED
    BY <1>1, <1>2, <1>3, <2>1
<1>7. Range(slots') \subseteq Range(slots) \cup {succ[p]}
  BY <1>1, <1>2, SlotFacts
<1>8. ASSUME p \in Range(slots)
      PROVE  succ[p] \in Range(slots') /\ \A x \in Range(slots) : x # p => x \in Range(slots')
  <2>1. slots[idx[p] + 1] = p /\ idx[p] + 1 \in 1..Len(slots)
    <3>1. PICK i \in 1..Len(slots) : slots[i] = p
      BY <1>8, SlotFacts
    <3>2. idx[p] = i - 1
      BY <3>1, SlotFacts DEF Numbered
    <3>3. QED
      BY <3>1, <3>2
  <2>2. QED
    <3>1. slots'[idx[p] + 1] = succ[p]
      BY <1>2, <2>1
    <3>2. ASSUME NEW x \in Range(slots), x # p PROVE x \in Range(slots')
      <4>1. PICK i \in 1..Len(slots) : slots[i] = x
        BY SlotFacts
      <4>2. slots'[i] = x
        BY <1>2, <2>1, <3>2, <4>1
      <4>3. QED
        BY <1>1, <4>2
    <3>3. QED
      BY <1>1, <2>1, <3>1, <3>2
<1>9. /\ \A o \in Inst : o # p => /\ idx'[o] = idx[o] /\ mon'[o] = mon[o]
                                  /\ succ'[o] = succ[o] /\ pctx'[o] = pctx[o]
                                  /\ allow'[o] = allow[o]
      /\ mon'[p] = "none"
  BY DEF Replace, Wipe
<1>10. QED
  BY <1>1, <1>2, <1>6, <1>7, <1>8, <1>9

\* The steps of a monitor keep the numbers.
LEMMA MonitorSlots ==
  ASSUME TypeInv, StateTypeOK', Orderly, Slots, NEW p \in Inst, Monitor(p)
  PROVE  Slots'
<1> StateTypeOK
  BY DEF TypeInv
<1>0. idx \in [Inst -> Nat] /\ mon \in [Inst -> MonPcs] /\ succ \in [Inst -> Inst]
  BY DEF StateTypeOK, InstTypeOK, MonTypeOK
<1>1. CASE \/ MonExited(p) \/ MonOneshot(p) \/ MonNoRestart(p) \/ MonDecide(p)
           \/ BackoffCancelled(p) \/ BackoffOver(p) \/ RespawnFails(p)
           \/ SetCount(p) \/ CheckAllDead(p)
           \/ (Notify(p) /\ mon' = [mon EXCEPT ![p] = "done"] /\ UNCHANGED <<instVars, seen, succ>>)
  <2>1. UNCHANGED <<slots, op, idx, succ>>
    BY <1>1 DEF MonExited, MonOneshot, MonNoRestart, MonDecide, BackoffCancelled, BackoffOver,
       RespawnFails, SetCount, CheckAllDead, Notify, supVars, instVars, opVars
  <2>2. \A o \in Inst : mon'[o] = IF o = p THEN mon'[p] ELSE mon[o]
    BY <1>0, <1>1 DEF MonExited, MonOneshot, MonNoRestart, MonDecide, BackoffCancelled,
       BackoffOver, RespawnFails, SetCount, CheckAllDead
  <2>3. /\ mon[p] # "none"
        /\ mon'[p] \in Replacing => mon[p] \in Replacing
        /\ mon'[p] = "respawn" => BackoffOver(p)
    BY <1>0, <1>1 DEF MonExited, MonOneshot, MonNoRestart, MonDecide, BackoffCancelled,
       BackoffOver, RespawnFails, SetCount, CheckAllDead, Notify, Replacing
  <2>4. BackoffOver(p) => op.kind # "up" /\ \A o \in Inst : mon[o] \in Replacing => succ[o] # p
    BY DEF BackoffOver, Orderly, Replacing
  <2>5. QED
    BY <2>1, <2>2, <2>3, <2>4, SlotsSame
<1>2. ASSUME NEW q \in Inst, Respawn(p, q) PROVE Slots'
  <2> DEFINE m == [mon EXCEPT ![p] = "count"]
  <2>1. /\ mon[p] = "respawn" /\ UNCHANGED <<slots, op>> /\ succ' = [succ EXCEPT ![p] = q]
        /\ StartInstance(q, idx[p], "cur", m)
    BY <1>2 DEF Respawn, supVars, opVars
  <2>2. m \in [Inst -> MonPcs] /\ idx[p] \in Nat
    BY <1>0 DEF MonPcs
  <2>3. /\ q \notin Range(slots) \cup InHand
        /\ \A o \in Inst : mon[o] \in Replacing => succ[o] # q /\ o # q
        /\ idx'[q] = idx[p] /\ mon'[q] = "wait"
        /\ \A o \in Inst : o # q => idx'[o] = idx[o] /\ mon'[o] = m[o]
    <3> HIDE DEF m
    <3>1. QED
      BY <2>1, <2>2, StartSlots
  <2>4. q # p /\ \A o \in Inst : mon[o] \in Replacing => succ[o] # p
    BY <2>1 DEF StartInstance, Fresh, Slots, Successors, Leaving
  <2>5. Numbered' /\ NewNumbered' /\ NewApart'
    <3>1. /\ \A i \in DOMAIN slots : slots[i] \in Inst /\ slots[i] # q
          /\ \A i \in DOMAIN op.list : op.list[i] \in Inst /\ op.list[i] # q
      BY <2>3, SlotFacts
    <3>2. QED
      BY <2>1, <2>3, <3>1 DEF Slots, Numbered, NewNumbered, NewApart, InHand
  <2>6. NewStay' /\ DownAbove'
    BY <2>1, <2>3, <2>4, SlotFacts DEF Slots, NewStay, DownAbove, Leaving, InHand
  <2>7. Successors'
    <3>1. /\ \A o \in Inst : mon'[o] \in Replacing <=> o = p \/ mon[o] \in Replacing
          /\ succ'[p] = q /\ \A o \in Inst : o # p => succ'[o] = succ[o]
          /\ mon'[p] = "count"
      BY <1>0, <2>1, <2>3, <2>4 DEF Replacing
    <3>2. \A o \in Inst : mon[o] \in Leaving <=> o = p \/ (mon[o] \in Leaving /\ o # p)
      BY <2>1 DEF Leaving
    <3>3. \A o \in Inst : mon'[o] \in Leaving => mon[o] \in Leaving
      BY <1>0, <2>1, <2>3, <2>4 DEF Leaving
    <3>4. Range(slots') \cup InHand' = Range(slots) \cup InHand
      BY <2>1 DEF InHand
    <3>5. mon[p] \notin Replacing /\ mon'[q] \notin Leaving
      BY <1>0, <2>1, <2>3 DEF Replacing, Leaving
    <3>6. ASSUME NEW o \in Inst, mon'[o] \in Replacing, o # p
          PROVE  /\ idx'[succ'[o]] = idx'[o]
                 /\ succ'[o] \notin Range(slots') \cup InHand'
                 /\ mon'[succ'[o]] \notin Leaving
                 /\ \A x \in Inst : mon'[x] \in Replacing /\ succ'[x] = succ'[o] => x = o
      <4>1. mon[o] \in Replacing /\ succ'[o] = succ[o] /\ succ[o] \in Inst /\ succ[o] # q /\ o # q
        BY <1>0, <2>3, <3>1, <3>6
      <4>2. /\ idx[succ[o]] = idx[o] /\ succ[o] \notin Range(slots) \cup InHand
            /\ mon[succ[o]] \notin Leaving
            /\ \A x \in Inst : mon[x] \in Replacing /\ succ[x] = succ[o] => x = o
        BY <4>1 DEF Slots, Successors
      <4>3. QED
        BY <2>3, <3>1, <3>3, <3>4, <4>1, <4>2
    <3>7. /\ idx'[succ'[p]] = idx'[p]
          /\ succ'[p] \notin Range(slots') \cup InHand'
          /\ mon'[succ'[p]] \notin Leaving
          /\ \A x \in Inst : mon'[x] \in Replacing /\ succ'[x] = succ'[p] => x = p
      BY <2>3, <2>4, <3>1, <3>4, <3>5
    <3>8. QED
      BY <3>6, <3>7 DEF Successors
  <2>8. QED
    BY <2>5, <2>6, <2>7 DEF Slots
<1>3. CASE Notify(p) /\ Wipe({p}) /\ ~Referenced(p)
  <2>1. UNCHANGED <<slots, op>> /\ mon[p] = "notify"
    BY <1>3 DEF Notify, supVars, opVars
  <2>2. p \notin Range(slots) \cup InHand /\ \A o \in Inst : mon[o] \in Replacing => succ[o] # p
    BY <1>3 DEF Referenced, Replacing
  <2>3. /\ Successors'
        /\ \A o \in Inst : o # p => idx'[o] = idx[o] /\ mon'[o] = mon[o]
    BY <1>3, <2>1, <2>2, WipeSlots DEF Leaving, InHand
  <2>4. Numbered' /\ NewNumbered' /\ NewApart' /\ NewStay' /\ DownAbove'
    <3>1. /\ \A i \in DOMAIN slots : slots[i] \in Inst /\ slots[i] # p
          /\ \A i \in DOMAIN op.list : op.list[i] \in Inst /\ op.list[i] # p
          /\ \A o \in InHand : o \in Inst /\ o # p
      BY <2>2, SlotFacts
    <3>2. QED
      BY <2>1, <2>3, <3>1 DEF Slots, Numbered, NewNumbered, NewApart, NewStay, DownAbove, InHand
  <2>5. QED
    BY <2>3, <2>4 DEF Slots
<1>4. CASE Notify(p)
  BY <1>1, <1>3, <1>4 DEF Notify
<1>5. CASE Replace(p)
  <2> DEFINE n == succ[p]
  <2>1. /\ UNCHANGED op /\ mon[p] = "replace"
        /\ n \in Inst /\ n # p /\ idx[n] = idx[p] /\ n \notin Range(slots) \cup InHand
        /\ \A o \in Inst : mon[o] \in Replacing /\ o # p => succ[o] \notin {n, p}
    BY <1>0, <1>5 DEF Replace, opVars, Slots, Successors, Replacing, Leaving
  <2>2. /\ Len(slots') = Len(slots) /\ DOMAIN slots' = 1..Len(slots) /\ p \notin Range(slots')
        /\ Range(slots') \subseteq Range(slots) \cup {n}
        /\ \A i \in 1..Len(slots) : slots'[i] = IF i = idx[p] + 1 THEN n ELSE slots[i]
        /\ \A o \in Inst : o # p => idx'[o] = idx[o] /\ mon'[o] = mon[o] /\ succ'[o] = succ[o]
        /\ mon'[p] = "none"
    BY <1>5, ReplaceEffect DEF Slots
  <2>3. Numbered'
    <3>1. \A i \in 1..Len(slots) : slots'[i] \in Inst /\ slots'[i] # p /\ idx[slots'[i]] = i - 1
      <4>1. ASSUME NEW i \in 1..Len(slots), i = idx[p] + 1
            PROVE  slots'[i] \in Inst /\ slots'[i] # p /\ idx[slots'[i]] = i - 1
        BY <1>0, <2>1, <2>2, <4>1
      <4>2. ASSUME NEW i \in 1..Len(slots), i # idx[p] + 1
            PROVE  slots'[i] \in Inst /\ slots'[i] # p /\ idx[slots'[i]] = i - 1
        <5>1. slots'[i] = slots[i] /\ slots[i] \in Inst /\ idx[slots[i]] = i - 1
          BY <2>2, <4>2, SlotFacts DEF Slots, Numbered
        <5>2. QED
          BY <1>0, <4>2, <5>1
      <4>3. QED
        BY <4>1, <4>2
    <3>2. QED
      BY <2>2, <3>1 DEF Numbered
  <2>4. NewNumbered' /\ NewApart'
    BY <2>1, <2>2, SlotFacts DEF Slots, NewNumbered, NewApart, NewStay, Leaving, InHand
  <2>5. NewStay' /\ DownAbove'
    BY <2>1, <2>2, SlotFacts DEF Slots, NewStay, DownAbove, Leaving, InHand
  <2>6. Successors'
    <3>1. ASSUME NEW o \in Inst, mon'[o] \in Replacing
          PROVE  /\ idx'[succ'[o]] = idx'[o]
                 /\ succ'[o] \notin Range(slots') \cup InHand'
                 /\ mon'[succ'[o]] \notin Leaving
                 /\ \A x \in Inst : mon'[x] \in Replacing /\ succ'[x] = succ'[o] => x = o
      <4>1. o # p /\ mon[o] \in Replacing /\ succ'[o] = succ[o] /\ succ[o] \in Inst
        BY <1>0, <2>2, <3>1 DEF Replacing
      <4>2. /\ idx[succ[o]] = idx[o] /\ succ[o] \notin Range(slots) \cup InHand
            /\ mon[succ[o]] \notin Leaving /\ succ[o] \notin {n, p}
            /\ \A x \in Inst : mon[x] \in Replacing /\ succ[x] = succ[o] => x = o
        BY <2>1, <4>1 DEF Slots, Successors
      <4>3. \A x \in Inst : mon'[x] \in Replacing => x # p /\ mon[x] \in Replacing
        BY <2>2 DEF Replacing
      <4>4. InHand' = InHand
        BY <2>1 DEF InHand
      <4>5. QED
        BY <2>2, <4>1, <4>2, <4>3, <4>4
    <3>2. QED
      BY <3>1 DEF Successors
  <2>7. QED
    BY <2>3, <2>4, <2>5, <2>6 DEF Slots
<1>6. QED
  BY <1>1, <1>2, <1>4, <1>5 DEF Monitor

\* An operation that has nothing in hand and leaves the slots alone.
LEMMA IdleSlots ==
  ASSUME StateTypeOK, Slots, op'.list = <<>>, UNCHANGED <<slots, idx, mon, succ>>
  PROVE  Slots'
<1>1. InHand' = {} /\ DOMAIN op'.list = {}
  BY RangeEmpty, EmptySeq DEF InHand
<1>2. Successors'
  BY <1>1, SlotsMove
<1>3. QED
  BY <1>1, <1>2 DEF Slots, Numbered, NewNumbered, NewApart, NewStay, DownAbove

\* The steps of an operation keep the numbers.
LEMMA OperationSlots ==
  ASSUME TypeInv, DownFits, OpInv, Flow, Slots, Operation
  PROVE  Slots'
<1> StateTypeOK
  BY DEF TypeInv
<1>0. /\ slots \in Seq(Inst) /\ op.list \in Seq(Inst) /\ op.n \in Nat /\ op.kind \in OpKinds
      /\ op \in [kind : OpKinds, by : SUBSET Caller, n : Nat, list : Seq(Inst)]
      /\ mon \in [Inst -> MonPcs]
  BY DEF StateTypeOK, SupTypeOK, OpTypeOK, MonTypeOK
<1>1. ASSUME NEW c \in Caller, StartBegin(c) \/ ScaleUpBegin(c) \/ StopBegin(c) PROVE Slots'
  <2>1. UNCHANGED <<slots, idx, mon, succ>>
    BY <1>1 DEF StartBegin, ScaleUpBegin, StopBegin, supVars, instVars, monVars
  <2>2. op'.list = <<>> \/ op' = op
    BY <1>1 DEF StartBegin, ScaleUpBegin, StopBegin, Acquire
  <2>3. QED
    BY <2>1, <2>2, IdleSlots, SlotsSame
<1>2. ASSUME NEW c \in Caller, ScaleDownBegin(c) PROVE Slots'
  <2> DEFINE n == Head(todo[c]).n
             tail == SubSeq(slots, n + 1, Len(slots))
  <2>1. UNCHANGED <<slots, idx, mon, succ>>
    BY <1>2 DEF ScaleDownBegin, supVars, instVars, monVars
  <2>2. CASE op' = op
    BY <2>1, <2>2, SlotsSame
  <2>3. CASE op' # op
    <3>1. op'.kind = "down" /\ op'.n = n /\ op'.list = tail /\ ~(n >= Len(slots))
      BY <1>2, <2>3 DEF ScaleDownBegin, Acquire
    <3>2. n \in Nat /\ n <= Len(slots)
      <4>1. Head(todo[c]) \in Step
        BY <1>2, HeadTailProperties DEF ScaleDownBegin, Wants, StateTypeOK, TodoTypeOK
      <4>2. QED
        BY <3>1, <4>1, SlotFacts DEF Step
    <3>3. \A p : p \in InHand' <=> \E i \in n + 1 .. Len(slots) : p = slots[i]
      <4> HIDE DEF n
      <4>1. QED
        BY <1>0, <3>1, <3>2, RangeCut DEF InHand
    <3>4. \A p \in InHand' : p \in Range(slots) /\ idx[p] >= n
      <4> HIDE DEF n
      <4>1. \A i \in n + 1 .. Len(slots) : slots[i] \in Range(slots) /\ idx[slots[i]] = i - 1
        BY <3>2, SlotFacts DEF Slots, Numbered
      <4>2. QED
        BY <3>2, <3>3, <4>1
    <3>5. Successors'
      BY <2>1, <3>4, SlotsMove
    <3>6. QED
      BY <2>1, <3>1, <3>4, <3>5 DEF Slots, Numbered, NewNumbered, NewApart, NewStay, DownAbove
  <2>4. QED
    BY <2>2, <2>3
<1>3. ASSUME NEW q \in Inst, StartOne(q) PROVE Slots'
  <2>1. /\ op.kind = "start" /\ op.n = Len(slots) /\ op.list = <<>>
        /\ op'.kind = "start" /\ op'.list = <<>>
        /\ StartInstance(q, op.n, "cur", mon) /\ slots' = Append(slots, q) /\ UNCHANGED succ
    BY <1>0, <1>3 DEF StartOne, Flow, Counted, OpInv
  <2>2. /\ q \notin Range(slots) /\ idx'[q] = Len(slots)
        /\ \A p \in Inst : p # q => idx'[p] = idx[p]
    BY <1>0, <2>1, StartSlots
  <2>3. Numbered'
    <3>1. /\ DOMAIN slots' = 1..Len(slots) + 1 /\ slots'[Len(slots) + 1] = q
          /\ \A i \in 1..Len(slots) : slots'[i] = slots[i]
      <4>1. Append(slots, q) \in Seq(Inst)
        BY <1>0, AppendProperties
      <4>2. QED
        BY <1>0, <2>1, <4>1, AppendProperties, LenProperties
    <3>2. \A i \in 1..Len(slots) : slots[i] \in Inst /\ slots[i] # q /\ idx[slots[i]] = i - 1
      BY <2>2, SlotFacts DEF Slots, Numbered
    <3>3. Len(slots) \in Nat
      BY SlotFacts
    <3>4. QED
      BY <2>2, <3>1, <3>2, <3>3 DEF Numbered
  <2>4. Range(slots') \cup InHand' \subseteq Range(slots) \cup InHand \cup {q}
    BY <1>0, <2>1, RangeAppend, RangeEmpty DEF InHand
  <2>5. Successors'
    BY <1>0, <2>1, <2>4, StartSuccessors
  <2>6. QED
    BY <2>1, <2>3, <2>5 DEF Slots, NewNumbered, NewApart, NewStay, DownAbove
<1>4. ASSUME NEW q \in Inst, ScaleUpOne(q) PROVE Slots'
  <2> DEFINE i == Len(slots) + Len(op.list)
             c == IF ctx = "nil" THEN "old" ELSE "cur"
  <2>1. /\ op.kind = "up" /\ op'.kind = "up" /\ op'.list = Append(op.list, q)
        /\ UNCHANGED <<slots, succ>> /\ i \in Nat
        /\ StartInstance(q, i, c, mon)
    <3>1. /\ op.kind = "up" /\ UNCHANGED <<slots, succ>> /\ StartInstance(q, i, c, mon)
          /\ op' = [op EXCEPT !.list = Append(op.list, q)]
      BY <1>4 DEF ScaleUpOne, supVars
    <3>2. i \in Nat
      BY SlotFacts
    <3>3. QED
      BY <1>0, <3>1, <3>2
  <2>2. /\ q \notin Range(slots) \cup InHand /\ idx'[q] = i /\ mon'[q] = "wait"
        /\ \A p \in Inst : p # q => idx'[p] = idx[p] /\ mon'[p] = mon[p]
    <3> HIDE DEF i, c
    <3>1. QED
      BY <1>0, <2>1, StartSlots
  <2>3. InHand' = InHand \cup {q}
    BY <1>0, <2>1, RangeAppend DEF InHand
  <2>4. Numbered'
    <3>1. \A j \in DOMAIN slots : slots[j] \in Inst /\ slots[j] # q
      BY <2>2, SlotFacts
    <3>2. QED
      BY <2>1, <2>2, <3>1 DEF Slots, Numbered
  <2>5. NewNumbered'
    <3>1. /\ DOMAIN op'.list = 1..Len(op.list) + 1 /\ op'.list[Len(op.list) + 1] = q
          /\ \A j \in 1..Len(op.list) : op'.list[j] = op.list[j]
      <4>1. Append(op.list, q) \in Seq(Inst)
        BY <1>0, AppendProperties
      <4>2. QED
        BY <1>0, <2>1, <4>1, AppendProperties, LenProperties
    <3>2. \A j \in 1..Len(op.list) :
            op.list[j] \in Inst /\ op.list[j] # q /\ idx[op.list[j]] = Len(slots) + j - 1
      BY <2>1, <2>2, SlotFacts DEF Slots, NewNumbered
    <3>3. Len(slots) \in Nat /\ Len(op.list) \in Nat
      BY SlotFacts
    <3>4. \A j \in 1..Len(op.list) + 1 : idx'[op'.list[j]] = Len(slots) + j - 1
      <4>1. ASSUME NEW j \in 1..Len(op.list) PROVE idx'[op'.list[j]] = Len(slots) + j - 1
        BY <2>2, <3>1, <3>2
      <4>2. idx'[op'.list[Len(op.list) + 1]] = Len(slots) + (Len(op.list) + 1) - 1
        BY <2>2, <3>1, <3>3
      <4>3. \A j \in 1..Len(op.list) + 1 : j \in 1..Len(op.list) \/ j = Len(op.list) + 1
        BY <3>3
      <4>4. QED
        BY <4>1, <4>2, <4>3
    <3>5. QED
      BY <2>1, <3>1, <3>4 DEF NewNumbered
  <2>6. NewApart' /\ NewStay' /\ DownAbove'
    BY <2>1, <2>2, <2>3, SlotFacts DEF Slots, NewApart, NewStay, DownAbove, Leaving
  <2>7. Successors'
    <3> HIDE DEF i, c
    <3>1. QED
      BY <2>1, <2>3, StartSuccessors
  <2>8. QED
    BY <2>4, <2>5, <2>6, <2>7 DEF Slots
<1>5. CASE StartFails \/ StartEnd \/ (ScaleUpCleanup /\ op.list = <<>>)
  <2>1. op'.list = <<>> /\ UNCHANGED <<slots, idx, mon, succ>>
    BY <1>5 DEF StartFails, StartEnd, ScaleUpCleanup, Return, NoOp, supVars, instVars, monVars
  <2>2. QED
    BY <2>1, IdleSlots
<1>6. CASE ScaleUpFails \/ StopInstances
  <2>1. UNCHANGED <<slots, idx, mon, succ>>
    BY <1>6 DEF ScaleUpFails, StopInstances, supVars, instVars, monVars
  <2>2. \/ op.kind = "up" /\ op'.kind = "upfail" /\ op'.list = op.list
        \/ op'.kind = "stopping" /\ op'.list = slots
    BY <1>0, <1>6 DEF ScaleUpFails, StopInstances
  <2>3. Range(slots') \cup InHand' \subseteq Range(slots) \cup InHand
    BY <2>1, <2>2 DEF InHand
  <2>4. Successors'
    BY <2>1, <2>3, SlotsMove
  <2>5. QED
    BY <2>1, <2>2, <2>4 DEF Slots, Numbered, NewNumbered, NewApart, NewStay, DownAbove, InHand
<1>7. CASE ScaleUpCleanup /\ op.list # <<>>
  <2> DEFINE h == Head(op.list)
  <2>1. h \in InHand /\ InHand = {h} \cup Range(Tail(op.list)) /\ op.kind = "upfail" /\ UNCHANGED slots
    BY <1>0, <1>7, RangeTail DEF ScaleUpCleanup, InHand, supVars
  <2>2. CASE UNCHANGED <<op, instVars, monVars>>
    BY <2>1, <2>2, SlotsSame DEF instVars, monVars
  <2>3. CASE Wipe(Ended(<<h>>)) /\ op' = [op EXCEPT !.list = Tail(@)]
    <3>1. InHand' = Range(Tail(op.list)) /\ op'.kind = "upfail"
      BY <1>0, <2>1, <2>3 DEF InHand
    <3>2. \A p \in Ended(<<h>>) : p = h /\ mon[p] = "done"
      BY DEF Ended, Range
    <3>3. \A o \in Inst : mon[o] \in Replacing => succ[o] # h
      BY <2>1 DEF Slots, Successors
    <3>4. /\ Successors'
          /\ \A p \in Inst : p \notin Ended(<<h>>) => idx'[p] = idx[p]
      BY <2>1, <2>3, <3>1, <3>2, <3>3, WipeSlots DEF Leaving
    <3>5. Numbered'
      <4>1. \A i \in DOMAIN slots : slots[i] \in Inst /\ slots[i] # h
        BY <2>1, SlotFacts DEF Slots, NewApart
      <4>2. QED
        BY <2>1, <3>2, <3>4, <4>1 DEF Slots, Numbered
    <3>6. QED
      BY <2>1, <3>1, <3>4, <3>5 DEF Slots, NewNumbered, NewApart, NewStay, DownAbove
  <2>4. QED
    BY <1>7, <2>2, <2>3 DEF ScaleUpCleanup
<1>8. CASE ScaleUpEnd
  <2>1. /\ slots' = slots \o op.list /\ op.kind = "up" /\ op'.kind = "none" /\ op'.list = <<>>
        /\ UNCHANGED <<idx, mon, succ>>
    BY <1>8 DEF ScaleUpEnd, Return, NoOp, instVars, monVars
  <2>2. InHand' = {} /\ Range(slots') = Range(slots) \cup InHand
    BY <1>0, <2>1, RangeConcatenation, RangeEmpty DEF InHand
  <2>3. Successors'
    BY <2>1, <2>2, SlotsMove
  <2>4. Numbered'
    <3>1. /\ DOMAIN slots' = 1..Len(slots) + Len(op.list)
          /\ \A i \in 1..Len(slots) + Len(op.list) :
               slots'[i] = IF i <= Len(slots) THEN slots[i] ELSE op.list[i - Len(slots)]
      <4>1. slots \o op.list \in Seq(Inst)
        BY <1>0, ConcatProperties
      <4>2. QED
        BY <1>0, <2>1, <4>1, ConcatProperties, LenProperties
    <3>2. /\ \A i \in 1..Len(slots) : idx[slots[i]] = i - 1
          /\ \A i \in 1..Len(op.list) : idx[op.list[i]] = Len(slots) + i - 1
          /\ Len(slots) \in Nat /\ Len(op.list) \in Nat
      BY <2>1, SlotFacts DEF Slots, Numbered, NewNumbered
    <3>3. ASSUME NEW i \in 1..Len(slots) + Len(op.list) PROVE idx[slots'[i]] = i - 1
      <4>1. CASE i <= Len(slots)
        BY <3>1, <3>2, <4>1
      <4>2. CASE ~(i <= Len(slots))
        <5>1. i - Len(slots) \in 1..Len(op.list) /\ slots'[i] = op.list[i - Len(slots)]
          BY <3>1, <3>2, <4>2
        <5>2. QED
          BY <3>2, <5>1
      <4>3. QED
        BY <4>1, <4>2
    <3>4. QED
      BY <2>1, <3>1, <3>3 DEF Numbered
  <2>5. QED
    BY <2>1, <2>2, <2>3, <2>4 DEF Slots, NewNumbered, NewApart, NewStay, DownAbove
<1>9. CASE ScaleDownEnd
  <2> DEFINE G == Ended(SubSeq(slots, op.n + 1, Len(slots)) \o op.list)
  <2>1. /\ op.kind = "down" /\ slots' = SubSeq(slots, 1, op.n) /\ Wipe(G)
        /\ op'.kind = "none" /\ op'.list = <<>> /\ op.n <= Len(slots)
    BY <1>9 DEF ScaleDownEnd, Return, NoOp, DownFits
  <2>2. /\ slots' \in Seq(Inst) /\ Len(slots') = op.n /\ \A i \in 1..op.n : slots'[i] = slots[i]
        /\ SubSeq(slots, op.n + 1, Len(slots)) \in Seq(Inst)
        /\ \A x : x \in Range(slots') <=> \E i \in 1..op.n : x = slots[i]
        /\ \A x : x \in Range(SubSeq(slots, op.n + 1, Len(slots))) <=>
                  \E i \in op.n + 1 .. Len(slots) : x = slots[i]
    BY <1>0, <2>1, RangeCut
  <2>3. /\ Len(slots) \in Nat
        /\ \A i \in 1..Len(slots) : slots[i] \in Inst /\ slots[i] \in Range(slots) /\ idx[slots[i]] = i - 1
    BY SlotFacts DEF Slots, Numbered
  <2>4. \A p \in G : mon[p] = "done" /\ idx[p] >= op.n /\ p \in Range(slots) \cup InHand
    <3>1. \A p \in G : /\ mon[p] = "done"
                       /\ p \in Range(SubSeq(slots, op.n + 1, Len(slots))) \cup InHand
      <4>1. Range(SubSeq(slots, op.n + 1, Len(slots)) \o op.list)
              = Range(SubSeq(slots, op.n + 1, Len(slots))) \cup Range(op.list)
        <5>1. SubSeq(slots, op.n + 1, Len(slots)) \in Seq(Inst) /\ op.list \in Seq(Inst)
          BY <1>0, <2>2
        <5>2. QED
          BY <5>1, RangeConcatenation
      <4>2. QED
        BY <4>1 DEF Ended, InHand
    <3>2. \A i \in op.n + 1 .. Len(slots) : idx[slots[i]] >= op.n /\ slots[i] \in Range(slots)
      BY <1>0, <2>1, <2>3
    <3>3. \A p \in InHand : mon[p] = "done" => idx[p] >= op.n
      BY <2>1 DEF Slots, DownAbove
    <3>4. QED
      BY <2>2, <3>1, <3>2, <3>3
  <2>5. InHand' = {} /\ Range(slots') \subseteq Range(slots)
    BY <1>0, <2>1, <2>2, <2>3, RangeEmpty DEF InHand
  <2> HIDE DEF G
  <2>6. \A o \in Inst : mon[o] \in Replacing => succ[o] \notin G
    BY <2>4 DEF Slots, Successors
  <2>7. /\ Successors'
        /\ \A p \in Inst : p \notin G => idx'[p] = idx[p]
    BY <2>1, <2>4, <2>5, <2>6, WipeSlots DEF Leaving
  <2>8. Numbered'
    <3>1. \A i \in 1..op.n : slots[i] \in Inst /\ slots[i] \notin G /\ idx[slots[i]] = i - 1
      BY <1>0, <2>1, <2>3, <2>4
    <3>2. DOMAIN slots' = 1..op.n
      BY <2>2, LenProperties
    <3>3. QED
      BY <2>2, <2>7, <3>1, <3>2 DEF Numbered
  <2>9. QED
    BY <2>1, <2>5, <2>7, <2>8 DEF Slots, NewNumbered, NewApart, NewStay, DownAbove
<1>10. CASE StopEnd
  <2> DEFINE G == Ended(slots \o op.list)
  <2>1. slots' = <<>> /\ Wipe(G) /\ op'.kind = "none" /\ op'.list = <<>>
    BY <1>10 DEF StopEnd, Return, NoOp
  <2>2. \A p \in G : mon[p] = "done" /\ p \in Range(slots) \cup InHand
    BY <1>0, RangeConcatenation DEF Ended, InHand
  <2> HIDE DEF G
  <2>3. \A o \in Inst : mon[o] \in Replacing => succ[o] \notin G
    BY <2>2 DEF Slots, Successors
  <2>4. InHand' = {} /\ Range(slots') = {}
    BY <2>1, RangeEmpty DEF InHand
  <2>5. Successors'
    BY <2>1, <2>2, <2>3, <2>4, WipeSlots DEF Leaving
  <2>6. DOMAIN slots' = {}
    BY <2>1, EmptySeq
  <2>7. QED
    BY <2>1, <2>5, <2>6 DEF Slots, Numbered, NewNumbered, NewApart, NewStay, DownAbove
<1>11. QED
  BY <1>1, <1>2, <1>3, <1>4, <1>5, <1>6, <1>7, <1>8, <1>9, <1>10 DEF Operation

\* Every step of the code keeps the numbers.
LEMMA SlotStep ==
  ASSUME TypeInv, StateTypeOK', DownFits, OpInv, Orderly, Flow, Slots, CodeStep
  PROVE  Slots'
<1> StateTypeOK
  BY DEF TypeInv
<1>1. CASE \/ \E p \in Inst : StopInstance(p) \/ ProcExit(p)
           \/ \E c \in Caller : Api(c)
           \/ ManagerCheck \/ HealthPassed \/ HealthFailed
  <2>1. UNCHANGED <<slots, idx, mon, succ>> /\ op' = op
    BY <1>1 DEF StopInstance, StopAsk, StopSignal, StopKill, StopDone, ProcExit, Api, Request,
       UpdateScaleConfig, TopUp, ManagerCheck, HealthPassed, HealthFailed, supVars, instVars,
       monVars, opVars
  <2>2. QED
    BY <2>1, SlotsSame
<1>2. QED
  BY <1>1, MonitorSlots, OperationSlots DEF CodeStep

-----------------------------------------------------------------------------
(* Nothing gets lost. *)

\* ScaleDown has in hand all the instances above the new number of slots.
DownAll == op.kind = "down" => \A i \in DOMAIN slots : i > op.n => slots[i] \in InHand
\* What an operation stops is in a slot, or has been replaced in it.
HandHeld == op.kind \in {"down", "stopping"} => \A p \in InHand : p \in Range(slots) \/ mon[p] = "none"
\* Processes and backoffs are bound to the context the supervisor has now.
Bound == \A p \in Inst : p \in alive \/ mon[p] = "backoff" =>
           pctx[p] # "old" /\ (ctx # "live" => pctx[p] = "cancelled")
\* What runs, or may run again, is reachable.
Active(p) == \/ p \in alive
             \/ mon[p] \in {"wait", "exited"} /\ MayRestart(p)
             \/ mon[p] \in Restarting
Tracked == \A p \in Inst : Active(p) => Reachable(p)

Track == DownAll /\ HandHeld /\ Bound /\ Tracked
TrackInv == Careful => Track

\* A step that only loses what neither runs nor may run again.
LEMMA TrackedStep ==
  ASSUME Tracked, succ \in [Inst -> Inst], Range(slots) \cup InHand \subseteq Inst,
         \A p \in Inst : Active(p)' => Active(p) \/ Reachable(p)',
         \A p \in Inst : Active(p) /\ p \in Range(slots) \cup InHand
                           => p \in Range(slots') \cup InHand',
         \A p \in Inst : mon[p] \in Replacing => mon'[p] \in Replacing /\ succ'[p] = succ[p]
  PROVE  Tracked'
<1> SUFFICES ASSUME NEW p \in Inst, Active(p)', Active(p) PROVE Reachable(p)'
  BY DEF Tracked
<1>1. CASE p \in Range(slots) \cup InHand
  BY <1>1 DEF Reachable
<1>2. ASSUME NEW o \in Range(slots) \cup InHand, mon[o] \in {"count", "replace"}, succ[o] = p
      PROVE  Reachable(p)'
  <2>1. o \in Inst /\ Active(o)
    BY <1>2 DEF Active, Restarting
  <2>2. o \in Range(slots') \cup InHand' /\ mon'[o] \in {"count", "replace"} /\ succ'[o] = p
    BY <1>2, <2>1 DEF Replacing
  <2>3. QED
    BY <2>2 DEF Reachable
<1>3. QED
  BY <1>1, <1>2 DEF Tracked, Reachable

\* A step that leaves slots and operation alone.
LEMMA TrackSame ==
  ASSUME StateTypeOK, Track, UNCHANGED <<slots, op, ctx>>,
         \A p \in Inst :
           /\ Active(p)' => Active(p)
           /\ mon[p] \in Replacing => mon'[p] \in Replacing /\ succ'[p] = succ[p]
           /\ mon[p] = "none" => mon'[p] = "none"
           /\ p \in alive' \/ mon'[p] = "backoff" =>
                \/ (p \in alive \/ mon[p] = "backoff") /\ pctx'[p] = pctx[p]
                \/ pctx'[p] # "old" /\ (ctx # "live" => pctx'[p] = "cancelled")
  PROVE  Track'
<1>1. succ \in [Inst -> Inst] /\ Range(slots) \cup InHand \subseteq Inst
  BY SlotFacts DEF StateTypeOK, MonTypeOK
<1>2. Range(slots') \cup InHand' = Range(slots) \cup InHand
  BY DEF InHand
<1>3. Tracked'
  BY <1>1, <1>2, TrackedStep DEF Track
<1>4. DownAll' /\ HandHeld'
  BY <1>1 DEF Track, DownAll, HandHeld, InHand
<1>5. Bound'
  BY DEF Track, Bound
<1>6. QED
  BY <1>3, <1>4, <1>5 DEF Track

\* An instance on its way to a restart is in a slot or in the hands of the
\* operation: it is no successor.
LEMMA LeavingHeld ==
  ASSUME Track, Slots, NEW p \in Inst, mon[p] \in Leaving, Range(slots) \cup InHand \subseteq Inst
  PROVE  p \in Range(slots) \cup InHand
<1>1. Reachable(p)
  BY DEF Track, Tracked, Active, Restarting, Leaving
<1>2. \A o \in Inst : mon[o] \in {"count", "replace"} => succ[o] # p
  BY DEF Slots, Successors, Replacing
<1>3. QED
  BY <1>1, <1>2 DEF Reachable

\* A monitor about to replace its instance finds it in its slot.
LEMMA ReplaceHeld ==
  ASSUME StateTypeOK, OpInv, Track, Slots, ~Caught, NEW p \in Inst, mon[p] = "replace"
  PROVE  /\ p \in Range(slots)
         /\ op.kind = "down" => p \notin InHand
<1>1. p \in Range(slots) \cup InHand
  BY LeavingHeld, SlotFacts DEF Leaving
<1>2. p \in InHand => op.kind \notin {"none", "start", "cancelled"}
  BY RangeEmpty DEF OpInv, InHand
<1>3. p \in InHand => op.kind # "up"
  BY DEF Slots, NewStay, Leaving
<1>4. p \in InHand => op.kind \notin {"down", "upfail"}
  BY DEF Caught, Restartable, Restarting
<1>5. p \in InHand /\ op.kind = "stopping" => p \in Range(slots)
  BY DEF Track, HandHeld
<1>6. op.kind \in OpKinds
  BY DEF StateTypeOK, OpTypeOK
<1>7. QED
  BY <1>1, <1>2, <1>3, <1>4, <1>5, <1>6 DEF OpKinds

\* The steps of a monitor lose nothing.
LEMMA MonitorTrack ==
  ASSUME TypeInv, StateTypeOK', ProcInv, OpInv, Orderly, Slots, Track, ~Caught,
         NEW p \in Inst, Monitor(p)
  PROVE  Track'
<1> StateTypeOK
  BY DEF TypeInv
<1>0. /\ mon \in [Inst -> MonPcs] /\ succ \in [Inst -> Inst] /\ pctx \in [Inst -> Contexts]
      /\ allow \in [Inst -> BOOLEAN] /\ Range(slots) \cup InHand \subseteq Inst
  BY SlotFacts DEF StateTypeOK, MonTypeOK, OsTypeOK, InstTypeOK
<1>1. CASE \/ MonExited(p) \/ MonOneshot(p) \/ MonNoRestart(p) \/ MonDecide(p)
           \/ BackoffCancelled(p) \/ BackoffOver(p) \/ RespawnFails(p)
           \/ SetCount(p) \/ CheckAllDead(p)
           \/ (Notify(p) /\ mon' = [mon EXCEPT ![p] = "done"] /\ UNCHANGED <<instVars, seen, succ, pctx>>)
  <2>1. UNCHANGED <<slots, op, ctx, succ, alive, allow, conf>>
    BY <1>1 DEF MonExited, MonOneshot, MonNoRestart, MonDecide, BackoffCancelled, BackoffOver,
       RespawnFails, SetCount, CheckAllDead, Notify, supVars, instVars, opVars, osVars
  <2>2. \A o \in Inst : o # p => mon'[o] = mon[o] /\ pctx'[o] = pctx[o]
    BY <1>0, <1>1 DEF MonExited, MonOneshot, MonNoRestart, MonDecide, BackoffCancelled, BackoffOver,
       RespawnFails, SetCount, CheckAllDead, osVars
  <2>3. /\ mon[p] # "none" /\ p \notin alive
        /\ mon[p] \in Replacing => mon'[p] \in Replacing
        /\ mon'[p] \in Replacing => mon[p] \in Replacing
        /\ mon'[p] = "exited" => mon[p] = "wait"
        /\ mon'[p] # "wait"
        /\ mon'[p] = "respawn" => mon[p] = "backoff"
        /\ mon'[p] = "backoff" => MonDecide(p) /\ mon[p] = "exited" /\ MayRestart(p)
                                  /\ pctx'[p] # "old" /\ (ctx # "live" => pctx'[p] = "cancelled")
    <3>1. CASE MonDecide(p)
      BY <1>0, <3>1 DEF MonDecide, ShouldRestart, MayRestart, Replacing, ProcInv, AliveWaits
    <3>2. CASE ~MonDecide(p)
      BY <1>0, <1>1, <3>2 DEF MonExited, MonOneshot, MonNoRestart, BackoffCancelled, BackoffOver,
         RespawnFails, SetCount, CheckAllDead, Notify, Replacing, ProcInv, AliveWaits
    <3>3. QED
      BY <3>1, <3>2
  <2>4. MayRestart(p)' <=> MayRestart(p)
    BY <2>1 DEF MayRestart
  <2>5. Active(p)' => Active(p)
    BY <2>1, <2>3, <2>4 DEF Active, Restarting, Replacing
  <2>6. \A o \in Inst : o # p => (Active(o)' => Active(o))
    BY <2>1, <2>2 DEF Active, MayRestart
  <2>7. QED
    BY <2>1, <2>2, <2>3, <2>5, <2>6, TrackSame
<1>2. ASSUME NEW q \in Inst, Respawn(p, q) PROVE Track'
  <2> DEFINE m == [mon EXCEPT ![p] = "count"]
  <2>1. /\ mon[p] = "respawn" /\ ctx = "live" /\ UNCHANGED <<slots, op, ctx, conf>>
        /\ succ' = [succ EXCEPT ![p] = q]
        /\ StartInstance(q, idx[p], "cur", m)
    BY <1>2 DEF Respawn, supVars, opVars
  <2>2. m \in [Inst -> MonPcs] /\ idx[p] \in Nat
    BY <1>0 DEF MonPcs, StateTypeOK, InstTypeOK
  <2>3. q \notin Range(slots) \cup InHand /\ \A o \in Inst : mon[o] \in Replacing => o # q
    <3> HIDE DEF m
    <3>1. QED
      BY <2>1, <2>2, StartSlots
  <2>4. q # p
    BY <2>1 DEF StartInstance, Fresh
  <2>5. /\ \A o \in Inst : o \notin {p, q} => mon'[o] = mon[o]
        /\ mon'[p] = "count" /\ mon'[q] = "wait"
        /\ \A o \in Inst : o # q => (o \in alive' <=> o \in alive) /\ pctx'[o] = pctx[o] /\ allow'[o] = allow[o]
        /\ pctx'[q] = "cur"
    BY <1>0, <2>1, <2>4 DEF StartInstance
  <2>6. InHand' = InHand
    BY <2>1 DEF InHand
  <2>7. Reachable(q)'
    <3>1. p \in Range(slots) \cup InHand
      BY <1>0, <2>1, LeavingHeld DEF Leaving
    <3>2. QED
      BY <1>0, <2>1, <2>5, <2>6, <3>1 DEF Reachable
  <2>8. \A o \in Inst : Active(o)' => Active(o) \/ Reachable(o)'
    BY <2>1, <2>5, <2>7 DEF Active, Restarting, MayRestart
  <2>9. \A o \in Inst : mon[o] \in Replacing => mon'[o] \in Replacing /\ succ'[o] = succ[o]
    BY <1>0, <2>1, <2>3, <2>5 DEF Replacing
  <2>10. Tracked'
    BY <1>0, <2>1, <2>6, <2>8, <2>9, TrackedStep DEF Track
  <2>11. DownAll' /\ HandHeld'
    BY <1>0, <2>1, <2>3, <2>5, <2>6, LeavingHeld DEF Track, DownAll, HandHeld
  <2>12. Bound'
    BY <2>1, <2>5 DEF Track, Bound
  <2>13. QED
    BY <2>10, <2>11, <2>12 DEF Track
<1>3. CASE Notify(p) /\ Wipe({p})
  <2>1. /\ UNCHANGED <<slots, op, ctx, alive, conf>> /\ mon[p] = "notify"
        /\ \A o \in Inst : o # p => mon'[o] = mon[o] /\ succ'[o] = succ[o] /\ pctx'[o] = pctx[o]
                                    /\ allow'[o] = allow[o]
        /\ mon'[p] = "none"
    BY <1>0, <1>3 DEF Notify, Wipe, supVars, opVars
  <2>2. p \notin alive
    BY <2>1 DEF ProcInv, AliveWaits
  <2>3. \A o \in Inst : Active(o)' => Active(o)
    BY <2>1, <2>2 DEF Active, MayRestart, Restarting
  <2>4. QED
    BY <2>1, <2>2, <2>3, TrackSame DEF Replacing
<1>4. CASE Replace(p)
  <2>1. /\ UNCHANGED <<op, ctx, alive, conf>> /\ mon[p] = "replace" /\ p \notin alive
        /\ p \in Range(slots) /\ (op.kind = "down" => p \notin InHand)
    BY <1>4, ReplaceHeld DEF Replace, opVars, ProcInv, AliveWaits
  <2>2. /\ DOMAIN slots' = 1..Len(slots)
        /\ \A i \in 1..Len(slots) : slots'[i] = IF i = idx[p] + 1 THEN succ[p] ELSE slots[i]
        /\ succ[p] \in Range(slots') /\ \A x \in Range(slots) : x # p => x \in Range(slots')
        /\ \A o \in Inst : o # p => /\ mon'[o] = mon[o] /\ succ'[o] = succ[o]
                                    /\ pctx'[o] = pctx[o] /\ allow'[o] = allow[o]
        /\ mon'[p] = "none"
    BY <1>4, <2>1, ReplaceEffect DEF Slots
  <2>3. InHand' = InHand
    BY <2>1 DEF InHand
  <2>4. DownAll'
    <3> SUFFICES ASSUME op.kind = "down", NEW i \in 1..Len(slots), i > op.n
                 PROVE  slots'[i] \in InHand
      BY <2>1, <2>2, <2>3 DEF DownAll
    <3>1. slots[i] \in InHand
      BY SlotFacts DEF Track, DownAll
    <3>2. slots[idx[p] + 1] = p
      <4>1. PICK j \in 1..Len(slots) : slots[j] = p
        BY <2>1, SlotFacts
      <4>2. idx[p] = j - 1
        BY <4>1, SlotFacts DEF Slots, Numbered
      <4>3. QED
        BY <4>1, <4>2
    <3>3. i # idx[p] + 1
      BY <2>1, <3>1, <3>2
    <3>4. QED
      BY <2>2, <3>1, <3>3
  <2>5. HandHeld'
    BY <1>0, <2>1, <2>2, <2>3 DEF Track, HandHeld
  <2>6. Bound'
    BY <2>1, <2>2 DEF Track, Bound
  <2>7. Tracked'
    <3> SUFFICES ASSUME NEW o \in Inst, Active(o)' PROVE Reachable(o)'
      BY DEF Tracked
    <3>1. o # p /\ Active(o)
      BY <2>1, <2>2 DEF Active, MayRestart, Restarting
    <3>2. Reachable(o)
      BY <3>1 DEF Track, Tracked
    <3>3. CASE o \in Range(slots) \cup InHand
      BY <2>2, <2>3, <3>1, <3>3 DEF Reachable
    <3>4. ASSUME NEW h \in Range(slots) \cup InHand, mon[h] \in {"count", "replace"}, succ[h] = o
          PROVE  Reachable(o)'
      <4>1. CASE h = p
        BY <2>2, <3>4, <4>1 DEF Reachable
      <4>2. CASE h # p
        <5>1. h \in Inst /\ h \in Range(slots') \cup InHand'
          BY <1>0, <2>2, <2>3, <3>4, <4>2
        <5>2. mon'[h] \in {"count", "replace"} /\ succ'[h] = o
          BY <2>2, <3>4, <4>2, <5>1
        <5>3. QED
          BY <5>1, <5>2 DEF Reachable
      <4>3. QED
        BY <4>1, <4>2
    <3>5. QED
      BY <3>2, <3>3, <3>4 DEF Reachable
  <2>8. QED
    BY <2>4, <2>5, <2>6, <2>7 DEF Track
<1>5. QED
  BY <1>1, <1>2, <1>3, <1>4 DEF Monitor, Notify

\* A process whose stopInstance call has returned is dead, and unless it was
\* caught on its way to a restart it stays dead.
LEMMA StoppedDead ==
  ASSUME StateTypeOK, ProcInv, NEW p \in Inst, stopper[p] \in {"ok", "err"}, ~Restartable(p)
  PROVE  ~Active(p)
<1>1. p \notin alive /\ istate[p] # "running"
  BY DEF ProcInv, StopState
<1>2. mon[p] = "wait" => ~allow[p]
  BY <1>1 DEF ProcInv, WaitState
<1>3. QED
  BY <1>1, <1>2 DEF Active, Restartable, MayRestart

\* When Stop has waited for the monitors, nothing runs and nothing will.
LEMMA StopQuiet ==
  ASSUME StateTypeOK, ProcInv, OpInv, Bound, StopEnd, NEW p \in Inst
  PROVE  ~Active(p)
<1>1. ctx # "live" /\ (mon[p] \in {"none", "done"} \/ Lingers(p))
  BY DEF StopEnd, OpInv
<1>2. p \in alive => mon[p] = "wait" /\ p \in killed
  BY <1>1 DEF Bound, ProcInv, AliveWaits, CancelledDie
<1>3. mon[p] = "backoff" => pctx[p] = "cancelled"
  BY <1>1 DEF Bound
<1>4. QED
  BY <1>1, <1>2, <1>3 DEF Lingers, Active, Restarting

\* An operation that moves instances about and loses none.
LEMMA MoveTrack ==
  ASSUME StateTypeOK, Track, UNCHANGED <<mon, succ, alive, allow, conf>>,
         Range(slots) \cup InHand \subseteq Range(slots') \cup InHand',
         DownAll', HandHeld', Bound'
  PROVE  Track'
<1>1. succ \in [Inst -> Inst] /\ Range(slots) \cup InHand \subseteq Inst
  BY SlotFacts DEF StateTypeOK, MonTypeOK
<1>2. \A p \in Inst : Active(p)' => Active(p)
  BY DEF Active, MayRestart
<1>3. Tracked'
  BY <1>1, <1>2, TrackedStep DEF Track
<1>4. QED
  BY <1>3 DEF Track

\* An operation that starts an instance and has it in hand, or in a slot.
LEMMA StartTrack ==
  ASSUME StateTypeOK, Slots, Track, NEW q \in Inst, NEW i \in Nat,
         StartInstance(q, i, "cur", mon), UNCHANGED <<succ, conf, ctx>>, ctx = "live",
         q \in Range(slots') \cup InHand',
         Range(slots) \cup InHand \subseteq Range(slots') \cup InHand',
         op'.kind \notin {"down", "stopping"}
  PROVE  Track'
<1>1. /\ mon \in [Inst -> MonPcs] /\ succ \in [Inst -> Inst] /\ pctx \in [Inst -> Contexts]
      /\ allow \in [Inst -> BOOLEAN] /\ Range(slots) \cup InHand \subseteq Inst
  BY SlotFacts DEF StateTypeOK, MonTypeOK, OsTypeOK, InstTypeOK
<1>2. \A o \in Inst : mon[o] \in Replacing => o # q
  BY <1>1, StartSlots
<1>3. /\ \A o \in Inst : o # q => /\ mon'[o] = mon[o] /\ (o \in alive' <=> o \in alive)
                                  /\ pctx'[o] = pctx[o] /\ allow'[o] = allow[o]
      /\ mon'[q] = "wait" /\ pctx'[q] = "cur"
  BY <1>1 DEF StartInstance
<1>4. \A o \in Inst : Active(o)' => Active(o) \/ Reachable(o)'
  BY <1>3 DEF Active, MayRestart, Reachable
<1>5. Tracked'
  BY <1>1, <1>2, <1>3, <1>4, TrackedStep DEF Track
<1>6. Bound'
  BY <1>3 DEF Track, Bound
<1>7. QED
  BY <1>5, <1>6 DEF Track, DownAll, HandHeld

\* An operation that lets go of instances, and wipes what nothing refers to.
LEMMA DropTrack ==
  ASSUME StateTypeOK, ProcInv, Track, NEW G, Wipe(G), \A p \in G : mon[p] = "done",
         UNCHANGED <<alive, conf>>, op'.kind \notin {"down", "stopping"},
         \A p \in Range(slots) \cup InHand : Active(p) => p \in Range(slots') \cup InHand',
         ctx' = ctx \/ \A p \in Inst : ~Active(p)
  PROVE  Track'
<1>1. /\ mon \in [Inst -> MonPcs] /\ succ \in [Inst -> Inst] /\ pctx \in [Inst -> Contexts]
      /\ allow \in [Inst -> BOOLEAN] /\ Range(slots) \cup InHand \subseteq Inst
  BY SlotFacts DEF StateTypeOK, MonTypeOK, OsTypeOK, InstTypeOK
<1>2. /\ \A p \in Inst : p \notin G => /\ mon'[p] = mon[p] /\ succ'[p] = succ[p]
                                       /\ pctx'[p] = pctx[p] /\ allow'[p] = allow[p]
      /\ \A p \in Inst : p \in G => mon'[p] = "none" /\ p \notin alive
  BY <1>1 DEF Wipe, ProcInv, AliveWaits
<1>3. \A p \in Inst : Active(p)' => Active(p)
  BY <1>2 DEF Active, MayRestart, Restarting
<1>4. \A p \in Inst : mon[p] \in Replacing => mon'[p] \in Replacing /\ succ'[p] = succ[p]
  BY <1>2 DEF Replacing
<1>5. Tracked'
  BY <1>1, <1>3, <1>4, TrackedStep DEF Track
<1>6. Bound'
  BY <1>2 DEF Track, Bound, Active, Restarting
<1>7. QED
  BY <1>5, <1>6 DEF Track, DownAll, HandHeld

\* The steps of an operation lose nothing.
LEMMA OperationTrack ==
  ASSUME TypeInv, DownFits, ProcInv, OpInv, Flow, Slots, Track, ~Caught, Operation
  PROVE  Track'
<1> StateTypeOK
  BY DEF TypeInv
<1>0. /\ slots \in Seq(Inst) /\ op.list \in Seq(Inst) /\ op.n \in Nat /\ op.kind \in OpKinds
      /\ op \in [kind : OpKinds, by : SUBSET Caller, n : Nat, list : Seq(Inst)]
      /\ ctx \in {"nil", "live", "cancelled"} /\ pctx \in [Inst -> Contexts]
  BY DEF StateTypeOK, SupTypeOK, OpTypeOK, OsTypeOK
<1>1. op.kind \in {"none", "start", "cancelled"} => InHand = {}
  BY RangeEmpty DEF OpInv, InHand
<1>2. ASSUME NEW c \in Caller, StartBegin(c) PROVE Track'
  <2>1. /\ op.kind = "none" /\ op'.kind = "start" /\ UNCHANGED <<slots, mon, succ, alive, allow, conf>>
        /\ todo[c] # <<>> /\ Head(todo[c]).do = "start"
    BY <1>2 DEF StartBegin, Acquire, Wants, instVars, monVars
  <2>2. Range(slots) \cup InHand = {}
    BY <1>1, <2>1, RangeEmpty DEF Flow, Ahead
  <2>3. \A p \in Inst : ~Active(p)
    BY <2>2 DEF Track, Tracked, Reachable
  <2>4. Bound' /\ DownAll' /\ HandHeld'
    BY <2>1, <2>3 DEF Bound, DownAll, HandHeld, Active, Restarting
  <2>5. QED
    BY <2>1, <2>2, <2>4, MoveTrack
<1>3. CASE StartFails \/ \E c \in Caller : StopBegin(c)
  <2>1. /\ UNCHANGED <<slots, mon, succ, alive, allow, conf>> /\ op'.kind \in {"none", "cancelled"}
        /\ InHand = {} /\ pctx' = Cancelled
    BY <1>1, <1>3 DEF StartFails, StopBegin, Acquire, Return, NoOp, instVars, monVars
  <2>2. Bound'
    BY <1>0, <2>1 DEF Track, Bound, Cancelled, Contexts
  <2>3. QED
    BY <2>1, <2>2, MoveTrack DEF DownAll, HandHeld
<1>4. CASE \/ (\E c \in Caller : ScaleUpBegin(c)) \/ StartEnd \/ ScaleUpFails
           \/ (ScaleUpCleanup /\ op.list = <<>>)
  <2>1. UNCHANGED <<slots, mon, succ, alive, allow, conf, pctx, ctx>>
    BY <1>4 DEF ScaleUpBegin, StartEnd, ScaleUpFails, ScaleUpCleanup, supVars, instVars, monVars, osVars
  <2>2. op'.kind \in {"up", "none", "upfail"} \/ op' = op
    BY <1>0, <1>4 DEF ScaleUpBegin, StartEnd, ScaleUpFails, ScaleUpCleanup, Acquire, Return, NoOp
  <2>3. op'.list = op.list \/ InHand = {}
    BY <1>0, <1>1, <1>4 DEF ScaleUpBegin, StartEnd, ScaleUpFails, ScaleUpCleanup, Acquire, Return, NoOp
  <2>4. Range(slots) \cup InHand \subseteq Range(slots') \cup InHand'
    BY <2>1, <2>3 DEF InHand
  <2>5. Bound'
    BY <2>1 DEF Track, Bound
  <2>6. DownAll' /\ HandHeld'
    BY <2>1, <2>2 DEF Track, DownAll, HandHeld, InHand
  <2>7. QED
    BY <2>1, <2>4, <2>5, <2>6, MoveTrack
<1>5. ASSUME NEW c \in Caller, ScaleDownBegin(c) PROVE Track'
  <2> DEFINE n == Head(todo[c]).n
             tail == SubSeq(slots, n + 1, Len(slots))
  <2>1. UNCHANGED <<slots, mon, succ, alive, allow, conf, pctx, ctx>> /\ op.kind = "none"
    BY <1>5 DEF ScaleDownBegin, supVars, instVars, monVars, osVars
  <2>2. CASE op' = op
    BY <2>1, <2>2, MoveTrack DEF Track, Bound, DownAll, HandHeld, InHand
  <2>3. CASE op' # op
    <3>1. op'.kind = "down" /\ op'.n = n /\ op'.list = tail /\ ~(n >= Len(slots))
      BY <1>5, <2>3 DEF ScaleDownBegin, Acquire
    <3>2. n \in Nat /\ n <= Len(slots) /\ Len(slots) \in Nat
      <4>1. Head(todo[c]) \in Step
        BY <1>5, HeadTailProperties DEF ScaleDownBegin, Wants, StateTypeOK, TodoTypeOK
      <4>2. QED
        BY <3>1, <4>1, SlotFacts DEF Step
    <3>3. \A p : p \in InHand' <=> \E i \in n + 1 .. Len(slots) : p = slots[i]
      <4> HIDE DEF n
      <4>1. QED
        BY <1>0, <3>1, <3>2, RangeCut DEF InHand
    <3>4. DOMAIN slots = 1..Len(slots) /\ \A i \in 1..Len(slots) : slots[i] \in Range(slots)
      BY SlotFacts
    <3> HIDE DEF n, tail
    <3>5. DownAll'
      <4> SUFFICES ASSUME NEW i \in 1..Len(slots), i > n PROVE slots[i] \in InHand'
        BY <2>1, <3>1, <3>4 DEF DownAll
      <4>1. i \in n + 1 .. Len(slots)
        BY <3>2
      <4>2. QED
        BY <3>3, <4>1
    <3>6. HandHeld'
      <4>1. \A i \in n + 1 .. Len(slots) : slots[i] \in Range(slots)
        BY <3>2, <3>4
      <4>2. QED
        BY <2>1, <3>3, <4>1 DEF HandHeld
    <3>7. Bound'
      BY <2>1 DEF Track, Bound
    <3>8. QED
      BY <1>1, <2>1, <3>5, <3>6, <3>7, MoveTrack
  <2>4. QED
    BY <2>2, <2>3
<1>6. ASSUME NEW q \in Inst, StartOne(q) PROVE Track'
  <2>1. /\ op.kind = "start" /\ op'.kind = "start" /\ UNCHANGED <<conf, succ, ctx>>
        /\ StartInstance(q, op.n, "cur", mon) /\ slots' = Append(slots, q) /\ op'.list = op.list
    BY <1>0, <1>6 DEF StartOne
  <2>2. Range(slots') = Range(slots) \cup {q} /\ InHand' = InHand
    BY <1>0, <2>1, RangeAppend DEF InHand
  <2>3. ctx = "live"
    BY <2>1 DEF OpInv
  <2>4. QED
    BY <1>0, <2>1, <2>2, <2>3, StartTrack
<1>7. ASSUME NEW q \in Inst, ScaleUpOne(q) PROVE Track'
  <2> DEFINE i == Len(slots) + Len(op.list)
  <2>1. ctx = "live"
    <3>1. op.kind = "up" /\ ctx # "cancelled"
      BY <1>7 DEF ScaleUpOne
    <3>2. \E c \in Caller : todo[c] # <<>> /\ Head(todo[c]).do = "up"
      BY <3>1 DEF Flow, Owned, StepOf
    <3>3. ctx # "nil"
      BY <3>2 DEF Flow, Ahead
    <3>4. QED
      BY <1>0, <3>1, <3>3
  <2>2. /\ UNCHANGED <<slots, conf, succ, ctx>> /\ StartInstance(q, i, "cur", mon)
        /\ op.kind = "up" /\ op' = [op EXCEPT !.list = Append(op.list, q)]
    BY <1>7, <2>1 DEF ScaleUpOne, supVars
  <2>3. InHand' = InHand \cup {q} /\ op'.kind = "up"
    BY <1>0, <2>2, RangeAppend DEF InHand
  <2>4. i \in Nat
    BY SlotFacts
  <2> HIDE DEF i
  <2>5. QED
    BY <2>1, <2>2, <2>3, <2>4, StartTrack
<1>8. CASE ScaleUpCleanup /\ op.list # <<>>
  <2> DEFINE h == Head(op.list)
  <2>1. /\ h \in InHand /\ InHand = {h} \cup Range(Tail(op.list)) /\ op.kind = "upfail"
        /\ UNCHANGED <<slots, alive, conf, ctx>>
    BY <1>0, <1>8, RangeTail DEF ScaleUpCleanup, InHand, supVars
  <2>2. CASE UNCHANGED <<op, instVars, monVars, pctx>>
    <3>1. UNCHANGED <<mon, succ, allow>>
      BY <2>2 DEF instVars, monVars
    <3>2. Bound' /\ DownAll' /\ HandHeld'
      BY <2>1, <2>2, <3>1 DEF Track, Bound, DownAll, HandHeld
    <3>3. InHand' = InHand
      BY <2>2 DEF InHand
    <3>4. QED
      BY <2>1, <3>1, <3>2, <3>3, MoveTrack
  <2>3. CASE /\ stopper[h] \in {"ok", "err"} /\ Wipe(Ended(<<h>>))
             /\ op' = [op EXCEPT !.list = Tail(op.list)]
    <3>1. InHand' = Range(Tail(op.list)) /\ op'.kind = "upfail"
      BY <1>0, <2>1, <2>3 DEF InHand
    <3>2. h \in Inst /\ ~Restartable(h)
      BY <2>1, SlotFacts DEF Caught
    <3>3. ~Active(h)
      BY <2>3, <3>2, StoppedDead
    <3>4. \A p \in Ended(<<h>>) : mon[p] = "done"
      BY DEF Ended
    <3> HIDE DEF h
    <3>5. QED
      BY <2>1, <2>3, <3>1, <3>3, <3>4, DropTrack
  <2>4. QED
    BY <1>8, <2>2, <2>3 DEF ScaleUpCleanup
<1>9. CASE ScaleUpEnd
  <2>1. /\ slots' = slots \o op.list /\ op'.kind = "none"
        /\ UNCHANGED <<mon, succ, alive, allow, conf, pctx, ctx>>
    BY <1>9 DEF ScaleUpEnd, Return, NoOp, instVars, monVars, osVars
  <2>2. Range(slots') = Range(slots) \cup InHand
    BY <1>0, <2>1, RangeConcatenation DEF InHand
  <2>3. Bound' /\ DownAll' /\ HandHeld'
    BY <2>1 DEF Track, Bound, DownAll, HandHeld
  <2>4. QED
    BY <2>1, <2>2, <2>3, MoveTrack
<1>10. CASE StopInstances
  <2>1. /\ UNCHANGED <<slots, mon, succ, alive, allow, conf, pctx, ctx>> /\ op.kind = "cancelled"
        /\ op'.kind = "stopping" /\ op'.list = slots
    BY <1>0, <1>10 DEF StopInstances, supVars, instVars, monVars, osVars
  <2>2. InHand = {} /\ InHand' = Range(slots)
    BY <1>1, <2>1 DEF InHand
  <2>3. Bound' /\ DownAll' /\ HandHeld'
    BY <2>1, <2>2 DEF Track, Bound, DownAll, HandHeld
  <2>4. QED
    BY <2>1, <2>2, <2>3, MoveTrack
<1>11. CASE ScaleDownEnd
  <2> DEFINE G == Ended(SubSeq(slots, op.n + 1, Len(slots)) \o op.list)
  <2>1. /\ op.kind = "down" /\ slots' = SubSeq(slots, 1, op.n) /\ Wipe(G)
        /\ op'.kind = "none" /\ UNCHANGED <<alive, conf, ctx>>
        /\ \A p \in InHand : stopper[p] \in {"ok", "err"}
    BY <1>11 DEF ScaleDownEnd, Return, NoOp, StoppersDone
  <2>2. \A p \in InHand : ~Active(p)
    <3>1. \A p \in InHand : p \in Inst /\ ~Restartable(p)
      BY <2>1, SlotFacts DEF Caught
    <3>2. QED
      BY <2>1, <3>1, StoppedDead
  <2>3. \A p \in Range(slots) : Active(p) => p \in Range(slots')
    <3> SUFFICES ASSUME NEW p \in Range(slots), Active(p) PROVE p \in Range(slots')
      OBVIOUS
    <3>1. PICK i \in 1..Len(slots) : slots[i] = p
      BY SlotFacts
    <3>2. i \in DOMAIN slots
      BY <3>1, SlotFacts
    <3>3. ~(i > op.n)
      BY <2>1, <2>2, <3>1, <3>2 DEF Track, DownAll
    <3>4. op.n <= Len(slots)
      BY <2>1 DEF DownFits
    <3>5. \A x : x \in Range(slots') <=> \E j \in 1..op.n : x = slots[j]
      BY <1>0, <2>1, <3>4, RangeCut
    <3>6. i \in 1..op.n
      BY <1>0, <3>1, <3>3
    <3>7. QED
      BY <3>1, <3>5, <3>6
  <2>4. \A p \in G : mon[p] = "done"
    BY DEF Ended
  <2> HIDE DEF G
  <2>5. QED
    BY <2>1, <2>2, <2>3, <2>4, DropTrack
<1>12. CASE StopEnd
  <2> DEFINE G == Ended(slots \o op.list)
  <2>1. Wipe(G) /\ op'.kind = "none" /\ UNCHANGED <<alive, conf>>
    BY <1>12 DEF StopEnd, Return, NoOp
  <2>2. \A p \in Inst : ~Active(p)
    BY <1>12, StopQuiet DEF Track
  <2>3. Range(slots) \cup InHand \subseteq Inst
    BY SlotFacts
  <2>4. \A p \in G : mon[p] = "done"
    BY DEF Ended
  <2> HIDE DEF G
  <2>5. QED
    BY <2>1, <2>2, <2>3, <2>4, DropTrack
<1>13. QED
  BY <1>2, <1>3, <1>4, <1>5, <1>6, <1>7, <1>8, <1>9, <1>10, <1>11, <1>12 DEF Operation

\* Every step of the code loses nothing.
LEMMA TrackStep ==
  ASSUME TypeInv, StateTypeOK', DownFits, ProcInv, OpInv, Orderly, Flow, Slots, Track, ~Caught,
         CodeStep
  PROVE  Track'
<1> StateTypeOK
  BY DEF TypeInv
<1>1. CASE \/ \E p \in Inst : StopInstance(p) \/ ProcExit(p)
           \/ \E c \in Caller : Api(c)
           \/ ManagerCheck \/ HealthPassed \/ HealthFailed
  <2>1. UNCHANGED <<slots, op, ctx>> /\ UNCHANGED <<mon, succ, pctx, conf>> /\ alive' \subseteq alive
    <3>1. op'.kind = op.kind /\ op'.list = op.list /\ op' = op
      BY <1>1 DEF StopInstance, StopAsk, StopSignal, StopKill, StopDone, ProcExit, Api, Request,
         UpdateScaleConfig, TopUp, ManagerCheck, HealthPassed, HealthFailed, opVars
    <3>2. UNCHANGED <<slots, ctx, mon, succ, pctx, conf>> /\ alive' \subseteq alive
      BY <1>1 DEF StopInstance, StopAsk, StopSignal, StopKill, StopDone, ProcExit, Api, Request,
         UpdateScaleConfig, TopUp, ManagerCheck, HealthPassed, HealthFailed, supVars,
         monVars, osVars
    <3>3. QED
      BY <3>1, <3>2
  <2>2. \A p \in Inst : allow'[p] => allow[p]
    BY <1>1 DEF StopInstance, StopAsk, StopSignal, StopKill, StopDone, ProcExit, Api, Request,
       UpdateScaleConfig, TopUp, ManagerCheck, HealthPassed, HealthFailed, instVars,
       StateTypeOK, InstTypeOK
  <2>3. \A p \in Inst : Active(p)' => Active(p)
    BY <2>1, <2>2 DEF Active, MayRestart
  <2>4. QED
    BY <2>1, <2>3, TrackSame
<1>2. QED
  BY <1>1, MonitorTrack, OperationTrack DEF CodeStep

-----------------------------------------------------------------------------
(* The inductive invariant of the supervisor. *)

SupIInv == /\ TypeIInv /\ ProcInv /\ OpInv
           /\ FlowInv /\ SlotInv /\ TrackInv
           /\ Caught => caught

\* The configuration is fixed.
LEMMA ConfFixed ==
  ASSUME CodeStep
  PROVE  UNCHANGED conf
<1>1. ASSUME NEW p \in Inst, ProcExit(p) \/ Monitor(p) \/ StopInstance(p) PROVE UNCHANGED conf
  BY <1>1 DEF Monitor, StopInstance, ProcExit, MonExited, MonOneshot, MonNoRestart, MonDecide,
     BackoffCancelled, BackoffOver, RespawnFails, Respawn, SetCount, Replace, CheckAllDead,
     Notify, StopAsk, StopSignal, StopKill, StopDone
<1>2. CASE Operation
  BY <1>2 DEF Operation, StartBegin, ScaleUpBegin, ScaleDownBegin, StopBegin, StartOne, ScaleUpOne,
     StartFails, StartEnd, ScaleUpFails, ScaleUpCleanup, ScaleUpEnd, ScaleDownEnd, StopInstances,
     StopEnd
<1>3. CASE (\E c \in Caller : Api(c)) \/ ManagerCheck \/ HealthPassed \/ HealthFailed
  BY <1>3 DEF Api, Request, UpdateScaleConfig, TopUp, ManagerCheck, HealthPassed, HealthFailed
<1>4. QED
  BY <1>1, <1>2, <1>3 DEF CodeStep

LEMMA SupInit == ConstantsAssumption /\ Init => SupIInv
<1> SUFFICES ASSUME ConstantsAssumption, Init PROVE SupIInv
  OBVIOUS
<1>1. TypeIInv
  BY InitType DEF TypeIInv, Init, DownFits, NoOp
<1>2. /\ mon = [p \in Inst |-> "none"] /\ istate = [p \in Inst |-> "none"]
      /\ allow = [p \in Inst |-> FALSE] /\ stopper = [p \in Inst |-> "idle"]
      /\ alive = {} /\ slots = <<>> /\ op.kind = "none" /\ op.list = <<>>
      /\ supState = "stopped" /\ ctx = "nil" /\ todo = [c \in Caller |-> <<>>]
  BY DEF Init, NoOp
<1>3. ProcInv /\ OpInv
  BY <1>2 DEF ProcInv, AliveWaits, WaitState, StopState, CancelledDie, Begun, OpInv
<1>4. FlowInv
  BY <1>2 DEF FlowInv, Flow, Planned, Shape, Owned, Ahead, Counted, NilIsEmpty
<1>5. DOMAIN slots = {} /\ InHand = {} /\ Range(slots) = {}
  BY <1>2, EmptySeq, RangeEmpty DEF InHand
<1>6. SlotInv
  BY <1>2, <1>5 DEF SlotInv, Slots, Numbered, NewNumbered, NewApart, NewStay, DownAbove,
     Successors, Replacing
<1>7. TrackInv
  BY <1>2 DEF TrackInv, Track, DownAll, HandHeld, Bound, Tracked, Active, Restarting
<1>8. ~Caught
  BY <1>2 DEF Caught
<1>9. QED
  BY <1>1, <1>3, <1>4, <1>6, <1>7, <1>8 DEF SupIInv

LEMMA SupStutter ==
  ASSUME SupIInv, TypeIInv', UNCHANGED vars
  PROVE  SupIInv'
<1> USE DEF vars, state, supVars, instVars, monVars, osVars, opVars, deathVars
<1>1. ProcInv' /\ OpInv'
  BY DEF SupIInv, ProcInv, AliveWaits, WaitState, StopState, CancelledDie, Begun, OpInv, InHand
<1>2. UNCHANGED <<OneCaller, Orderly, Careful, InHand, Caught>>
  BY DEF OneCaller, Orderly, Careful, InHand, Caught, Restartable, MayRestart
<1>3. FlowInv'
  BY <1>2 DEF SupIInv, FlowInv, Flow, Planned, Owned, Ahead, Counted, NilIsEmpty
<1>4. SlotInv'
  BY <1>2 DEF SupIInv, SlotInv, Slots, Numbered, NewNumbered, NewApart, NewStay, DownAbove, Successors
<1>5. TrackInv'
  BY <1>2 DEF SupIInv, TrackInv, Track, DownAll, HandHeld, Bound, Tracked, Active, MayRestart,
     Reachable
<1>6. QED
  BY <1>1, <1>2, <1>3, <1>4, <1>5 DEF SupIInv

LEMMA SupStep ==
  ASSUME ConstantsAssumption, SupIInv, TypeIInv', [Next]_vars
  PROVE  SupIInv'
<1>1. CASE UNCHANGED vars
  BY <1>1, SupStutter
<1>2. CASE Next
  <2>1. /\ CodeStep /\ caught' = (caught \/ Caught') /\ UNCHANGED conf
        /\ TypeInv /\ DownFits /\ StateTypeOK /\ StateTypeOK' /\ ProcInv /\ OpInv
    BY <1>2, ConfFixed DEF Next, SupIInv, TypeIInv, TypeInv
  <2>2. /\ OneCaller' = OneCaller /\ Orderly' = Orderly /\ (Orderly => OneCaller)
    BY <2>1 DEF OneCaller, Orderly
  <2>3. ProcInv' /\ OpInv'
    BY <2>1, ProcStep, OpStep
  <2>4. FlowInv'
    BY <2>1, <2>2, FlowStep DEF SupIInv, FlowInv
  <2>5. SlotInv'
    BY <2>1, <2>2, SlotStep DEF SupIInv, FlowInv, SlotInv
  <2>6. TrackInv'
    <3> SUFFICES ASSUME Careful' PROVE Track'
      BY DEF TrackInv
    <3>1. Orderly /\ ~caught
      BY <2>1, <2>2 DEF Careful
    <3>2. Careful /\ ~Caught /\ Flow /\ Slots /\ Track
      BY <2>2, <3>1 DEF SupIInv, Careful, FlowInv, SlotInv, TrackInv
    <3>3. QED
      BY <2>1, <3>1, <3>2, TrackStep
  <2>7. Caught' => caught'
    BY <2>1
  <2>8. QED
    BY <2>3, <2>4, <2>5, <2>6, <2>7 DEF SupIInv
<1>3. QED
  BY <1>1, <1>2

\* The inductive invariant holds: it relates the processes, their monitors and
\* stopInstance calls (ProcInv), the operation and its caller's plan (OpInv,
\* FlowInv), the numbers of the slots (SlotInv), and keeps every process that
\* runs or may be restarted within reach (TrackInv).
THEOREM SupInvariant == Spec => []SupIInv
<1>1. Init => SupIInv
  BY SupInit, ConstantsAssumption
<1>2. SupIInv /\ TypeIInv' /\ [Next]_vars => SupIInv'
  BY SupStep, ConstantsAssumption
<1>3. QED
  BY <1>1, <1>2, TypeInvariant, PTL DEF Spec

\* NoOrphan: with one caller and slow backoffs, the instance in slot i of
\* s.instances carries number i - 1; and unless an operation dropped an instance
\* on its way to a restart, every live process is in a slot, in the hands of the
\* running operation, or held by the restart loop of the instance in its slot.
THEOREM NothingOrphaned == Spec => []NoOrphan
<1>1. SupIInv => NoOrphan
  <2> SUFFICES ASSUME SupIInv PROVE NoOrphan
    OBVIOUS
  <2>1. SlotIds
    BY DEF SupIInv, SlotInv, Slots, Numbered, SlotIds
  <2>2. alive \subseteq Inst
    BY DEF SupIInv, TypeIInv, TypeInv, StateTypeOK, OsTypeOK
  <2>3. Careful => \A p \in alive : Reachable(p)
    BY <2>2 DEF SupIInv, TrackInv, Track, Tracked, Active
  <2>4. QED
    BY <2>1, <2>3 DEF NoOrphan
<1>2. QED
  BY <1>1, SupInvariant, PTL

\* StoppedIsQuiet: once Stop has returned and s.state is "stopped", none of the
\* processes the supervisor ever started is alive, those of restarts and
\* scale operations included.
THEOREM QuietAfterStop == Spec => []StoppedIsQuiet
<1>1. SupIInv => StoppedIsQuiet
  <2> SUFFICES ASSUME SupIInv, Careful, supState = "stopped" PROVE alive = {}
    BY DEF StoppedIsQuiet
  <2>1. Flow /\ Track /\ OpInv /\ alive \subseteq Inst
    BY DEF SupIInv, FlowInv, TrackInv, Careful, Orderly, TypeIInv, TypeInv, StateTypeOK, OsTypeOK
  <2>2. ctx = "nil" /\ slots = <<>>
    BY <2>1 DEF OpInv, Flow, NilIsEmpty
  <2>3. op.kind \in {"none", "start", "cancelled"}
    <3>1. op.kind \in OpKinds
      BY DEF SupIInv, TypeIInv, TypeInv, StateTypeOK, OpTypeOK
    <3>2. op.kind # "stopping"
      BY <2>1 DEF OpInv
    <3>3. op.kind \notin {"up", "upfail", "down"}
      BY <2>1, <2>2 DEF Flow, Owned, Ahead, StepOf
    <3>4. QED
      BY <3>1, <3>2, <3>3 DEF OpKinds
  <2>4. Range(slots) \cup InHand = {}
    BY <2>1, <2>2, <2>3, RangeEmpty DEF OpInv, InHand
  <2>5. \A p \in Inst : ~Reachable(p)
    BY <2>4 DEF Reachable
  <2>6. QED
    BY <2>1, <2>5 DEF Track, Tracked, Active
<1>2. QED
  BY <1>1, SupInvariant, PTL

\* A step of the code that takes an instance out of the slots.
LEMMA DropStep ==
  ASSUME TypeInv, StateTypeOK', DownFits, ProcInv, OpInv, Slots, Track, ~Caught, CodeStep,
         NEW p \in Range(slots), p \notin Range(slots')
  PROVE  p \notin alive
<1> StateTypeOK
  BY DEF TypeInv
<1>0. p \in Inst /\ slots \in Seq(Inst) /\ op.list \in Seq(Inst) /\ op.n \in Nat
  BY SlotFacts DEF StateTypeOK, SupTypeOK, OpTypeOK
<1>1. ASSUME NEW o \in Inst, Replace(o) PROVE p \notin alive
  <2>1. p = o
    BY <1>1, ReplaceEffect, ReplaceHeld DEF Slots, Replace
  <2>2. QED
    BY <1>1, <2>1 DEF Replace, ProcInv, AliveWaits
<1>2. ASSUME NEW q \in Inst, StartOne(q) PROVE p \notin alive
  BY <1>0, <1>2, RangeAppend DEF StartOne
<1>3. CASE ScaleUpEnd
  BY <1>0, <1>3, RangeConcatenation DEF ScaleUpEnd
<1>4. CASE ScaleDownEnd
  <2>1. op.kind = "down" /\ slots' = SubSeq(slots, 1, op.n) /\ op.n <= Len(slots)
    BY <1>4 DEF ScaleDownEnd, DownFits
  <2>2. PICK i \in 1..Len(slots) : slots[i] = p
    BY SlotFacts
  <2>3. i \in DOMAIN slots
    BY <2>2, SlotFacts
  <2>4. \A x : x \in Range(slots') <=> \E j \in 1..op.n : x = slots[j]
    BY <1>0, <2>1, RangeCut
  <2>5. i > op.n
    BY <1>0, <2>2, <2>4
  <2>6. p \in InHand
    BY <2>1, <2>2, <2>3, <2>5 DEF Track, DownAll
  <2>7. QED
    BY <1>0, <1>4, <2>6 DEF ScaleDownEnd, StoppersDone, ProcInv, StopState
<1>5. CASE StopEnd
  BY <1>0, <1>5, StopQuiet DEF Track, Active
<1>6. CASE UNCHANGED slots
  BY <1>6
<1>7. QED
  BY <1>1, <1>2, <1>3, <1>4, <1>5, <1>6 DEF CodeStep, Monitor, StopInstance, ProcExit, MonExited,
     MonOneshot, MonNoRestart, MonDecide, BackoffCancelled, BackoffOver, RespawnFails, Respawn,
     SetCount, CheckAllDead, Notify, StopAsk, StopSignal, StopKill, StopDone, Api, Request,
     UpdateScaleConfig, TopUp, ManagerCheck, HealthPassed, HealthFailed, Operation, StartBegin,
     ScaleUpBegin, ScaleDownBegin, StopBegin, ScaleUpOne, StartFails, StartEnd, ScaleUpFails,
     ScaleUpCleanup, StopInstances, supVars

\* DropsOnlyDead: whether a restart replaces an instance, ScaleDown cuts the
\* slots or Stop clears them, what leaves s.instances has exited.
THEOREM OnlyTheDeadLeave == Spec => DropsOnlyDead
<1> DEFINE Dead == \A p \in Range(slots) : p \notin Range(slots)' => p \notin alive
<1>1. SupIInv /\ TypeIInv' /\ [Next]_vars => (Careful => Dead)
  <2> SUFFICES ASSUME SupIInv, TypeIInv', [Next]_vars, Careful PROVE Dead
    OBVIOUS
  <2>1. CASE UNCHANGED vars
    <3>1. UNCHANGED slots
      BY <2>1 DEF vars, state, supVars
    <3>2. QED
      BY <3>1
  <2>2. CASE Next
    <3>1. /\ CodeStep /\ TypeInv /\ StateTypeOK' /\ DownFits /\ ProcInv /\ OpInv
          /\ Slots /\ Track /\ ~Caught
      BY <2>2 DEF Next, SupIInv, TypeIInv, TypeInv, Careful, SlotInv, TrackInv
    <3>2. QED
      BY <3>1, DropStep
  <2>3. QED
    BY <2>1, <2>2
<1>2. QED
  BY <1>1, SupInvariant, TypeInvariant, PTL DEF Spec, DropsOnlyDead
=============================================================================
