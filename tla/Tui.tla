-------------------------------- MODULE Tui --------------------------------
(***************************************************************************)
(* The terminal UI (internal/tui).  It is written in the Elm style and     *)
(* modelled in it: handlers are functions from the model m and a key or a  *)
(* message to the next model and a command.  Commands run in goroutines of *)
(* their own and in any order; their results come back as messages, late.  *)
(* Meanwhile the daemon's processes change.  Toasts and layout are left    *)
(* out, but for which rows and which dialog can be seen.                   *)
(***************************************************************************)
EXTENDS Wizard, FiniteSets

CONSTANTS
  Proc,       \* process names, 1..n, in the order they are sorted in
  Scheduled,  \* those with a schedule
  Config,     \* [args, scale, restart] of each
  Heights,    \* heights of the table that a resize may set
  MinRows,    \* rows that a table has at least (5 in the code)
  Scenario,   \* a set of records that say what happens (see MCTui)
  MaxTicks    \* bound: log ticks outstanding

States == {"running", "stopped", "idle", "paused", "executing"}

\* Names are numbers, a process is configured, and a scenario names known
\* processes and states.
ASSUME TuiAssumption ==
  /\ Cardinality(Proc) \in Nat /\ Proc = 1..Cardinality(Proc)
  /\ Scheduled \subseteq Proc /\ MinRows \in Nat \ {0} /\ Heights \subseteq Nat
  /\ MaxTicks \in Nat \ {0}
  /\ Config \in [Proc -> [args : Seq(Seq(Char)), scale : {DigitValue[d] : d \in Digit},
                          restart : {Policies[i] : i \in 1..3}]]
  /\ \A s \in Scenario :
       /\ s.first \subseteq Proc /\ s.comes \subseteq Proc /\ s.states \in [Proc -> SUBSET States]
       /\ s.executions \in Nat

VARIABLES
  sc,       \* the scenario
  m,        \* the Model
  out,      \* a bag: commands not yet run and messages not yet delivered
  logTicks, \* timers of tickLogRefreshCmd that run
  procs,    \* the daemon's processes: name -> state
  runs      \* length of its oneshot history

vars == <<sc, m, out, logTicks, procs, runs>>

None == 0
NoCmd == [do |-> "nothing"]
Tabs == {"processes", "scheduled", "oneshot", "system"}
Min2(a, b) == IF a < b THEN a ELSE b
Max2(a, b) == IF a < b THEN b ELSE a

NewModel ==
  [view |-> "list", tab |-> "processes", height |-> MinRows, quitting |-> FALSE,
   data |-> [t \in Tabs \ {"system"} |-> <<>>], idx |-> [t \in Tabs |-> 0],
   off |-> [t \in Tabs |-> 0], cache |-> [n \in {} |-> "stopped"],
   dialog |-> "none", action |-> "none", target |-> None, input |-> <<>>,
   detail |-> None, logProc |-> None, logReturn |-> "list", wiz |-> Blank]

-----------------------------------------------------------------------------
(* Selection *)

Rows(mm) == Max2(MinRows, mm.height)
Count(mm) == IF mm.tab = "system" THEN 2 ELSE Len(mm.data[mm.tab])

Clamp(i, n) == IF n = 0 THEN 0 ELSE Max2(0, Min2(i, n - 1))

\* ensureCursorVisible and its likes: the first row shown.
Visible(first, i, n, rows) ==
  LET last == Max2(0, n - rows)
      f == Min2(first, last)
  IN  CASE i < f -> i
        [] i >= f + rows -> Max2(0, Min2(i - rows + 1, last))
        [] OTHER -> Max2(0, f)

\* setSelection; moveSelection(d) selects the one d further.
Select(mm, i) ==
  LET n == Count(mm) IN
  [mm EXCEPT !.idx[mm.tab] = Clamp(i, n),
             !.off[mm.tab] = IF n = 0 \/ mm.tab = "system" THEN @
                             ELSE Visible(@, Clamp(i, n), n, Rows(mm))]

\* getSelectedProcessInfo: on any other tab than the scheduled one it is the
\* row of the processes tab.
SelectedTab(mm) == IF mm.tab = "scheduled" THEN "scheduled" ELSE "processes"
Selected(mm) ==
  LET t == SelectedTab(mm) IN
  IF mm.idx[t] < Len(mm.data[t]) THEN mm.data[t][mm.idx[t] + 1] ELSE None

-----------------------------------------------------------------------------
(* Dialogs and views: each handler returns <<model, command>> *)

Keep(mm) == <<mm, NoCmd>>
Ask(mm, what, n) == <<mm, [do |-> what, name |-> n]>>
Quit(mm) == Keep([mm EXCEPT !.quitting = TRUE])

Cancelled(mm) == [mm EXCEPT !.dialog = "none", !.action = "none", !.target = None]

\* Mutant: help can be had from within the dialog.
ConfirmationKeyHelp(mm, k) ==
  IF k = "?" THEN Keep([mm EXCEPT !.view = "help"]) ELSE Keep(Cancelled(mm))

ConfirmationKey(mm, k) ==
  CASE k \in {"y", "enter"} ->
         IF mm.action = "none" \/ mm.target = None THEN Keep(Cancelled(mm))
         ELSE Ask(Cancelled(mm), mm.action, mm.target)
    [] k \in {"n", "esc"} -> Keep(Cancelled(mm))
    [] OTHER -> Keep(mm)

\* closeScaleDialog leaves pendingAction, which is actionNone.
ScaleClosed(mm) == [mm EXCEPT !.dialog = "none", !.target = None, !.input = <<>>]

ScaleDialogKey(mm, k) ==
  CASE k = "enter" ->
         IF mm.input = <<>> \/ mm.target = None \/ Scanned(mm.input) < 1 THEN Keep(ScaleClosed(mm))
         ELSE <<ScaleClosed(mm), [do |-> "scale", name |-> mm.target, to |-> Scanned(mm.input)]>>
    [] k = "esc" -> Keep(ScaleClosed(mm))
    [] k = "backspace" /\ mm.input # <<>> -> Keep([mm EXCEPT !.input = Front(@)])
    [] k \in Digit /\ Len(mm.input) < MaxDigits -> Keep([mm EXCEPT !.input = Append(@, k)])
    [] OTHER -> Keep(mm)

\* triggerAction; it clears what is pending.
Trigger(mm, what, n) == IF n = None THEN Keep(mm) ELSE Ask(Cancelled(mm), what, n)

\* openLogView and startLogTailing.
OpenLog(mm, n) ==
  <<[mm EXCEPT !.logProc = n, !.logReturn = mm.view, !.view = "logs"], [do |-> "logtick"]>>

StateOf(mm, n) == IF n \in DOMAIN mm.cache THEN mm.cache[n] ELSE "unknown"

\* handleProcessActionKeys, handleScaleKeys, handleScheduleKeys and
\* handleUtilityKeys, with a process selected.
ProcessKey(mm, k, n) ==
  LET s == StateOf(mm, n)
      timed == mm.tab = "scheduled"
  IN  CASE k = "enter" -> Keep([mm EXCEPT !.detail = n, !.view = "detail"])
        [] k = "r" -> Trigger(mm, "restart", n)
        [] k = "s" /\ s # "running" -> Trigger(mm, "start", n)
        [] k = "x" /\ s # "stopped" -> Trigger(mm, "stop", n)
        [] k = "d" -> Keep([mm EXCEPT !.dialog = "confirm", !.action = "delete", !.target = n])
        [] k = "e" -> Ask(mm, "config", n)
        [] k \in {"+", "-"} -> Ask(mm, "delta", n)
        [] k = "c" -> Keep([mm EXCEPT !.dialog = "scale", !.target = n, !.input = <<>>])
        [] k = "p" /\ timed -> Trigger(mm, IF s = "paused" THEN "resume" ELSE "pause", n)
        [] k = "t" /\ timed /\ s # "executing" -> Trigger(mm, "trigger", n)
        [] k = "l" -> OpenLog(mm, n)
        [] OTHER -> Keep(mm)

TabOf == [k \in {"1", "2", "3", "4"} |->
            CASE k = "1" -> "processes" [] k = "2" -> "scheduled"
              [] k = "3" -> "oneshot" [] k = "4" -> "system"]

ListKey(mm, k) ==
  CASE k \in DOMAIN TabOf -> Keep([mm EXCEPT !.tab = TabOf[k]])
    [] k \in {"k", "up"} -> Keep(Select(mm, mm.idx[mm.tab] - 1))
    [] k \in {"j", "down"} -> Keep(Select(mm, mm.idx[mm.tab] + 1))
    [] k = "g" -> Keep(Select(mm, 0))
    [] k = "G" -> IF Count(mm) > 0 THEN Keep(Select(mm, Count(mm) - 1)) ELSE Keep(mm)
    [] k = "a" -> Keep([mm EXCEPT !.wiz = Blank, !.view = "wizard"])
    [] mm.tab = "system" /\ (k = "R" \/ (k = "enter" /\ mm.idx["system"] = 0)) -> Ask(mm, "reload", None)
    [] mm.tab = "system" /\ (k = "S" \/ (k = "enter" /\ mm.idx["system"] = 1)) -> Ask(mm, "save", None)
    [] OTHER -> IF Selected(mm) = None THEN Keep(mm) ELSE ProcessKey(mm, k, Selected(mm))

DetailKey(mm, k) ==
  IF mm.detail = None THEN Keep(mm)
  ELSE CASE k = "l" -> OpenLog(mm, mm.detail)
         [] k = "r" -> Trigger(mm, "restart", mm.detail)
         [] k = "s" /\ StateOf(mm, mm.detail) # "stopped" -> Trigger(mm, "stop", mm.detail)
         [] OTHER -> Keep(mm)

\* handleWizardKeys and executeWizardSubmit; step 4 is always valid.
FormKey(mm, k) ==
  IF mm.wiz.step = 4 /\ k \in {"tab", "enter"}
  THEN <<[mm EXCEPT !.view = "list", !.wiz = Blank], Submission(mm.wiz)>>
  ELSE Keep([mm EXCEPT !.wiz = WizardKey(@, k)])

\* handleKeyPress: a dialog takes every key, then come the global ones.  In the
\* logs the other keys only scroll.
HandleKey(mm, k) ==
  CASE mm.dialog = "confirm" -> ConfirmationKey(mm, k)
    [] mm.dialog = "scale" -> ScaleDialogKey(mm, k)
    [] OTHER ->
       CASE k = "ctrl+c" -> Quit(mm)
         [] k = "q" -> IF mm.view = "list" THEN Quit(mm) ELSE Keep([mm EXCEPT !.view = "list"])
         [] k = "?" -> Keep([mm EXCEPT !.view = "help"])
         [] k = "esc" -> Keep([mm EXCEPT !.view = IF @ = "logs" THEN mm.logReturn ELSE "list"])
         [] OTHER ->
            CASE mm.view = "list" -> ListKey(mm, k)
              [] mm.view = "detail" -> DetailKey(mm, k)
              [] mm.view = "logs" -> Keep(mm)
              [] mm.view = "help" -> Keep([mm EXCEPT !.view = "list"])
              [] mm.view = "wizard" -> FormKey(mm, k)

-----------------------------------------------------------------------------
(* Results *)

Sorted(S) == [i \in 1..Cardinality(S) |-> CHOOSE n \in S : Cardinality({o \in S : o < n}) = i - 1]

\* updateScheduledTable: the selection is kept by index and not scrolled to.
WithJobs(mm, list) ==
  LET jobs == Sorted(DOMAIN list \cap Scheduled)
  IN  [mm EXCEPT !.data["scheduled"] = jobs, !.idx["scheduled"] = Clamp(@, Len(jobs))]

\* updateProcessTable: it is scrolled to on the processes tab.
WithRows(mm, list) ==
  LET rows == Sorted(DOMAIN list \ Scheduled)
      i == Clamp(mm.idx["processes"], Len(rows))
  IN  [WithJobs(mm, list) EXCEPT
         !.data["processes"] = rows, !.idx["processes"] = i,
         !.off["processes"] = Visible(@, i, Len(rows), Rows(mm))]

\* The end of applyProcessListResult: the process of the detail view is gone.
ForgetGone(mm) ==
  IF mm.detail = None \/ mm.detail \in DOMAIN mm.cache THEN mm
  ELSE [mm EXCEPT !.detail = None, !.view = IF @ = "detail" THEN "list" ELSE @]

\* Mutant: a list is thrown away unless the list is being looked at.
ApplySeen(mm, list, history) ==
  IF mm.view # "list" THEN mm ELSE ForgetGone([WithRows(mm, list) EXCEPT !.cache = list])

\* applyProcessListResult; refreshOneshotData fetches the history there and
\* then, and keeps the old one if that fails.
Apply(mm, list, history) ==
  ForgetGone([WithRows(mm, list) EXCEPT
    !.cache = list, !.data["oneshot"] = [i \in 1..history |-> i],
    !.idx["oneshot"] = Clamp(@, history)])

\* updateComponentSizes scrolls the processes tab.
Resized(mm, h) ==
  LET r == [mm EXCEPT !.height = h]
  IN  [r EXCEPT !.off["processes"] = Visible(@, mm.idx["processes"], Len(mm.data["processes"]), Rows(r))]

Init ==
  /\ sc \in Scenario
  /\ procs \in [sc.first -> {"running", "idle"}]
  /\ \A n \in DOMAIN procs : procs[n] = "idle" <=> n \in Scheduled
  /\ runs = 0 /\ logTicks = 0
  /\ m = Apply(NewModel, procs, 0)
  /\ out = EmptyBag

\* Bounds: lists on their way, and everything else that is, but for log ticks.
SumOf(S) == MapThenSumSet(LAMBDA r : out[r], S)
IsList(r) == r = [do |-> "list"] \/ ("msg" \in DOMAIN r /\ r.msg \in {"list", "nolist"})
ListRoom == SumOf({r \in BagToSet(out) : IsList(r)}) < sc.lists
Room == SumOf({r \in BagToSet(out) : ~IsList(r)}) < sc.max
Send(r) == out' = IF r = NoCmd THEN out ELSE out (+) SetToBag({r})

Press(k) ==
  /\ k \in sc.keys /\ ~m.quitting
  /\ LET r == HandleKey(m, k) IN
     /\ m' = r[1]
     /\ IF r[2].do = "logtick"
        THEN logTicks < MaxTicks /\ logTicks' = logTicks + 1 /\ UNCHANGED out
        ELSE Send(r[2]) /\ (r[2] = NoCmd \/ Room) /\ UNCHANGED logTicks
  /\ UNCHANGED <<sc, procs, runs>>

Resize(h) ==
  /\ sc.resizes /\ ~m.quitting /\ m' = Resized(m, h)
  /\ UNCHANGED <<sc, out, logTicks, procs, runs>>

\* The refresh that Init orders and those of tickMsg, every second.
Tick ==
  /\ ~m.quitting /\ ListRoom /\ Send([do |-> "list"])
  /\ UNCHANGED <<sc, m, logTicks, procs, runs>>

\* Mutant: goes on without the log view.
LogTickAlways ==
  /\ ~m.quitting /\ logTicks > 0 /\ UNCHANGED vars

\* tickLogRefreshMsg: goes on as long as logs are looked at, whichever they are.
LogTick ==
  /\ ~m.quitting /\ logTicks > 0
  /\ logTicks' = IF m.view = "logs" THEN logTicks ELSE logTicks - 1
  /\ UNCHANGED <<sc, m, out, procs, runs>>

-----------------------------------------------------------------------------
(* Commands: one request to the daemon, by the API or by a call *)

Becomes == [start |-> "running", restart |-> "running", stop |-> "stopped",
            pause |-> "paused", resume |-> "idle", trigger |-> "executing"]

Commanded(c) ==
  /\ c.do \in DOMAIN Becomes /\ c.name \in DOMAIN procs /\ Becomes[c.do] \in sc.states[c.name]
  /\ procs' = [procs EXCEPT ![c.name] = Becomes[c.do]]

Deleted(c) == c.do = "delete" /\ procs' = [n \in DOMAIN procs \ {c.name} |-> procs[n]]

\* Of the daemon's own checks only the one for the name is modelled here.
Created(c) ==
  /\ c.do = "create" /\ c.name \in Proc \ DOMAIN procs
  /\ procs' = [n \in DOMAIN procs \cup {c.name} |-> IF n = c.name THEN "running" ELSE procs[n]]

\* What a request may have done when it returns, whether with an error or not:
\* the client gives up after ten seconds, the daemon may go on.
Effect(c) == UNCHANGED procs \/ Commanded(c) \/ Deleted(c) \/ Created(c)

Done(c, msg) == out' = (out (-) SetToBag({c})) (+) SetToBag({msg})

Fetch ==
  /\ BagIn([do |-> "list"], out)
  /\ Done([do |-> "list"], [msg |-> "list", list |-> procs])
  /\ UNCHANGED <<sc, m, logTicks, procs, runs>>

\* The request fails.
FetchFails ==
  /\ sc.fails /\ BagIn([do |-> "list"], out) /\ Done([do |-> "list"], [msg |-> "nolist"])
  /\ UNCHANGED <<sc, m, logTicks, procs, runs>>

Pending == {c \in BagToSet(out) : "do" \in DOMAIN c}

FetchConfig(c) ==
  /\ c \in Pending /\ c.do = "config"
  /\ Done(c, IF c.name \in DOMAIN procs THEN [msg |-> "config", name |-> c.name] ELSE [msg |-> "error"])
  /\ UNCHANGED <<sc, m, logTicks, procs, runs>>

Act(c) ==
  /\ c \in Pending /\ c.do \notin {"list", "config"}
  /\ Effect(c) /\ Done(c, [msg |-> "result"])
  /\ UNCHANGED <<sc, m, logTicks, runs>>

-----------------------------------------------------------------------------
(* Messages *)

Deliver(msg) ==
  /\ BagIn(msg, out) /\ "msg" \in DOMAIN msg /\ ~m.quitting
  /\ LET rest == out (-) SetToBag({msg}) IN
     CASE msg.msg = "list" ->
            /\ \E history \in {runs} \cup (IF sc.fails THEN {Len(m.data["oneshot"])} ELSE {}) :
                 m' = Apply(m, msg.list, history)
            /\ out' = rest
       [] msg.msg = "config" ->
            m' = [m EXCEPT !.wiz = EditForm(msg.name, Config[msg.name]), !.view = "wizard"] /\ out' = rest
       [] msg.msg = "result" -> ListRoom /\ UNCHANGED m /\ out' = rest (+) SetToBag({[do |-> "list"]})
       [] msg.msg \in {"error", "nolist"} -> UNCHANGED m /\ out' = rest
  /\ UNCHANGED <<sc, logTicks, procs, runs>>

\* The daemon: states change, processes come and go, oneshots run.
Change(n) ==
  /\ \/ n \in DOMAIN procs /\ sc.changes /\ \E s \in sc.states[n] : procs' = [procs EXCEPT ![n] = s]
     \/ n \in sc.comes \cap DOMAIN procs /\ procs' = [x \in DOMAIN procs \ {n} |-> procs[x]]
     \/ /\ n \in sc.comes \ DOMAIN procs
        /\ procs' = [x \in DOMAIN procs \cup {n} |->
                       IF x # n THEN procs[x] ELSE IF n \in Scheduled THEN "idle" ELSE "running"]
  /\ UNCHANGED <<sc, m, out, logTicks, runs>>

Oneshots ==
  /\ runs' \in 0..sc.executions /\ runs' # runs
  /\ UNCHANGED <<sc, m, out, logTicks, procs>>

RunCommand == Fetch \/ FetchFails \/ \E c \in Pending : FetchConfig(c) \/ Act(c)
ReceiveList == \E msg \in BagToSet(out) : IsList(msg) /\ Deliver(msg)
ReceiveOther == \E msg \in BagToSet(out) : ~IsList(msg) /\ Deliver(msg)
Next ==
  \/ \E k \in sc.keys : Press(k)
  \/ \E h \in Heights : Resize(h)
  \/ Tick \/ LogTick \/ RunCommand \/ ReceiveList \/ ReceiveOther
  \/ \E n \in Proc : Change(n)
  \/ Oneshots

Spec == Init /\ [][Next]_vars

\* Timers fire, the event loop takes lists, and the daemon answers a request for
\* the list if it is asked forever.  Nothing orders the answers.
FairSpec ==
  Spec /\ WF_vars(Tick) /\ WF_vars(LogTick) /\ SF_vars(Fetch) /\ WF_vars(ReceiveList)

-----------------------------------------------------------------------------
(* Properties *)

\* Every variable keeps its type.
TypeOK ==
  /\ m.view \in {"list", "detail", "logs", "help", "wizard"} /\ m.tab \in Tabs
  /\ m.dialog \in {"none", "confirm", "scale"} /\ m.logReturn \in {"list", "detail"}
  /\ {m.target, m.detail, m.logProc} \subseteq Proc \cup {None}
  /\ \A t \in Tabs : m.idx[t] >= 0 /\ m.off[t] >= 0
  /\ \A t \in Tabs \ {"system"} : Len(m.data[t]) > 0 => m.idx[t] < Len(m.data[t])
  /\ m.wiz.step \in 0..4 /\ m.wiz.cursor >= 0 /\ m.wiz.scale >= 0
  /\ DOMAIN procs \subseteq Proc /\ \A n \in DOMAIN procs : procs[n] \in States
  /\ logTicks \in 0..MaxTicks

RowShown(mm, t) ==
  Len(mm.data[t]) > 0 => mm.off[t] <= mm.idx[t] /\ mm.idx[t] < mm.off[t] + Rows(mm)

\* On the processes tab the selected row is among those drawn, whatever came and went
\* and however the window was resized.  The other tabs do not keep that: a shorter
\* list or window leaves their scroll position as it is.
ProcessRowShown == RowShown(m, "processes")

\* But in every table a key that moves the selection brings its row into view again,
\* wherever it was left.
MovesShow ==
  m.view = "list" /\ m.dialog = "none" /\ m.tab # "system" =>
    \A k \in {"k", "up", "j", "down", "g", "G"} : RowShown(HandleKey(m, k)[1], m.tab)

\* A dialog, which takes every key, is drawn on the list only: nothing hides it but
\* a form for an edit that was asked for before and comes while it is open.
OnlyFormHidesDialog ==
  m.dialog # "none" => m.view = "list" \/ (m.view = "wizard" /\ m.wiz.edit)

\* Three times esc closes all dialogs and leads from any view back to the list.
WayBack ==
  LET Esc(mm) == HandleKey(mm, "esc")[1]
      back == Esc(Esc(Esc(m)))
  IN  back.view = "list" /\ back.dialog = "none"

\* The process whose details are shown, or will be when the logs are left, is one
\* the last list had.
DetailIsKnown == m.detail = None \/ m.detail \in DOMAIN m.cache

\* Whatever the steps taken back and forth, and whatever form a late answer has put
\* in place of another: what is sent has a name, a command and at least one instance.
SubmitsValid ==
  \A c \in BagToSet(out) : "do" \in DOMAIN c /\ c.do \in {"create", "update"} =>
    c.name > 0 /\ c.args # <<>> /\ c.scale >= 1

\* While logs are looked at a timer runs that refreshes them.
LogsRefresh == m.view = "logs" => logTicks > 0

\* When the logs are left for good the timers end, however many there were.
LogTicksEnd == <>[](m.view # "logs" /\ ~m.quitting) => <>[](logTicks = 0)

\* When nothing changes any more the UI shows what is, however late and in
\* whatever order the answers came.
ShowsWhatIs ==
  (<>[][FALSE]_procs /\ []~m.quitting) => <>[](m.cache = procs)

\* The parts of the UI fit together: the selected row with the rows drawn on the
\* processes tab, a dialog with the view under it, the details and the logs with what
\* is refreshed, and no view or dialog is without a way back.
UiConsistent ==
  /\ TypeOK /\ ProcessRowShown /\ MovesShow /\ OnlyFormHidesDialog
  /\ WayBack /\ DetailIsKnown /\ LogsRefresh
=============================================================================
