-------------------------------- MODULE MCTui --------------------------------
(* TLC instances of Tui: three processes of which the third has a schedule. *)
EXTENDS Tui

Names == 1..3
Jobs == {3}
TwoHeights == {1, 2}
\* A command of one argument, one of two, one with a space in an argument.
Configs == <<[args |-> <<Text(1)>>, scale |-> 1, restart |-> "always"],
             [args |-> <<Text(1), Text(1)>>, scale |-> 0, restart |-> "never"],
             [args |-> <<<<"x", " ", "x">>>>, scale |-> 2, restart |-> "on-failure"]>>

Base == [keys |-> {}, first |-> Names, states |-> [n \in Names |-> {}], changes |-> FALSE,
         comes |-> {}, lists |-> 1, max |-> 0, executions |-> 0, resizes |-> FALSE, fails |-> FALSE]

\* The lists: selection and scrolling while processes come and go.
Browse == [Base EXCEPT !.keys = {"1", "2", "3", "4", "k", "j", "G"}, !.comes = {1, 3},
             !.executions = 1, !.resizes = TRUE]
\* Two lists on their way, of which the older may come last.
Late == [Base EXCEPT !.first = {1, 2}, !.states = [n \in Names |-> {"running", "stopped"}],
           !.changes = TRUE, !.comes = {2}, !.lists = 2, !.fails = TRUE, !.keys = {"j", "enter", "q", "?"}]
\* Actions and dialogs: of a process, of a job, and with a form coming late.
Acts == [Base EXCEPT !.first = {1}, !.max = 1, !.states = [n \in Names |-> {"running", "stopped"}],
           !.keys = {"r", "s", "x", "d", "c", "y", "n", "1", "0", "backspace", "enter", "esc", "+"}]
Jobbing == [Base EXCEPT !.first = {3}, !.max = 1, !.keys = {"1", "2", "3", "4", "p", "t", "j", "R", "S", "enter", "esc"},
              !.states = [n \in Names |-> {"idle", "paused", "executing"}]]
Crossing == [Base EXCEPT !.first = {1}, !.max = 2, !.keys = {"e", "d", "c", "y", "enter", "esc", "?"}]
\* Views, one over the other.
Views == [Base EXCEPT !.first = {1, 2}, !.comes = {1}, !.max = 1,
            !.keys = {"l", "enter", "e", "q", "esc"}]
\* The form: its texts, and its choices.
Texts == [Base EXCEPT !.first = {2}, !.max = 1,
            !.keys = {"a", "e", "x", " ", "left", "right", "home", "end", "backspace", "delete",
                      "tab", "shift+tab", "q", "ctrl+c"}]
Choosing == [Base EXCEPT !.first = {2}, !.max = 1,
              !.keys = {"e", "backspace", "0", "2", "j", "k", "tab", "shift+tab"}]

All == {Browse, Late, Acts, Jobbing, Crossing, Views, Texts, Choosing}
=============================================================================
