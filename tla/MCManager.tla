----------------------------- MODULE MCManager -----------------------------
(* TLC instances of Manager: eight situations. *)
EXTENDS Manager

P == [enabled |-> TRUE, deps |-> {}, scheduled |-> FALSE, checked |-> FALSE,
      initial |-> "running", cmd |-> 1, minor |-> 1]
Off == [P EXCEPT !.enabled = FALSE]
On(d) == [P EXCEPT !.deps = d]
File(c) == [ok |-> TRUE, procs |-> c]
Bad(c) == [ok |-> FALSE, procs |-> c]

\* A chain with readiness, a process that is not started, things that fail.
Chain == [initial |-> <<[P EXCEPT !.checked = TRUE], [On({1}) EXCEPT !.initial = "stopped"], On({1, 2})>>,
          files |-> {}, requests |-> {}, watch |-> FALSE, mortal |-> TRUE, failures |-> TRUE, timeouts |-> TRUE]
\* A scheduled process, and one that depends on it or not.
Cron == [initial |-> <<P, [P EXCEPT !.scheduled = TRUE]>>,
         files |-> {}, requests |-> {[op |-> "remove", name |-> 2]},
         watch |-> FALSE, mortal |-> TRUE, failures |-> FALSE, timeouts |-> TRUE]
\* The same with jobs that may run for ever.
CronEndless == [Cron EXCEPT !.timeouts = FALSE]
CronFirst == [initial |-> <<[P EXCEPT !.scheduled = TRUE], On({1})>>,
         files |-> {}, requests |-> {}, watch |-> FALSE, mortal |-> TRUE, failures |-> FALSE, timeouts |-> TRUE]
\* The file changes: a process changes, is disabled, comes or goes; the file is broken.
Watched == [initial |-> <<P, P>>,
            files |-> {File(<<Off, [P EXCEPT !.cmd = 2, !.minor = 2]>>), File(<<P>>), Bad(<<>>)},
            requests |-> {}, watch |-> TRUE, mortal |-> FALSE, failures |-> FALSE, timeouts |-> TRUE]
\* One caller at a time, on two processes.
Requests == [initial |-> <<P, Off>>, files |-> {},
             requests |-> [op : {"start", "stop", "restart", "remove"}, name : {1}]
                          \cup {[op |-> "update", name |-> 2, cfg |-> P], [op |-> "update", name |-> 2, cfg |-> Off],
                                [op |-> "add", name |-> 1, cfg |-> On({2})]},
             watch |-> FALSE, mortal |-> FALSE, failures |-> FALSE, timeouts |-> TRUE]
\* Processes that end, and are stopped and started.
Mortal == [initial |-> <<P, P>>, files |-> {},
           requests |-> [op : {"start", "stop", "restart"}, name : {1}],
           watch |-> FALSE, mortal |-> TRUE, failures |-> FALSE, timeouts |-> TRUE]
\* Requests with failures, and reloads asked for by a request.
Failing == [initial |-> <<P>>, files |-> {File(<<Off, P>>)},
            requests |-> {[op |-> "update", name |-> 1, cfg |-> [P EXCEPT !.cmd = 2]], [op |-> "remove", name |-> 1],
                          [op |-> "start", name |-> 1], [op |-> "reload", name |-> 1]},
            watch |-> FALSE, mortal |-> FALSE, failures |-> TRUE, timeouts |-> TRUE]

All == {Chain, Cron, CronEndless, CronFirst, Watched, Requests, Mortal, Failing}
=============================================================================
