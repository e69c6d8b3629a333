----------------------------- MODULE MCProcessLog -----------------------------
(* TLC instances of ProcessLog: six situations. *)
EXTENDS ProcessLog

Kind(b, s) == [start |-> b, sev |-> s, noise |-> FALSE, wanted |-> FALSE, blank |-> FALSE]
Plain == Kind(FALSE, "none")
Blank == [Plain EXCEPT !.blank = TRUE]

Base == [scheduled |-> FALSE, streams |-> {"stdout"}, multiline |-> FALSE, blanks |-> TRUE, maxLines |-> 2,
         size |-> 2, max |-> 4, kinds |-> {Plain}, halves |-> TRUE, minLevel |-> 0, include |-> FALSE,
         detects |-> TRUE, default |-> 1, runs |-> 1]
Joined == [Base EXCEPT !.multiline = TRUE, !.blanks = FALSE]

\* Two streams and a ring that wraps around.
Streams == [Base EXCEPT !.streams = Stream, !.max = 5, !.halves = FALSE]
\* Stack traces: lines of every kind, joined, cut and filtered.
Traces == [Joined EXCEPT !.maxLines = 3, !.minLevel = 2, !.halves = FALSE,
             !.kinds = {Kind(TRUE, "none"), Kind(TRUE, "error"), Plain, Kind(FALSE, "warn"),
                        [Plain EXCEPT !.noise = TRUE]}]
\* Include patterns and empty lines, with and without level detection, for each
\* minimum level and default level.
Chosen == {[Joined EXCEPT !.max = 3, !.halves = FALSE, !.include = TRUE, !.detects = d, !.minLevel = m, !.default = l,
              !.kinds = {[Kind(TRUE, "none") EXCEPT !.wanted = TRUE], Kind(FALSE, "error"), Blank}] :
             d \in BOOLEAN, m \in {1, 3}, l \in {0, 3}}
\* Multiline without a pattern: nothing is joined, and empty lines go.
Unjoined == [Base EXCEPT !.blanks = FALSE, !.max = 3, !.kinds = {Kind(FALSE, "error"), Blank}]
\* Lines in halves, on the pipes of a process that is started twice.
Halves == [Joined EXCEPT !.max = 3, !.kinds = {Plain, Kind(TRUE, "none")}, !.runs = 2, !.size = 3]
\* The same for a scheduled process, whose two streams share a writer.
Jobs == [Halves EXCEPT !.scheduled = TRUE, !.streams = Stream, !.max = 2]

All == {Streams, Traces, Unjoined, Halves, Jobs} \cup Chosen
One == {Halves}
=============================================================================
