------------------------------ MODULE ProcessLog ------------------------------
(***************************************************************************)
(* The output of a process on its way to the log (internal/logger): a      *)
(* ProcessWriter that cuts it into lines, joins lines to entries, filters  *)
(* them and keeps the newest in a ring buffer that the API reads.          *)
(*                                                                         *)
(* A supervised process has a writer per stream, and new ones whenever it  *)
(* is started (supervisor.go, startInstance).  A scheduled process has one *)
(* for both streams and all executions (schedule/executor.go); os/exec     *)
(* copies each stream in a goroutine of its own, so that two calls of      *)
(* Write can overlap, and a writer has no lock.  Write is modelled in the  *)
(* steps between which the goroutines can meet; what the race does to the  *)
(* memory of a slice beyond that is not.                                   *)
(*                                                                         *)
(* The process prints lines in pieces.  A piece has the number of its      *)
(* line, whether it matches the multiline pattern, the most severe level   *)
(* whose pattern it matches, whether it matches an exclude pattern and an  *)
(* include pattern, whether it has no text, and whether it ends the line.  *)
(* JSON and redaction are off: they change text and level of an entry.     *)
(***************************************************************************)
EXTENDS Integers, Sequences, FiniteSets, SequencesExt

CONSTANTS
  Scenario    \* the situations: scheduled or not, the streams printed on, are
              \* lines joined (multiline, with a pattern) and empty entries
              \* passed on (blanks: not multiline), maxLines, the ring's size,
              \* the lines printed (at most, of which kinds, in halves),
              \* minLevel, are there include patterns, is level detection on
              \* and its default level, and how often the process is started

VARIABLES
  conf,       \* the situation
  proc,       \* the process: running, ending, exited (Wait has returned)
  runs,       \* how often it was started
  printed,    \* lines begun so far
  open,       \* the kind of the line begun and not ended on each stream, if any
  buf,        \* ProcessWriter.buffer
  lines,      \* MultilineBuffer.lines
  old,        \* the multiline timeout has passed since startTime
  ring,       \* LogBuffer: entries, index, full
  copier,     \* the goroutine of each stream
  wrote,      \* what each writer was given, in order (for the properties)
  entries,    \* what it has made of it, kept or filtered out (likewise)
  logged,     \* what was added to its ring (likewise)
  raced,      \* two calls of Write overlapped (likewise)
  clock       \* entries made so far: the timestamp of the next

vars == <<conf, proc, runs, printed, open, buf, lines, old, ring, copier, wrote, entries,
          logged, raced, clock>>

Stream == {"stdout", "stderr"}
Writer == {"stdout", "stderr", "combined"}

WriterOf(st) == IF conf.scheduled THEN "combined" ELSE st

Closed == [closed |-> TRUE]
NoEntry == [toks |-> <<>>, t |-> -1, event |-> FALSE]

Severity == [debug |-> 0, info |-> 1, warn |-> 2, error |-> 3]

Kinds == [start : BOOLEAN, sev : DOMAIN Severity \cup {"none"}, noise : BOOLEAN,
          wanted : BOOLEAN, blank : BOOLEAN]

(* What the configuration guarantees: SetDefaults and NewMultilineBuffer   *)
(* make max_lines 100 when it is 0 (a negative one, which nothing refuses, *)
(* cuts like 1), NewLogBuffer makes a size below 1 a default, parseLevel   *)
(* knows four levels, of which info is the default.                        *)
ASSUME LogAssumption ==
  \A c \in Scenario :
    /\ c.scheduled \in BOOLEAN /\ c.multiline \in BOOLEAN /\ c.halves \in BOOLEAN
    /\ c.blanks \in BOOLEAN /\ c.include \in BOOLEAN /\ c.detects \in BOOLEAN
    /\ c.streams \subseteq Stream /\ c.kinds \subseteq Kinds
    /\ c.maxLines \in Nat \ {0} /\ c.size \in Nat \ {0} /\ c.runs \in Nat \ {0}
    /\ c.max \in Nat /\ c.minLevel \in 0..3 /\ c.default \in 0..3

NewRing == [slots |-> [i \in 0..(conf.size - 1) |-> NoEntry], index |-> 0, full |-> FALSE]

Idle == [at |-> "idle", scanned |-> <<>>, rest |-> <<>>]

-----------------------------------------------------------------------------
(* Pure parts                                                              *)

(* bufio.Scanner over the whole buffer: a token ends with a newline, and   *)
(* the last one also without.                                              *)
Tokens(pieces) ==
  LET toks[i \in 0..Len(pieces)] ==
        IF i = 0 THEN <<>>
        ELSE LET before == toks[i - 1]
             IN IF before = <<>> \/ Last(Last(before)).nl
                THEN Append(before, <<pieces[i]>>)
                ELSE Append(Front(before), Append(Last(before), pieces[i]))
  IN toks[Len(pieces)]

(* LevelDetector.Detect, the most severe first, and the configured default *)
(* if nothing is found.                                                    *)
Detect(toks) ==
  LET found == {p.sev : p \in UNION {ToSet(k) : k \in ToSet(toks)}} \ {"none"}
      worst == CHOOSE s \in found : \A o \in found : Severity[o] <= Severity[s]
  IN IF found = {} THEN conf.default ELSE Severity[worst]

(* processEntry: without a detector everything is info.                    *)
LevelOf(toks) == IF conf.detects THEN Detect(toks) ELSE Severity["info"]

Noisy(toks) == \E k \in ToSet(toks) : \E p \in ToSet(k) : p.noise
Wanted(toks) == \E k \in ToSet(toks) : \E p \in ToSet(k) : p.wanted

(* LogFilters.ShouldLog                                                    *)
ShouldLog(toks) ==
  /\ LevelOf(toks) >= conf.minLevel
  /\ ~Noisy(toks)
  /\ conf.include => Wanted(toks)

(* Write, processLine and Flush pass on no entry without text if multiline *)
(* is on; two lines have at least the newline between them.                *)
Empty(toks) == Len(toks) = 1 /\ \A p \in ToSet(toks[1]) : p.blank
PassedOn(toks) == conf.blanks \/ ~Empty(toks)

(* LogBuffer.Add                                                           *)
RingAddLate(r, e) ==
  LET next == r.index + 1
  IN [slots |-> [r.slots EXCEPT ![r.index] = e],
      index |-> IF next >= conf.size THEN 0 ELSE next,
      full |-> r.full \/ (next > conf.size)]

RingAdd(r, e) ==
  LET next == r.index + 1
  IN [slots |-> [r.slots EXCEPT ![r.index] = e],
      index |-> IF next >= conf.size THEN 0 ELSE next,
      full |-> r.full \/ next >= conf.size]

Slots(r, from, to) == [i \in 1..(to - from) |-> r.slots[from + i - 1]]

(* LogBuffer.GetAll and GetRecent                                          *)
GetAll(r) ==
  IF r.full THEN Slots(r, r.index, conf.size) \o Slots(r, 0, r.index)
            ELSE Slots(r, 0, r.index)

GetRecent(r, limit) ==
  LET count == IF r.full THEN conf.size ELSE r.index
      n == IF limit > count THEN count ELSE limit
  IN CASE ~r.full -> Slots(r, r.index - n, r.index)
       [] r.full /\ n <= r.index -> Slots(r, r.index - n, r.index)
       [] r.full /\ n > r.index ->
            Slots(r, conf.size - (n - r.index), conf.size) \o Slots(r, 0, r.index)

Newest(s, n) == IF Len(s) <= n THEN s ELSE SubSeq(s, Len(s) - n + 1, Len(s))

Newer(es, e) == {f \in es : f.t > e.t}

(* Supervisor.GetLogs and ProcessExecutor.GetLogs: newest first.           *)
GetLogs(limit) ==
  LET ws == IF conf.scheduled THEN {"combined"} ELSE Stream
      all == UNION {ToSet(GetRecent(ring[w], limit)) : w \in ws}
      sorted == [n \in 1..Cardinality(all) |->
                   CHOOSE e \in all : Cardinality(Newer(all, e)) = n - 1]
  IN SubSeq(sorted, 1, IF Len(sorted) > limit THEN limit ELSE Len(sorted))

-----------------------------------------------------------------------------
Init ==
  /\ conf \in Scenario
  /\ proc = "running" /\ runs = 1 /\ printed = 0 /\ clock = 0
  /\ open = [st \in Stream |-> Closed]
  /\ buf = [w \in Writer |-> <<>>]
  /\ lines = [w \in Writer |-> <<>>]
  /\ old = [w \in Writer |-> FALSE]
  /\ ring = [w \in Writer |-> NewRing]
  /\ copier = [st \in Stream |-> Idle]
  /\ wrote = [w \in Writer |-> <<>>]
  /\ entries = [w \in Writer |-> <<>>]
  /\ logged = [w \in Writer |-> <<>>]
  /\ raced = [w \in Writer |-> FALSE]

(* An entry is passed on, and processEntry filters it.                     *)
Enter(w, toks) ==
  LET e == [toks |-> toks, t |-> clock, event |-> FALSE]
  IN /\ entries' = [entries EXCEPT ![w] = Append(@, toks)]
     /\ clock' = clock + 1
     /\ IF PassedOn(toks) /\ ShouldLog(toks)
        THEN /\ ring' = [ring EXCEPT ![w] = RingAdd(@, e)]
             /\ logged' = [logged EXCEPT ![w] = Append(@, e)]
        ELSE UNCHANGED <<ring, logged>>

(* MultilineBuffer.Add within processLine, for the line tok.               *)
AddLineJoined(w, tok) ==
  LET more == Append(lines[w], tok)
  IN \/ /\ conf.multiline /\ Len(more) >= conf.maxLines
        /\ Enter(w, more)
        /\ lines' = [lines EXCEPT ![w] = <<>>]
        /\ old' = [old EXCEPT ![w] = FALSE]
     \/ /\ conf.multiline /\ Len(more) < conf.maxLines
        /\ lines' = [lines EXCEPT ![w] = more]
        /\ old' = [old EXCEPT ![w] = @ /\ lines[w] # <<>>]
        /\ UNCHANGED <<entries, ring, logged, clock>>

AddLine(w, tok) ==
  LET starts == tok[1].start
      more == Append(lines[w], tok)
  IN \/ /\ ~conf.multiline
        /\ Enter(w, <<tok>>)
        /\ UNCHANGED <<lines, old>>
     \/ /\ conf.multiline /\ starts /\ lines[w] # <<>>
        /\ Enter(w, lines[w])
        /\ lines' = [lines EXCEPT ![w] = <<tok>>]
        /\ old' = [old EXCEPT ![w] = FALSE]
     \/ /\ conf.multiline /\ ~(starts /\ lines[w] # <<>>)
        /\ Len(more) >= conf.maxLines
        /\ Enter(w, more)
        /\ lines' = [lines EXCEPT ![w] = <<>>]
        /\ old' = [old EXCEPT ![w] = FALSE]
     \/ /\ conf.multiline /\ ~(starts /\ lines[w] # <<>>)
        /\ Len(more) < conf.maxLines
        /\ lines' = [lines EXCEPT ![w] = more]
        /\ old' = [old EXCEPT ![w] = @ /\ lines[w] # <<>>]
        /\ UNCHANGED <<entries, ring, logged, clock>>

FlushLines(w) ==
  /\ Enter(w, lines[w])
  /\ lines' = [lines EXCEPT ![w] = <<>>]
  /\ old' = [old EXCEPT ![w] = FALSE]

-----------------------------------------------------------------------------
(* The process prints                                                      *)

Piece(kind, n, first, ends) ==
  [line |-> n, start |-> first /\ kind.start, sev |-> kind.sev, noise |-> kind.noise,
   wanted |-> kind.wanted, blank |-> kind.blank, nl |-> ends]

(* The newline of a line whose text has been read before.                  *)
Newline(n) ==
  [line |-> n, start |-> FALSE, sev |-> "none", noise |-> FALSE, wanted |-> FALSE,
   blank |-> TRUE, nl |-> TRUE]

(* The rest of the line begun before, if any, and up to one line more, of  *)
(* which the end may be missing.                                           *)
Rests(st) ==
  IF open[st] = Closed THEN {<<>>}
  ELSE {<<Piece(open[st], printed, FALSE, TRUE)>>, <<Newline(printed)>>}
Chunks(rest) ==
  LET Begun == IF printed < conf.max THEN conf.kinds ELSE {}
      WithLine(k, ends) == [pieces |-> Append(rest, Piece(k, printed + 1, TRUE, ends)),
                            open |-> IF ends THEN Closed ELSE k, new |-> 1]
  IN  (IF rest = <<>> THEN {} ELSE {[pieces |-> rest, open |-> Closed, new |-> 0]})
      \cup {WithLine(k, TRUE) : k \in Begun}
      \cup {WithLine(k, FALSE) : k \in {l \in Begun : conf.halves /\ ~l.blank}}

(* The copying goroutine calls Write with what it read: buffer.Write(p).   *)
Write(st) ==
  /\ proc = "running"
  /\ st \in conf.streams /\ copier[st].at = "idle"
  /\ \E rest \in Rests(st) : \E c \in Chunks(rest) :
       LET w == WriterOf(st)
       IN /\ buf' = [buf EXCEPT ![w] = @ \o c.pieces]
          /\ wrote' = [wrote EXCEPT ![w] = @ \o c.pieces]
          /\ open' = [open EXCEPT ![st] = c.open]
          /\ printed' = printed + c.new
          /\ raced' = [raced EXCEPT ![w] = @ \/ \E o \in Stream : WriterOf(o) = w /\ copier[o].at # "idle"]
  /\ copier' = [copier EXCEPT ![st].at = "scan"]
  /\ UNCHANGED <<conf, proc, runs, lines, old, ring, entries, logged, clock>>

(* The scanner reads the whole buffer ...                                  *)
ScanFirst(st) ==
  /\ copier[st].at = "scan"
  /\ LET w == WriterOf(st)
         toks == Tokens(buf[w])
     IN /\ copier' = [copier EXCEPT ![st] =
              [@ EXCEPT !.at = "line", !.scanned = IF toks = <<>> THEN <<>> ELSE <<toks[1]>>]]
        /\ buf' = [buf EXCEPT ![w] = <<>>]
  /\ UNCHANGED <<conf, proc, runs, printed, open, lines, old, ring, wrote, entries, logged,
                 raced, clock>>

Scan(st) ==
  /\ copier[st].at = "scan"
  /\ LET w == WriterOf(st)
     IN /\ copier' = [copier EXCEPT ![st] = [@ EXCEPT !.at = "line", !.scanned = Tokens(buf[w])]]
        /\ buf' = [buf EXCEPT ![w] = <<>>]
  /\ UNCHANGED <<conf, proc, runs, printed, open, lines, old, ring, wrote, entries, logged,
                 raced, clock>>

(* ... and every token is a line for processLine.                          *)
ProcessLine(st) ==
  /\ copier[st].at = "line" /\ copier[st].scanned # <<>>
  /\ AddLine(WriterOf(st), Head(copier[st].scanned))
  /\ copier' = [copier EXCEPT ![st].scanned = SubSeq(@, 2, Len(@))]
  /\ UNCHANGED <<conf, proc, runs, printed, open, buf, wrote, raced>>

(* ShouldFlush is asked here only.                                         *)
CheckTimeout(st) ==
  /\ copier[st].at = "line" /\ copier[st].scanned = <<>>
  /\ LET w == WriterOf(st)
     IN IF conf.multiline /\ lines[w] # <<>> /\ old[w]
        THEN FlushLines(w)
        ELSE UNCHANGED <<lines, old, entries, ring, logged, clock>>
  /\ copier' = [copier EXCEPT ![st].at = "keep"]
  /\ UNCHANGED <<conf, proc, runs, printed, open, buf, wrote, raced>>

(* remaining takes what is in the buffer, and becomes the buffer.          *)
Keep(st) ==
  /\ copier[st].at = "keep"
  /\ copier' = [copier EXCEPT ![st] = [@ EXCEPT !.at = "swap", !.rest = buf[WriterOf(st)]]]
  /\ UNCHANGED <<conf, proc, runs, printed, open, buf, lines, old, ring, wrote, entries,
                 logged, raced, clock>>

Swap(st) ==
  /\ copier[st].at = "swap"
  /\ buf' = [buf EXCEPT ![WriterOf(st)] = copier[st].rest]
  /\ copier' = [copier EXCEPT ![st] = Idle]
  /\ UNCHANGED <<conf, proc, runs, printed, open, lines, old, ring, wrote, entries, logged,
                 raced, clock>>

(* The multiline timeout passes.                                           *)
Age(w) ==
  /\ lines[w] # <<>> /\ ~old[w]
  /\ old' = [old EXCEPT ![w] = TRUE]
  /\ UNCHANGED <<conf, proc, runs, printed, open, buf, lines, ring, copier, wrote, entries,
                 logged, raced, clock>>

-----------------------------------------------------------------------------
(* The process ends and is started again                                   *)

End ==
  /\ proc = "running"
  /\ proc' = "ending"
  /\ UNCHANGED <<conf, runs, printed, open, buf, lines, old, ring, copier, wrote, entries,
                 logged, raced, clock>>

AddEvent(w) ==
  LET e == [toks |-> <<>>, t |-> clock, event |-> TRUE]
  IN /\ ring' = [ring EXCEPT ![w] = RingAdd(@, e)]
     /\ logged' = [logged EXCEPT ![w] = Append(@, e)]
     /\ clock' = clock + 1

Copied == \A st \in Stream : copier[st].at = "idle"

(* monitorInstance: Wait returns when all is copied, and nothing else is   *)
(* done with the writers.                                                  *)
WaitReturns ==
  /\ proc = "ending" /\ Copied /\ ~conf.scheduled
  /\ proc' = "exited"
  /\ UNCHANGED <<conf, runs, printed, open, buf, lines, old, ring, copier, wrote, entries,
                 logged, raced, clock>>

(* Execute: Run returns, then Flush of the line begun and of the entry.    *)
RunReturns ==
  /\ proc = "ending" /\ Copied /\ conf.scheduled
  /\ \/ /\ buf["combined"] = <<>> /\ lines["combined"] = <<>>
        /\ proc' = "exited"
        /\ AddEvent("combined")
        /\ UNCHANGED <<buf, lines, old, entries>>
     \/ /\ buf["combined"] # <<>>
        /\ AddLine("combined", buf["combined"])
        /\ buf' = [buf EXCEPT !["combined"] = <<>>]
        /\ UNCHANGED proc
     \/ /\ buf["combined"] = <<>> /\ lines["combined"] # <<>>
        /\ FlushLines("combined")
        /\ UNCHANGED <<buf, proc>>
  /\ UNCHANGED <<conf, runs, printed, open, copier, wrote, raced>>

StartAgain ==
  /\ proc = "exited" /\ runs < conf.runs
  /\ runs' = runs + 1
  /\ proc' = "running"
  /\ open' = [st \in Stream |-> Closed]
  /\ \/ /\ conf.scheduled
        /\ AddEvent("combined")
        /\ UNCHANGED <<buf, lines, old, wrote, entries, raced>>
     \/ /\ ~conf.scheduled
        /\ buf' = [w \in Writer |-> <<>>]
        /\ lines' = [w \in Writer |-> <<>>]
        /\ old' = [w \in Writer |-> FALSE]
        /\ ring' = [w \in Writer |-> NewRing]
        /\ wrote' = [w \in Writer |-> <<>>]
        /\ entries' = [w \in Writer |-> <<>>]
        /\ logged' = [w \in Writer |-> <<>>]
        /\ raced' = [w \in Writer |-> FALSE]
        /\ UNCHANGED clock
  /\ UNCHANGED <<conf, printed, copier>>

Copy(st) == Scan(st) \/ ProcessLine(st) \/ CheckTimeout(st) \/ Keep(st) \/ Swap(st)

Next ==
  \/ \E st \in Stream : Write(st) \/ Copy(st)
  \/ \E w \in Writer : Age(w)
  \/ End \/ WaitReturns \/ RunReturns \/ StartAgain

Spec == Init /\ [][Next]_vars

-----------------------------------------------------------------------------
(* Properties                                                              *)

(* Every variable keeps its type.                                          *)
TypeOK ==
  /\ conf \in Scenario
  /\ proc \in {"running", "ending", "exited"} /\ runs \in 1..conf.runs
  /\ printed \in 0..conf.max
  /\ \A w \in Writer :
       /\ ring[w].index \in 0..(conf.size - 1)
       /\ \A i \in DOMAIN ring[w].slots : (ring[w].slots[i] # NoEntry) = (ring[w].full \/ i < ring[w].index)
       /\ conf.multiline => Len(lines[w]) < conf.maxLines
       /\ ~conf.multiline => lines[w] = <<>>
       /\ old[w] => lines[w] # <<>>
  /\ \A st \in Stream : copier[st].at \in {"idle", "scan", "line", "keep", "swap"}

Busy(w) == {st \in Stream : WriterOf(st) = w /\ copier[st].scanned # <<>>}

(* What a process prints is in the entries made of it or still in one of   *)
(* the buffers, once and in order, as long as no two calls of Write on its *)
(* writer have overlapped.                                                 *)
NothingLost ==
  \A w \in Writer : ~raced[w] =>
    wrote[w] =
      FlattenSeq(FlattenSeq(entries[w]))
      \o FlattenSeq(lines[w])
      \o (IF Busy(w) = {} THEN <<>>
          ELSE FlattenSeq(copier[CHOOSE st \in Busy(w) : TRUE].scanned))
      \o buf[w]

(* The ring, however often it has wrapped around, holds the newest entries *)
(* and gives any number of them in their order.                            *)
RingIsTail ==
  \A w \in Writer :
    /\ GetAll(ring[w]) = Newest(logged[w], conf.size)
    /\ \A n \in 1..(conf.size + 1) :
         GetRecent(ring[w], n) = Newest(logged[w], IF n > conf.size THEN conf.size ELSE n)

(* What the API shows of a process are the newest entries of its streams   *)
(* together, though each stream is cut to the limit first.                 *)
NewestShown ==
  \A n \in 1..(conf.size + 1) :
    LET shown == GetLogs(n)
        kept == UNION {ToSet(GetAll(ring[w])) : w \in Writer}
    IN /\ \A i \in 1..(Len(shown) - 1) : shown[i].t > shown[i + 1].t
       /\ \A e \in kept \ ToSet(shown) : Len(shown) = n /\ \A f \in ToSet(shown) : e.t < f.t

(* A line that matches the pattern begins an entry, wherever it comes from *)
(* and whatever was flushed before.                                        *)
StartsBegin ==
  conf.multiline =>
    \A w \in Writer : \A e \in ToSet(entries[w]) :
      /\ \A i \in 2..Len(e) : ~e[i][1].start
      /\ Len(e) <= conf.maxLines

(* A line that shows an error is kept, with the lines it was joined to,    *)
(* unless an exclude pattern matches that entry or no include pattern of   *)
(* those there are does.  That needs level detection, which is off unless  *)
(* configured, or a minimum level of at most info.                         *)
ShowsError(e) == \E k \in ToSet(e) : \E p \in ToSet(k) : p.sev = "error" /\ ~p.blank
ErrorsKept ==
  conf.detects \/ conf.minLevel <= Severity["info"] =>
    \A w \in Writer : \A e \in ToSet(entries[w]) :
      ShowsError(e) =>
        \/ Noisy(e)
        \/ conf.include /\ ~Wanted(e)
        \/ \E l \in ToSet(logged[w]) : l.toks = e

(* After an execution of a scheduled process nothing of it is in a buffer: *)
(* the next one begins with its own lines.                                 *)
ExecutionFlushed ==
  conf.scheduled /\ proc = "exited" =>
    buf["combined"] = <<>> /\ lines["combined"] = <<>>

(* process_writer.go says of Flush: "Must be called when process exits".   *)
ExitFlushed == proc = "exited" => \A w \in Writer : buf[w] = <<>> /\ lines[w] = <<>>

(* Nothing of the output is lost, doubled or kept back longer than it must. *)
OutputKept == NothingLost /\ ExecutionFlushed

(* The entries are the right ones: cut where they should be, and errors     *)
(* kept as far as the configuration lets them be told.                      *)
EntriesRight == StartsBegin /\ ErrorsKept

(* The ring and the API show the newest of what was logged.                 *)
RingShows == TypeOK /\ RingIsTail /\ NewestShown
=============================================================================
