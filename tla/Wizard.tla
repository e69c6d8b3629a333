------------------------------- MODULE Wizard -------------------------------
(***************************************************************************)
(* The five-step form of the terminal UI that adds or edits a process      *)
(* (internal/tui/model.go and update.go): name, command, scale, restart    *)
(* policy, preview.  As in the code the steps are functions from the state *)
(* of the form, a record w, and a key to the next state.                   *)
(* A text is a sequence of "x" (any printable character but a space) and   *)
(* " "; a process name n is the text of n times "x".                       *)
(***************************************************************************)
EXTENDS Integers, Sequences, SequencesExt

CONSTANTS
  MaxText,   \* bound: characters in a text field
  MaxDigits  \* bound: digits in the scale field (an int holds them all)

Char == {"x", " "}
Digit == {"0", "1", "2"}   \* bound: of the ten digits
DigitValue == [d \in Digit |-> CASE d = "0" -> 0 [] d = "1" -> 1 [] d = "2" -> 2]

Text(n) == [i \in 1..n |-> "x"]

\* strings.Join(command, " ") and strings.Fields: an argument with a space in
\* it comes back as two.
Join(args) ==
  LET joined[i \in 0..Len(args)] ==
        IF i = 0 THEN <<>> ELSE IF i = 1 THEN args[1] ELSE joined[i - 1] \o <<" ">> \o args[i]
  IN  joined[Len(args)]
Fields(line) ==
  LET words[i \in 0..Len(line)] ==
        IF i = 0 THEN <<>>
        ELSE IF line[i] = " " THEN words[i - 1]
        ELSE IF words[i - 1] = <<>> \/ line[i - 1] = " " THEN Append(words[i - 1], <<line[i]>>)
        ELSE Append(Front(words[i - 1]), Append(Last(words[i - 1]), line[i]))
  IN  words[Len(line)]

\* fmt.Sscanf(input, "%d").
Scanned(digits) ==
  LET value[i \in 0..Len(digits)] ==
        IF i = 0 THEN 0 ELSE 10 * value[i - 1] + DigitValue[digits[i]]
  IN  value[Len(digits)]

\* resetWizard.
Blank ==
  [step |-> 0, name |-> <<>>, line |-> <<>>, cursor |-> 0, scale |-> 1, input |-> <<"1">>,
   restart |-> "always", bad |-> FALSE, edit |-> FALSE, locked |-> FALSE]

\* startEditWizard: a configured scale of 0 shows as 1.
EditForm(n, cfg) ==
  [Blank EXCEPT !.edit = TRUE, !.locked = TRUE, !.step = 1, !.name = Text(n),
     !.line = Join(cfg.args), !.cursor = Len(Join(cfg.args)), !.restart = cfg.restart,
     !.scale = IF cfg.scale > 0 THEN cfg.scale ELSE 1,
     !.input = IF cfg.scale > 0 THEN <<CHOOSE d \in Digit : DigitValue[d] = cfg.scale>> ELSE <<"1">>]

-----------------------------------------------------------------------------
(* Steps *)

Valid(w) ==
  CASE w.step = 0 -> w.locked \/ (w.name # <<>> /\ ~Contains(w.name, " "))
    [] w.step = 1 -> \E i \in DOMAIN w.line : w.line[i] # " "
    [] w.step = 2 -> w.scale >= 1
    [] OTHER -> TRUE

AtEnd(w) ==
  [w EXCEPT !.cursor = CASE w.step = 0 -> Len(w.name) [] w.step = 1 -> Len(w.line) [] OTHER -> 0]

\* Mutant: only a new process is checked.
AdvanceEdited(w) ==
  IF w.edit \/ Valid(w) THEN AtEnd([w EXCEPT !.bad = FALSE, !.step = @ + 1])
  ELSE [w EXCEPT !.bad = TRUE]

\* advanceWizardStep, called below the last step.
Advance(w) ==
  IF Valid(w) THEN AtEnd([w EXCEPT !.bad = FALSE, !.step = @ + 1])
  ELSE [w EXCEPT !.bad = TRUE]

\* previousWizardStep.
Back(w) == IF w.step > 0 THEN AtEnd([w EXCEPT !.step = @ - 1, !.bad = FALSE]) ELSE w

-----------------------------------------------------------------------------
(* Fields *)

\* Keys in a text field: <<text, cursor>>.  What is cut and moved is reckoned
\* from the cursor within the text, the cursor that is kept is not clamped.
Typed(text, cursor, key, chars) ==
  LET c == IF cursor > Len(text) THEN Len(text) ELSE cursor IN
  CASE key = "left" /\ c > 0 -> <<text, cursor - 1>>
    [] key = "right" /\ c < Len(text) -> <<text, cursor + 1>>
    [] key = "home" -> <<text, 0>>
    [] key = "end" -> <<text, Len(text)>>
    [] key = "backspace" /\ c > 0 -> <<RemoveAt(text, c), cursor - 1>>
    [] key = "delete" /\ c < Len(text) -> <<RemoveAt(text, c + 1), cursor>>
    [] key \in chars /\ Len(text) < MaxText -> <<InsertAt(text, c + 1, key), cursor + 1>>
    [] OTHER -> <<text, cursor>>

NameInput(w, key) ==
  LET t == Typed(w.name, w.cursor, key, {"x"})
  IN  IF w.locked THEN w ELSE [w EXCEPT !.name = t[1], !.cursor = t[2]]

CommandInput(w, key) ==
  LET t == Typed(w.line, w.cursor, key, Char) IN [w EXCEPT !.line = t[1], !.cursor = t[2]]

ScaleInput(w, key) ==
  IF key = "backspace" /\ w.input # <<>> THEN
    LET rest == Front(w.input)
    IN  [w EXCEPT !.input = rest, !.scale = IF rest = <<>> THEN 1 ELSE Scanned(rest)]
  ELSE IF key \in Digit /\ Len(w.input) < MaxDigits THEN
    [w EXCEPT !.input = Append(@, key), !.scale = Scanned(Append(w.input, key))]
  ELSE w

Policies == <<"always", "on-failure", "never">>
RestartInput(w, key) ==
  LET i == CHOOSE j \in 1..3 : Policies[j] = w.restart IN
  CASE key \in {"up", "k"} -> [w EXCEPT !.restart = Policies[((i + 1) % 3) + 1]]
    [] key \in {"down", "j"} -> [w EXCEPT !.restart = Policies[(i % 3) + 1]]
    [] OTHER -> w

\* The first lines of handleWizardKeys: a locked name is skipped, the cursor stays.
Skipped(w) == IF w.step = 0 /\ w.locked THEN [w EXCEPT !.step = 1] ELSE w

\* handleWizardKeys but for the submission.  Its "esc" is never reached:
\* handleKeyPress takes that key for itself.
WizardKey(v, key) ==
  LET w == Skipped(v) IN
  IF key \in {"tab", "enter"} THEN Advance(w)
  ELSE IF key = "shift+tab" THEN Back(w)
  ELSE CASE w.step = 0 -> NameInput(w, key)
         [] w.step = 1 -> CommandInput(w, key)
         [] w.step = 2 -> ScaleInput(w, key)
         [] w.step = 3 -> RestartInput(w, key)
         [] OTHER -> w

\* wizardProcessConfig and the values that executeWizardSubmit captures.
Submission(w) ==
  [do |-> IF w.edit THEN "update" ELSE "create", name |-> Len(w.name),
   args |-> Fields(w.line), scale |-> w.scale, restart |-> w.restart]
=============================================================================
