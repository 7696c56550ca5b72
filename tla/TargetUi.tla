------------------------------- MODULE TargetUi -------------------------------
(***************************************************************************)
(* What Ui::target_ui (ui.rs) leaves on the terminal, for targets that run *)
(* one after the other.  Each stage has a heading and under it a window of *)
(* its last lines, which is redrawn by clearing rows and printing them     *)
(* again; nothing but counts says which rows those are.                    *)
(*                                                                         *)
(* A row stands for one row of the terminal: print_line clips what it is   *)
(* given.  The updates come as UpdateProtocol says, the lines of the       *)
(* streaming threads at any time once the first stage has begun.           *)
(***************************************************************************)
EXTENDS Updates, FiniteSets

CONSTANTS
  Targets,     \* how many targets run
  Window,      \* WINDOW_LENGTH
  Heights,     \* rows of the terminal above the cursor
  ErrorSizes,  \* how many lines a reported error has
  MaxLines     \* bound: lines of output per target

ASSUME TargetsAssumption == Targets \in Nat \ {0}
ASSUME WindowAssumption == Window \in Nat \ {0} /\ Heights \subseteq Nat \ {0}
ASSUME ErrorAssumption == ErrorSizes \subseteq Nat \ {0} /\ MaxLines \in Nat

VARIABLES
  term,         \* the terminal and --show-cmd, the same for all targets
  interactive,  \* \
  last,         \*  | of the updates: see UpdateProtocol
  hungUp,       \* /
  target,       \* the target that runs
  screen,       \* the rows printed and not cleared
  lines,        \* of the current stage
  expand,       \* the current stage is to be shown whole
  stages,       \* stages begun
  errors,       \* lines of an error that are still to be printed
  rc,           \* "none", "zero", or "other"
  before,       \* history: screen when the target began
  all,          \* history: every row that the target has had to show
  content       \* history: those of its last stage

historyVars == <<before, all, content>>
uiVars      == <<screen, lines, expand, stages, errors, rc>>
vars        == <<term, interactive, last, hungUp, target, uiVars, historyVars>>

Protocol == INSTANCE UpdateProtocol

\* Rows.
Heading(n) == <<"heading", n>>
Line(n)    == <<"line", n>>
Error(n)   == <<"error", n>>
Pass       == <<"PASS", 0>>
Failed     == <<"FAILED", 0>>
Row        == {"heading", "line", "error", "PASS", "FAILED"} \X Nat

Smaller(m, n) == IF m < n THEN m ELSE n
LastOf(s, n)  == SubSeq(s, Len(s) - n + 1, Len(s))

-----------------------------------------------------------------------------
(***************************************************************************)
(* Stage.                                                                  *)
(***************************************************************************)
\* The cursor does not go up past the top of the screen.
Cleared(rows, n) ==
  IF term.attended
    THEN SubSeq(rows, 1, Len(rows) - Smaller(n, Smaller(term.height, Len(rows))))
    ELSE rows

WindowSize(l) == Smaller(Len(l), IF term.attended THEN Window ELSE 1)

\* print_line.
\* Mutant: it clears a full window, even where less has been printed.
PrintLineFullWindow(row) ==
  /\ lines' = Append(lines, row)
  /\ screen' = Cleared(screen, Window) \o LastOf(lines', WindowSize(lines'))

PrintLine(row) ==
  /\ lines' = Append(lines, row)
  /\ screen' = Cleared(screen, WindowSize(lines)) \o LastOf(lines', WindowSize(lines'))

\* Drop.
\* Mutant: an expanded stage is cleared like any other.
DroppedFolded == Cleared(screen, WindowSize(lines))
Dropped ==
  Cleared(screen, WindowSize(lines)) \o (IF expand /\ term.attended THEN lines ELSE <<>>)

\* Stage::new, which drops the previous stage first.
\* Mutant: the previous stage is dropped last, as its comment warns.
NewStageFirst(heading) ==
  /\ screen' = Cleared(Append(screen, heading), WindowSize(lines))
  /\ lines' = <<>> /\ expand' = FALSE

NewStage(heading) ==
  /\ screen' = Append(Dropped, heading)
  /\ lines' = <<>> /\ expand' = FALSE

-----------------------------------------------------------------------------
(***************************************************************************)
(* target_ui.                                                              *)
(***************************************************************************)
\* The heading of the target is a stage of its own.
Init ==
  /\ term \in [attended : BOOLEAN, height : Heights, showCmd : BOOLEAN]
  /\ Protocol!Init
  /\ target = 1 /\ before = <<>> /\ screen = <<Heading(0)>>
  /\ lines = <<>> /\ expand = FALSE /\ stages = 0 /\ errors = 0 /\ rc = "zero"
  /\ all = <<Heading(0)>> /\ content = <<>>

\* An update is handled to its end, an error printed whole, before the next.
Ready == ~hungUp /\ errors = 0

\* What a line adds to what the target has to show.
Shows(row) == all' = Append(all, row) /\ content' = Append(content, row) /\ UNCHANGED before

Receive(update) ==
  /\ Ready /\ Protocol!Follows(last, update)
  /\ last' = update
  /\ UNCHANGED <<term, interactive, hungUp, target>>

ReceiveStart ==
  /\ \E v \in Starts : Receive(Update(v))
  /\ NewStage(Heading(stages + 1))
  /\ stages' = stages + 1
  /\ all' = Append(all, Heading(stages + 1)) /\ content' = <<>>
  /\ UNCHANGED <<errors, rc, before>>

\* A line of any stage goes to the current one.
ReceiveLine ==
  /\ Ready /\ stages > 0
  /\ Cardinality({i \in 1..Len(all) : all[i][1] = "line"}) < MaxLines
  /\ PrintLine(Line(Len(all))) /\ Shows(Line(Len(all)))
  /\ UNCHANGED <<term, interactive, last, hungUp, target, expand, stages, errors, rc>>

ReceiveEnd ==
  /\ \E v \in {"BootEnd", "SetupEnd"} : Receive(Update(v))
  /\ UNCHANGED <<uiVars, historyVars>>

ReceiveFailure ==
  /\ \E v \in Ends : Receive(Failure(v))
  /\ errors' \in ErrorSizes /\ rc' = "none"
  /\ UNCHANGED <<screen, lines, expand, stages, historyVars>>

ReceiveExit ==
  /\ \E code \in 0..1 :
       /\ Receive(Exited(code))
       /\ IF code = 0 THEN rc' = "zero" /\ UNCHANGED errors
                      ELSE rc' = "other" /\ errors' \in ErrorSizes
  /\ expand' = term.showCmd
  /\ UNCHANGED <<screen, lines, stages, historyVars>>

\* error_out_stage prints the error line by line and then expands the stage.
ErrorOut ==
  /\ errors > 0
  /\ PrintLine(Error(Len(all))) /\ Shows(Error(Len(all)))
  /\ errors' = errors - 1
  /\ expand' = (expand \/ errors' = 0)
  /\ UNCHANGED <<term, interactive, last, hungUp, target, stages, rc>>

\* The senders have hung up: drop the stage, then the verdict.  With show_cmd
\* there is none, and a run that could not be made has no code.
\* Mutant of FinalRows: the heading of the target is cleared with its stages'.
FinalRowsOneMore ==
  CASE rc = "zero" /\ ~term.showCmd -> Append(Cleared(Dropped, stages + 1), Pass)
    [] rc = "other" /\ ~term.showCmd -> Append(Dropped, Failed)
    [] OTHER -> Dropped

FinalRows ==
  CASE rc = "zero" /\ ~term.showCmd -> Append(Cleared(Dropped, stages), Pass)
    [] rc = "other" /\ ~term.showCmd -> Append(Dropped, Failed)
    [] OTHER -> Dropped

HangUp ==
  /\ Ready /\ Protocol!HangUp
  /\ screen' = FinalRows
  /\ lines' = <<>>
  /\ UNCHANGED <<term, target, expand, stages, errors, rc, historyVars>>

\* The next target has a channel and a UI of its own.
\* Mutant: the stages are counted on.
NextTargetCountsOn ==
  /\ hungUp /\ target < Targets
  /\ interactive' \in BOOLEAN /\ last' = NoUpdate /\ hungUp' = FALSE
  /\ target' = target + 1 /\ before' = screen /\ screen' = Append(screen, Heading(0))
  /\ expand' = FALSE /\ rc' = "zero"
  /\ all' = <<Heading(0)>> /\ content' = <<>>
  /\ UNCHANGED <<term, lines, stages, errors>>

NextTarget ==
  /\ hungUp /\ target < Targets
  /\ interactive' \in BOOLEAN /\ last' = NoUpdate /\ hungUp' = FALSE
  /\ target' = target + 1 /\ before' = screen /\ screen' = Append(screen, Heading(0))
  /\ expand' = FALSE /\ stages' = 0 /\ rc' = "zero"
  /\ all' = <<Heading(0)>> /\ content' = <<>>
  /\ UNCHANGED <<term, lines, errors>>

Return == hungUp /\ target = Targets /\ UNCHANGED vars

Next == \/ ReceiveStart \/ ReceiveLine \/ ReceiveEnd \/ ReceiveFailure \/ ReceiveExit
        \/ ErrorOut \/ HangUp \/ NextTarget \/ Return

Spec == Init /\ [][Next]_vars

-----------------------------------------------------------------------------
(***************************************************************************)
(* Properties.                                                             *)
(***************************************************************************)
\* The headings of a target, down to that of its current stage.
Headings == [i \in 1..stages+1 |-> Heading(i - 1)]

\* The terminal has room for a window and the headings of a target.
Roomy == term.height >= Window /\ term.height >= 3

TypeOK ==
  /\ term \in [attended : BOOLEAN, height : Heights, showCmd : BOOLEAN]
  /\ last \in Output /\ hungUp \in BOOLEAN /\ interactive \in BOOLEAN
  /\ target \in 1..Targets
  /\ expand \in BOOLEAN /\ rc \in {"none", "zero", "other"}
  /\ stages \in 0..3 /\ errors \in Nat
  /\ {screen, lines, before, all, content} \subseteq Seq(Row)

\* While a target runs the screen shows, below what earlier targets left, its
\* headings and the last lines of its current stage, whatever was drawn and
\* cleared to get there; without a terminal every row is passed through once.
ScreenShowsRun ==
  ~hungUp /\ Roomy =>
    screen = IF term.attended
               THEN before \o Headings \o LastOf(content, Smaller(Len(content), Window))
               ELSE before \o all

\* What the updates said of the target, of whatever the UI made of them.
Passed == last.ok /\ last.code = 0
RanAll == last.ok /\ last.variant = "CommandEnd"

\* A target that passes leaves its heading and PASS, and nothing of its stages.
PassLeavesTwoRows ==
  hungUp /\ Passed /\ term.attended /\ ~term.showCmd /\ Roomy =>
    screen = before \o <<Heading(0), Pass>>

\* One that fails leaves every line of the stage it failed in, those included
\* that had left the window and those that came after the failure.
FailureShownWhole ==
  hungUp /\ ~Passed /\ term.attended /\ Roomy =>
    screen = before \o Headings \o content
               \o (IF RanAll /\ ~term.showCmd THEN <<Failed>> ELSE <<>>)

\* No target clears a row that an earlier one left, on a terminal of any height
\* and in any order of the updates.
EarlierRowsStay == Len(before) <= Len(screen) /\ SubSeq(screen, 1, Len(before)) = before
=============================================================================
