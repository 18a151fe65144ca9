-------------------------------- MODULE Top --------------------------------
(***************************************************************************)
(* `nats top` (cli/top_command.go, top/top.go, top/toputils.go): a          *)
(* goroutine samples a server at intervals and hands each sample over an    *)
(* unbuffered channel to another one, which writes the text of the screen   *)
(* and tells the user interface, over a second unbuffered channel, to draw  *)
(* it.  Nothing protects that text, nor the options that the user changes   *)
(* while they are read.                                                     *)
(*                                                                         *)
(* An operator whose comment says "Mutant" is no part of the model: it is   *)
(* the operator it names with a plausible bug, which a property refutes.   *)
(***************************************************************************)
EXTENDS Integers

CONSTANTS
  Refreshes,   \* values of --max-refresh to consider, 0 for no limit
  MaxSamples,  \* bound: samples taken
  MaxOrders,   \* bound: times the user changes the order
  MaxResizes   \* bound: times the terminal changes its size

ASSUME TopAssumption ==
  /\ Refreshes \subseteq 0 .. MaxSamples /\ Refreshes # {}
  /\ MaxSamples \in Nat /\ MaxOrders \in Nat /\ MaxResizes \in Nat

VARIABLE top

(* A sample: its number and the order it was asked for in; and what a text  *)
(* that is read while it is written looks like.                             *)
Sample == [seq : 0 .. MaxSamples, order : 0 .. MaxOrders]
Empty == [seq |-> 0, order |-> 0]
Torn == [seq |-> -1, order |-> 0]

(* What the goroutines share, and where each is.  stale counts, for the     *)
(* properties, the drawings of samples in another order than the chosen one.*)
TopStarts ==
  {[limit |-> limit, order |-> 0, taken |-> 0, text |-> Empty, screen |-> Empty,
    main |-> "check", monitor |-> "fetch", sample |-> Empty,
    update |-> "receive", new |-> Empty, drawing |-> "none", redraws |-> 0,
    resizes |-> 0, waiting |-> 0, typing |-> "nothing", typed |-> 0,
    mistake |-> "none", stale |-> 0] : limit \in Refreshes}

TopOver == {"done", "error"}
InUI == top.main \in {"ui", "render"}

(* topAction: a first request, then the options; with --output a snapshot   *)
(* is written instead.                                                      *)
TopChecks ==
  /\ top.main = "check"
  /\ \E next \in {"ui", "done", "error"} : top' = [top EXCEPT !.main = next]

(* MonitorStats and fetchStats: the order is read when connections are      *)
(* asked for.  A request that fails is a sample too, that says so.          *)
AsksConnz ==
  /\ InUI /\ top.monitor = "fetch" /\ top.taken < MaxSamples
  /\ top' = [top EXCEPT !.monitor = "asked", !.taken = @ + 1,
                        !.sample = [seq |-> top.taken + 1, order |-> top.order]]

GetsConnz ==
  /\ InUI /\ top.monitor = "asked"
  /\ top' = [top EXCEPT !.monitor = "send"]

MonitorTicks ==
  /\ InUI /\ top.monitor = "wait"
  /\ top' = [top EXCEPT !.monitor = "fetch"]

(* The two goroutines meet on StatsCh.                                      *)
HandsOver ==
  /\ InUI /\ top.monitor = "send" /\ top.update = "receive"
  /\ top' = [top EXCEPT !.monitor = "wait", !.update = "write", !.new = top.sample]

(* StartUI's update function writes the text and waits for the drawing.     *)
WritesText ==
  /\ InUI /\ top.update = "write"
  /\ top' = [top EXCEPT !.update = "redraw", !.text = top.new]

(* The loop of StartUI takes one cause to draw at a time.                   *)
TakesStats ==
  /\ top.main = "ui" /\ top.update = "redraw"
  /\ top' = [top EXCEPT !.main = "render", !.drawing = "stats", !.update = "receive"]

TakesResize ==
  /\ top.main = "ui" /\ top.waiting > 0
  /\ top' = [top EXCEPT !.main = "render", !.drawing = "resize", !.waiting = @ - 1]

LastRefresh(n) == top.limit > 0 /\ n >= top.limit

(* What is drawn is the text as it is then.  Mutant of Text: a resize draws *)
(* what there was when the screen was made.                                 *)
TextAtStart == IF top.drawing = "resize" THEN Empty ELSE top.text
Text == top.text

(* Drawing reads the text, which update may be writing again by then.       *)
Renders ==
  /\ top.main = "render"
  /\ \E seen \in {Text} \cup (IF top.update = "write" THEN {Torn} ELSE {}) :
       LET stats == top.drawing = "stats"
           n == IF stats THEN top.redraws + 1 ELSE top.redraws
       IN top' = [top EXCEPT !.screen = seen, !.redraws = n,
                             !.main = IF stats /\ LastRefresh(n) THEN "done" ELSE "ui",
                             !.stale = IF stats /\ seen # Torn /\ seen.order # top.order THEN @ + 1
                                       ELSE @]

(* The keys.  While an option is typed every key is also looked at as a     *)
(* command, so that q ends the program there too.                           *)
PressesQ == top.main = "ui" /\ top' = [top EXCEPT !.main = "done"]

StartsTyping ==
  /\ top.main = "ui" /\ top.typing = "nothing"
  /\ \E option \in {"order", "limit"} : top' = [top EXCEPT !.typing = option]

(* One key makes a valid order here.                                        *)
Types ==
  /\ top.main = "ui" /\ top.typing # "nothing"
  /\ \/ top.typed < 1 /\ top' = [top EXCEPT !.typed = @ + 1]
     \/ top.typed > 0 /\ top' = [top EXCEPT !.typed = @ - 1]

EntersOption ==
  /\ top.main = "ui"
  /\ \/ top.typing = "limit"
     \/ top.typing = "order" /\ top.typed = 1 /\ top.order < MaxOrders
  /\ top' = [top EXCEPT !.typing = "nothing", !.typed = 0,
                        !.order = IF top.typing = "order" THEN @ + 1 ELSE @,
                        !.stale = IF top.typing = "order" THEN 0 ELSE @]

(* An invalid order starts a goroutine that stops the typing and, a second  *)
(* later, clears what was typed, whatever the user types by then.  (One     *)
(* such mistake at a time is considered.)                                   *)
Mistypes ==
  /\ top.main = "ui" /\ top.typing = "order" /\ top.typed < 1 /\ top.mistake = "none"
  /\ top' = [top EXCEPT !.mistake = "stop"]

Corrects ==
  /\ InUI
  /\ \/ top.mistake = "stop" /\ top' = [top EXCEPT !.mistake = "clear", !.typing = "nothing"]
     \/ top.mistake = "clear" /\ top' = [top EXCEPT !.mistake = "none", !.typed = 0]

(* Each change of size has a goroutine of its own wait to have it drawn.    *)
Resizes ==
  /\ top.main = "ui" /\ top.resizes < MaxResizes
  /\ top' = [top EXCEPT !.resizes = @ + 1, !.waiting = @ + 1]

TopRuns ==
  \/ TopChecks \/ AsksConnz \/ GetsConnz \/ MonitorTicks \/ HandsOver \/ WritesText
  \/ TakesStats \/ TakesResize \/ Renders

UserTypes == PressesQ \/ StartsTyping \/ Types \/ EntersOption \/ Mistypes \/ Resizes

-----------------------------------------------------------------------------
TopTypeOK ==
  /\ top.limit \in Refreshes /\ top.order \in 0 .. MaxOrders
  /\ top.main \in {"check", "ui", "render"} \cup TopOver
  /\ {top.text, top.sample, top.new} \subseteq Sample /\ top.screen \in Sample \cup {Torn}
  /\ top.waiting \in 0 .. MaxResizes /\ top.typed \in 0 .. 1

(* The screen follows the choices of the user: once another order is chosen *)
(* no more than two drawings still show the old one, of the samples held by *)
(* MonitorStats and by the update function; and --max-refresh is not        *)
(* exceeded (MonitorStats, the update function and the loop of StartUI).    *)
ScreenFollows ==
  /\ top.stale <= 2
  /\ top.limit > 0 => top.redraws <= top.limit

(* What is drawn is never an older sample than before, as far as it can be  *)
(* read at all.                                                             *)
ScreenGoesOn ==
  Torn \in {top.screen, top'.screen} \/ top'.screen.seq >= top.screen.seq
=============================================================================
