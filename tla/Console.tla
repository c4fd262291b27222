------------------------------ MODULE Console -------------------------------
(***************************************************************************)
(* What the keys do: the keyboard driver (kernel/drivers/keyboard.cpp),    *)
(* the command line with its history (kernel/shell.cpp), the editor, and   *)
(* the screen (kernel/drivers/vga.cpp) as far as it shows the line.  A     *)
(* step is one keyboard interrupt, that is, one scancode, or an interrupt  *)
(* of the network card that prints.                                        *)
(*                                                                         *)
(* A letter that is typed is "a", whatever letter and case; "v" stands for *)
(* a character without a picture.  What commands do is elsewhere: here a   *)
(* command prints, clears the screen, or starts the editor.                *)
(***************************************************************************)
EXTENDS Nano, SequencesExt

CONSTANTS
  LIMIT,        \* longest command line (255)
  HISTORY,      \* commands that are remembered (10)
  COLS,         \* columns of a row (80)
  MAX_OFFSET,   \* how far the view scrolls back (174)
  TTYS,         \* terminals (4)
  Contents,     \* files the editor is started with
  Completions   \* what a tab may add to a word

ASSUME ConsoleAssumption ==
  /\ LIMIT \in Nat \ {0} /\ HISTORY \in Nat \ {0} /\ TTYS \in Nat \ {0}
  /\ COLS \in Nat \ {0} /\ MAX_OFFSET \in Nat
  /\ Contents \subseteq Seq({NUL, NL, "a"}) /\ \A f \in Contents : Len(f) <= SIZE
  /\ Completions \subseteq Seq({"a"})

VARIABLES
  kbd,             \* [ctrl, alt, e0] of the driver
  line,            \* command_buffer up to buffer_index
  history,         \* the remembered commands, the oldest first
  history_cursor,
  app_running,     \* the shell hands keys to the editor
  nano,            \* the editor, see Nano
  screen,          \* [tty, offset, scroll]
  shown,           \* what the screen shows of the line, while not torn
  column,          \* terminal_column, while not torn
  torn,            \* ghost: since the prompt, the screen lost the line
  entered          \* ghost: the last commands that were entered

shell == <<line, history, history_cursor, app_running, nano, entered>>
view  == <<screen, shown, column, torn>>
vars  == <<kbd, shell, view>>

Letters == {"O", "X", "G", "K", "U", "L", "C"}
Keys    == Letters \cup {"enter", "backspace", "tab", "esc"}
FKeys   == 0 .. TTYS - 1

CLEAR_SCREEN == [tty |-> 0, offset |-> 0, scroll |-> FALSE]

(* Shell::initialize prints the first prompt with interrupts on: a key     *)
(* that comes before it is in the line and not on the screen.              *)
Init ==
  /\ kbd = [ctrl |-> FALSE, alt |-> FALSE, e0 |-> FALSE]
  /\ line \in {<<>>, <<"a">>} /\ history = <<>> /\ history_cursor = 0
  /\ app_running = FALSE /\ nano = CLOSED_EDITOR
  /\ screen = CLEAR_SCREEN /\ shown = <<>> /\ torn = (line # <<>>)
  /\ column \in (IF torn THEN {0} ELSE 0 .. COLS - 1)
  /\ entered = <<>>

-----------------------------------------------------------------------------
(* put_char shows nothing while the view is scrolled back.  A screen that  *)
(* is torn is not followed until the next prompt.                          *)
Tear == torn' = TRUE /\ shown' = <<>> /\ column' = 0

Show(chars) ==
  IF torn THEN UNCHANGED <<shown, column, torn>>
  ELSE /\ shown' = shown \o chars
       /\ column' = (column + Len(chars)) % COLS
       /\ UNCHANGED torn

(* Backspaces do not go back over the left end of a row.                   *)
Unshow(n, chars) ==
  IF torn \/ n > column THEN Tear
  ELSE /\ shown' = SubSeq(shown, 1, Len(shown) - n) \o chars
       /\ column' = (column - n + Len(chars)) % COLS
       /\ UNCHANGED torn

(* A prompt on a screen s, with a line that is (still) there.  It ends     *)
(* anywhere in a row: user and path have any length, and behind the editor *)
(* that was left by ESC it does not begin a row.                           *)
Prompt(s, text) ==
  /\ torn' = (s.scroll \/ text # <<>>)
  /\ shown' = <<>>
  /\ column' \in (IF torn' THEN {0} ELSE 0 .. COLS - 1)

(* Rows that are printed with no prompt behind them: a begun line is left  *)
(* in the rows above, and one that is not begun begins at the left.        *)
PrintRows ==
  IF torn \/ line # <<>> THEN Tear
                         ELSE column' = 0 /\ UNCHANGED <<shown, torn>>

-----------------------------------------------------------------------------
(* Shell::handle_input, from here on.  In the editor every key is the      *)
(* editor's, until it stops.                                               *)
NanoKey(c) ==
  /\ app_running
  /\ nano' = EditorKey(nano, c, kbd.ctrl)
  /\ app_running' = nano'.running
  /\ screen' = IF Redrawn(nano, c, kbd.ctrl) THEN CLEAR_SCREEN ELSE screen
  /\ IF nano'.running THEN UNCHANGED <<shown, column, torn>>
                      ELSE Prompt(screen', line)
  /\ UNCHANGED <<line, history, history_cursor, entered>>

(* Ctrl+L clears the screen and not the line.                              *)
ClearScreen(c) ==
  /\ ~app_running /\ kbd.ctrl /\ c = "L"
  /\ screen' = CLEAR_SCREEN
  /\ Prompt(screen', line)
  /\ UNCHANGED shell

InLine(c) == ~app_running /\ ~(kbd.ctrl /\ c = "L")

(* The index of the entry that the up key shows.                           *)
Recalled == IF history_cursor > 0 THEN history_cursor - 1 ELSE Len(history) - 1

(* Up: the line is erased on the screen and replaced by a remembered one.  *)
Recall(c) ==
  /\ InLine(c) /\ c = "up"
  /\ IF history = <<>> THEN UNCHANGED <<line, history_cursor, view>>
     ELSE /\ line' = history[Recalled + 1]
          /\ history_cursor' = IF Recalled > 0 THEN Recalled - 1 ELSE Recalled
          /\ IF "v" \in Range(line') THEN Tear ELSE Unshow(Len(line), line')
          /\ UNCHANGED screen
  /\ UNCHANGED <<history, app_running, nano, entered>>

ResetCursor ==
  history_cursor' = IF history = <<>> THEN 0 ELSE Len(history) - 1

(* Tab: the one file whose name begins with the word completes it.         *)
Complete(c, rest) ==
  /\ InLine(c) /\ c = "tab"
  /\ LET fits == SubSeq(rest, 1, Min({Len(rest), LIMIT - Len(line)}))
         new  == IF line = <<>> THEN <<>> ELSE fits
     IN  line' = line \o new /\ Show(new)
  /\ ResetCursor
  /\ UNCHANGED <<history, app_running, nano, entered, screen>>

(* A full history that keeps its entries.                                  *)
Remembered_Full(h) ==
  IF line = <<>> \/ Len(h) = HISTORY THEN h ELSE Append(h, line)

(* A command is appended; when there are HISTORY, all move down by one.    *)
Remembered(h) ==
  IF line = <<>> THEN h
  ELSE IF Len(h) < HISTORY THEN Append(h, line)
  ELSE [k \in 1 .. HISTORY |-> IF k < HISTORY THEN h[k + 1] ELSE line]

Enter(c, command, content) ==
  /\ InLine(c) /\ c = "enter"
  /\ history' = Remembered(history)
  /\ entered' = IF line = <<>> THEN entered
                ELSE LET all == Append(entered, line)
                     IN  IF Len(all) > HISTORY THEN Tail(all) ELSE all
  /\ history_cursor' = IF history' = <<>> THEN 0 ELSE Len(history') - 1
  /\ line' = <<>>
  /\ app_running' = (line # <<>> /\ command = "nano")
  /\ nano' = IF app_running' THEN OpenEditor(content) ELSE nano
  /\ screen' = IF line # <<>> /\ command \in {"nano", "clear"} THEN CLEAR_SCREEN
                                                              ELSE screen
  /\ Prompt(screen', <<>>)

Erase(c) ==
  /\ InLine(c) /\ c = "backspace"
  /\ line' = SubSeq(line, 1, Len(line) - 1)
  /\ IF line = <<>> THEN UNCHANGED <<shown, column, torn>> ELSE Unshow(1, <<>>)
  /\ ResetCursor
  /\ UNCHANGED <<history, app_running, nano, entered, screen>>

(* A full line that is still echoed.                                       *)
Type_EchoAll(c) ==
  /\ InLine(c) /\ c \in Letters
  /\ line' = IF Len(line) < LIMIT THEN Append(line, "a") ELSE line
  /\ Show(<<"a">>)
  /\ ResetCursor
  /\ UNCHANGED <<history, app_running, nano, entered, screen>>

Type(c) ==
  /\ InLine(c) /\ c \in Letters
  /\ IF Len(line) < LIMIT THEN line' = Append(line, "a") /\ Show(<<"a">>)
                          ELSE UNCHANGED <<line, shown, column, torn>>
  /\ ResetCursor
  /\ UNCHANGED <<history, app_running, nano, entered, screen>>

(* Down and ESC are stored like letters, and show nothing; ESC begins an   *)
(* escape sequence that swallows what comes next.                          *)
TypeInvisible(c) ==
  /\ InLine(c) /\ c \in {"down", "esc"}
  /\ IF Len(line) < LIMIT THEN line' = Append(line, "v") /\ Tear
                          ELSE UNCHANGED <<line, shown, column, torn>>
  /\ IF c = "down" THEN UNCHANGED history_cursor ELSE ResetCursor
  /\ UNCHANGED <<history, app_running, nano, entered, screen>>

Input(c) ==
  \/ NanoKey(c) \/ ClearScreen(c) \/ Recall(c) \/ Erase(c) \/ Type(c)
  \/ TypeInvisible(c)
  \/ \E rest \in Completions : Complete(c, rest)
  \/ \E command \in {"print", "clear", "nano"}, f \in Contents :
       Enter(c, command, f)

-----------------------------------------------------------------------------
(* Keyboard::handle_scancode.  The codes of the shift keys come first and  *)
(* leave the prefix as it is; the case of letters is not modelled.         *)
ShiftCode == UNCHANGED vars

Prefix == kbd' = [kbd EXCEPT !.e0 = TRUE] /\ UNCHANGED <<shell, view>>

CtrlCode(down) ==
  kbd' = [kbd EXCEPT !.ctrl = down, !.e0 = FALSE] /\ UNCHANGED <<shell, view>>

ScrollUp ==
  IF screen.offset >= MAX_OFFSET THEN UNCHANGED view
  ELSE /\ screen' = [screen EXCEPT !.offset = @ + 1, !.scroll = TRUE]
       /\ Tear

(* The mode is kept while the offset goes back to 0.                       *)
ScrollDown_KeepsMode ==
  IF screen.offset = 0 THEN UNCHANGED view
  ELSE screen' = [screen EXCEPT !.offset = @ - 1] /\ Tear

ScrollDown ==
  IF screen.offset = 0 THEN UNCHANGED view
  ELSE /\ screen' = [screen EXCEPT !.offset = @ - 1, !.scroll = screen.offset > 1]
       /\ Tear

(* A code behind the prefix: only the arrows mean something.               *)
Extended(c) ==
  /\ kbd.e0
  /\ kbd' = [kbd EXCEPT !.e0 = FALSE]
  /\ IF c \notin {"up", "down"} THEN UNCHANGED <<shell, view>>
     ELSE IF ~kbd.ctrl THEN Input(c)
     ELSE IF nano.running THEN UNCHANGED <<shell, view>>
     ELSE /\ IF c = "up" THEN ScrollUp ELSE ScrollDown
          /\ UNCHANGED shell

AltCode(down) ==
  ~kbd.e0 /\ kbd' = [kbd EXCEPT !.alt = down] /\ UNCHANGED <<shell, view>>

(* switch_tty: the other terminal's picture; the line is the same.         *)
SwitchTty(t) ==
  /\ ~kbd.e0 /\ kbd.alt
  /\ IF t = screen.tty THEN UNCHANGED view
     ELSE screen' = [screen EXCEPT !.tty = t] /\ Tear
  /\ UNCHANGED <<kbd, shell>>

(* Ctrl+C prints "^C" and a new line, no prompt, and does not reach the    *)
(* editor.                                                                 *)
Interrupted(c) ==
  /\ ~kbd.e0 /\ kbd.ctrl /\ c = "C"
  /\ PrintRows
  /\ UNCHANGED <<kbd, shell, screen>>

Key(c) ==
  /\ ~kbd.e0 /\ ~(kbd.ctrl /\ c = "C")
  /\ Input(c)
  /\ UNCHANGED kbd

(* An echo reply or an offer that the card's interrupt handles between two *)
(* keys prints one or two rows.                                            *)
CardPrints ==
  /\ PrintRows
  /\ UNCHANGED <<kbd, shell, screen>>

Scancode(c) == Extended(c) \/ Interrupted(c) \/ Key(c)

Next ==
  \/ ShiftCode \/ Prefix
  \/ \E down \in BOOLEAN : CtrlCode(down) \/ AltCode(down)
  \/ \E t \in FKeys : SwitchTty(t)
  \/ \E c \in Keys : Scancode(c)
  \/ \E c \in {"up", "down"} : Extended(c)
  \/ CardPrints

Spec == Init /\ [][Next]_vars

-----------------------------------------------------------------------------
(* Type correctness, with the limits of the line, of what is remembered,   *)
(* and of the view (shell.cpp:261, 292-302, 314, vga.cpp:90).              *)
TypeOK ==
  /\ line \in Seq({"a", "v"}) /\ Len(line) <= LIMIT
  /\ Len(history) <= HISTORY
  /\ \A k \in 1 .. Len(history) : Len(history[k]) <= LIMIT
  /\ screen.offset \in 0 .. MAX_OFFSET /\ screen.tty \in FKeys
  /\ column \in 0 .. COLS - 1

(* What the screen shows since the prompt, or since the last rows that     *)
(* were printed behind it before the line was begun, is the line that      *)
(* Enter would run, after any typing, erasing, completing and recalling    *)
(* (shell.cpp:193-318), unless something tore them apart: Ctrl+L on a      *)
(* begun line, Ctrl+C or output of the card's interrupt on a begun line,   *)
(* Down, ESC, a backspace at the left end of a row, scrolling back,        *)
(* another terminal, or a key before the first prompt.                     *)
ShownIsLine == ~torn /\ ~app_running => shown = line

(* The history holds the last commands that were entered, and the cursor   *)
(* is at one of them, so that Up reads no unused entry; which of them it   *)
(* should be is not said (shell.cpp:193-227, 292-303).                     *)
RecallsEntered ==
  /\ history = entered
  /\ history_cursor \in 0 .. Len(history) - 1 \/ history_cursor = 0

(* The keys go to the editor exactly while it runs (shell.cpp:173-180).    *)
AppAgrees == app_running = nano.running

(* Text is only added and removed at the end: the cursor is where the      *)
(* string in the buffer ends, so that moving the text behind the cursor    *)
(* never passes the end of the buffer (nano.cpp:87-115, 180-187).  Only    *)
(* files that fit the buffer are opened, which nano.cpp:33 does not ensure *)
(* (ConsoleAssumption).                                                    *)
EditAtEnd == nano.running => nano.cursor_pos = Strlen(nano.buffer)

(* The view is scrolled back exactly in scroll mode: in scroll mode no     *)
(* output is shown and Ctrl+Down does nothing at offset 0, so a terminal   *)
(* left in that mode there would stay dark (vga.cpp:27-52, 89-122, 195).   *)
ScrollModeAgrees == screen.scroll = (screen.offset > 0)

(* The types with their limits, and a history of what was entered          *)
(* (shell.cpp:193-227, 261, 292-314).                                      *)
InputSound == TypeOK /\ RecallsEntered

(* The modes of shell, editor and terminal agree: where keys go, and       *)
(* whether output is shown (shell.cpp:173-180, vga.cpp:89-122).            *)
ModesAgree == AppAgrees /\ ScrollModeAgrees
=============================================================================
