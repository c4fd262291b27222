-------------------------------- MODULE Nano --------------------------------
(***************************************************************************)
(* The editor (kernel/apps/nano.cpp) as functions on a record:             *)
(*   buffer      its bytes, 0 .. SIZE - 1; NUL ends the text               *)
(*   cursor_pos  where the next character goes                             *)
(*   clipboard   what was cut                                              *)
(*   running, show_help                                                    *)
(* Any character but the newline is "a".  What save does to files is in    *)
(* FileShell and MesaFS.                                                   *)
(***************************************************************************)
EXTENDS Integers, Sequences

CONSTANTS
  SIZE,      \* bytes of the buffer (4096)
  CLIP       \* longest text that is cut (511)

ASSUME NanoAssumption == SIZE \in Nat \ {0} /\ CLIP \in Nat

NUL == "nul"
NL  == "nl"

CLOSED_EDITOR ==
  [buffer |-> [k \in 0 .. SIZE - 1 |-> NUL], cursor_pos |-> 0,
   clipboard |-> <<>>, running |-> FALSE, show_help |-> FALSE]

(* Behind the buffer lies the clipboard, the statics in their order; its   *)
(* first byte stays NUL.                                                   *)
ByteAt(b, k) == IF k < SIZE THEN b[k] ELSE NUL

Strlen(b) == CHOOSE n \in 0 .. SIZE : /\ ByteAt(b, n) = NUL
                                      /\ \A k \in 0 .. n - 1 : b[k] # NUL

(* run: the file is read into the empty buffer.                            *)
OpenEditor(content) ==
  LET b == [k \in 0 .. SIZE - 1 |->
              IF k < Len(content) THEN content[k + 1] ELSE NUL]
  IN  [CLOSED_EDITOR EXCEPT !.buffer = b, !.cursor_pos = Strlen(b),
                            !.running = TRUE]

(* cut_line: from the cursor to the end of the line.                       *)
CutLine(n) ==
  LET at   == n.cursor_pos
      ends == {k \in at .. SIZE : ByteAt(n.buffer, k) \in {NUL, NL} \/ k = at + CLIP}
      size == (CHOOSE e \in ends : \A k \in ends : e <= k) - at
  IN  [n EXCEPT
         !.buffer = [k \in 0 .. SIZE - 1 |->
                       IF k < at THEN @[k] ELSE ByteAt(@, k + size)],
         !.clipboard = [k \in 1 .. size |-> n.buffer[at + k - 1]]]

(* paste_line: the text behind the cursor moves up.                        *)
PasteLine(n) ==
  LET at == n.cursor_pos
      size == Len(n.clipboard)
  IN  IF at + size >= SIZE - 1 THEN n
      ELSE [n EXCEPT
              !.buffer = [k \in 0 .. SIZE - 1 |->
                            IF k < at THEN @[k]
                            ELSE IF k < at + size THEN n.clipboard[k - at + 1]
                            ELSE @[k - size]],
              !.cursor_pos = @ + size]

(* A backspace that only moves the cursor.                                 *)
EraseInEditor_Keeps(n) ==
  IF n.cursor_pos = 0 THEN n ELSE [n EXCEPT !.cursor_pos = @ - 1]

EraseInEditor(n) ==
  IF n.cursor_pos = 0 THEN n
  ELSE [n EXCEPT !.buffer[n.cursor_pos - 1] = NUL, !.cursor_pos = @ - 1]

TypeInEditor(n, c) ==
  IF n.cursor_pos >= SIZE - 1 THEN n
  ELSE [n EXCEPT !.buffer = [@ EXCEPT ![n.cursor_pos] = c,
                                      ![n.cursor_pos + 1] = NUL],
                 !.cursor_pos = @ + 1]

(* handle_input: the commands come first; help takes no other key.         *)
EditorKey(n, c, ctrl) ==
  CASE ctrl /\ c = "X" -> [n EXCEPT !.running = FALSE]
    [] ctrl /\ c = "G" -> [n EXCEPT !.show_help = ~@]
    [] ctrl /\ c = "K" -> CutLine(n)
    [] ctrl /\ c = "U" -> PasteLine(n)
    [] ctrl /\ c = "O" -> n
    [] OTHER ->
       IF n.show_help THEN n
       ELSE CASE c = "esc"       -> [n EXCEPT !.running = FALSE]
              [] c = "backspace" -> EraseInEditor(n)
              [] c = "enter"     -> TypeInEditor(n, NL)
              [] OTHER           -> TypeInEditor(n, "a")

(* The keys after which the screen is cleared (and drawn again, unless the *)
(* editor was left).                                                       *)
Redrawn(n, c, ctrl) ==
  (ctrl /\ c \in {"X", "G", "K", "U", "O"}) \/ (~n.show_help /\ c # "esc")
=============================================================================
