---------------------------- MODULE ConsoleProofs ----------------------------
(***************************************************************************)
(* Proofs about Console for every size of the line, the history, the       *)
(* screen and the editor's buffer.                                         *)
(***************************************************************************)
EXTENDS Console, SequenceTheorems, NaturalsInduction, WellFoundedInduction, TLAPS

(* Every nonempty set of natural numbers has a least element.              *)
LEMMA LeastNatural ==
  ASSUME NEW T \in SUBSET Nat, T # {}
  PROVE  \E m \in T : \A k \in T : m <= k
<1> DEFINE R == OpToRel(<, Nat)
<1>1. IsWellFoundedOn(R, Nat)
  BY NatLessThanWellFounded
<1>2. ASSUME NEW a \in Nat, NEW b \in Nat, a < b
      PROVE  <<a, b>> \in R
  BY <1>2, Zenon DEF OpToRel
<1> HIDE DEF R
<1>3. PICK m \in T : \A k \in T : ~ (<<k, m>> \in R)
  BY <1>1, WFMin
<1>4. \A k \in T : ~ (k < m)
  BY <1>2, <1>3
<1>5. QED
  BY <1>4

-----------------------------------------------------------------------------
(* The text of a buffer ends at n.                                         *)
EndsAt(b, n) ==
  /\ n \in 0 .. SIZE
  /\ ByteAt(b, n) = NUL
  /\ \A k \in 0 .. n - 1 : b[k] # NUL

(* There is one place where a text ends, and Strlen finds it.              *)
LEMMA StrlenIs ==
  ASSUME NEW b, NEW n, EndsAt(b, n)
  PROVE  Strlen(b) = n
<1>1. SIZE \in Nat /\ n \in 0 .. SIZE
  BY NanoAssumption DEF EndsAt
<1>2. ASSUME NEW m \in 0 .. SIZE, ByteAt(b, m) = NUL,
             \A k \in 0 .. m - 1 : b[k] # NUL
      PROVE  m = n
  <2>1. ~(m < n)
    BY <1>1, <1>2 DEF EndsAt, ByteAt
  <2>2. ~(n < m)
    BY <1>1, <1>2 DEF EndsAt, ByteAt
  <2>3. QED
    BY <1>1, <2>1, <2>2
<1>3. QED
  BY <1>2 DEF Strlen, EndsAt

LEMMA StrlenEnds ==
  ASSUME NEW b
  PROVE  EndsAt(b, Strlen(b))
<1> DEFINE T == {k \in 0 .. SIZE : ByteAt(b, k) = NUL}
<1>1. SIZE \in Nat
  BY NanoAssumption
<1>2. T \in SUBSET Nat /\ SIZE \in T
  BY <1>1 DEF ByteAt
<1>3. PICK n \in T : \A k \in T : n <= k
  BY <1>2, LeastNatural
<1>4. \A k \in 0 .. n - 1 : b[k] # NUL
  <2> SUFFICES ASSUME NEW k \in 0 .. n - 1, b[k] = NUL
               PROVE  FALSE
    OBVIOUS
  <2>1. k \in 0 .. SIZE /\ k < SIZE /\ k < n
    BY <1>1
  <2>2. k \in T
    BY <2>1 DEF ByteAt
  <2>3. QED
    BY <1>2, <1>3, <2>1, <2>2
<1>5. EndsAt(b, n)
  BY <1>3, <1>4 DEF EndsAt
<1>6. QED
  BY <1>5, StrlenIs

-----------------------------------------------------------------------------
(* What is true of the editor whenever it has keys: the cursor is where    *)
(* the text ends, and nothing has ever been cut.                           *)
Bytes == {NUL, NL, "a"}

Editors == [buffer : [0 .. SIZE - 1 -> Bytes], cursor_pos : 0 .. SIZE,
            clipboard : Seq(Bytes), running : BOOLEAN, show_help : BOOLEAN]

AtEnd(n) == EndsAt(n.buffer, n.cursor_pos) /\ n.clipboard = <<>>

EditorInv(n) == n \in Editors /\ n.clipboard = <<>> /\ (n.running => AtEnd(n))

LEMMA ClosedEditorInv == CLOSED_EDITOR \in Editors /\ CLOSED_EDITOR.clipboard = <<>>
                         /\ CLOSED_EDITOR.running = FALSE
<1>1. SIZE \in Nat
  BY NanoAssumption
<1>2. <<>> \in Seq(Bytes)
  BY EmptySeq
<1>3. [k \in 0 .. SIZE - 1 |-> NUL] \in [0 .. SIZE - 1 -> Bytes]
  BY DEF Bytes
<1>4. QED
  BY <1>1, <1>2, <1>3 DEF CLOSED_EDITOR, Editors

LEMMA OpenEditorInv ==
  ASSUME NEW content \in Contents
  PROVE  EditorInv(OpenEditor(content)) /\ OpenEditor(content).running
<1> DEFINE b == [k \in 0 .. SIZE - 1 |->
                   IF k < Len(content) THEN content[k + 1] ELSE NUL]
           n == OpenEditor(content)
<1>1. content \in Seq(Bytes) /\ Len(content) \in Nat
  BY ConsoleAssumption, LenProperties DEF Bytes
<1>2. b \in [0 .. SIZE - 1 -> Bytes]
  <2> SUFFICES ASSUME NEW k \in 0 .. SIZE - 1
               PROVE  (IF k < Len(content) THEN content[k + 1] ELSE NUL) \in Bytes
    OBVIOUS
  <2>1. CASE k < Len(content)
    <3>1. k + 1 \in 1 .. Len(content)
      BY <1>1, <2>1
    <3>2. content[k + 1] \in Bytes
      BY <1>1, <3>1, ElementOfSeq
    <3>3. QED
      BY <2>1, <3>2
  <2>2. CASE ~(k < Len(content))
    BY <2>2 DEF Bytes
  <2>3. QED
    BY <2>1, <2>2
<1>3. EndsAt(b, Strlen(b))
  BY StrlenEnds
<1>4. Strlen(b) \in 0 .. SIZE
  BY <1>3 DEF EndsAt
<1>5. n = [CLOSED_EDITOR EXCEPT !.buffer = b, !.cursor_pos = Strlen(b),
                                !.running = TRUE]
  BY DEF OpenEditor
<1> HIDE DEF b, n
<1>6. /\ n.buffer = b /\ n.cursor_pos = Strlen(b) /\ n.clipboard = <<>>
      /\ n.running /\ n \in Editors
  BY <1>2, <1>4, <1>5, ClosedEditorInv DEF Editors
<1>7. QED
  BY <1>3, <1>6 DEF EditorInv, AtEnd, n

(* Behind the end there is no line to cut.                                 *)
LEMMA CutLineInv ==
  ASSUME NEW n, EditorInv(n), n.running
  PROVE  CutLine(n) = n
<1> DEFINE at   == n.cursor_pos
           ends == {k \in at .. SIZE : ByteAt(n.buffer, k) \in {NUL, NL} \/ k = at + CLIP}
           end  == CHOOSE e \in ends : \A k \in ends : e <= k
           nb   == [k \in 0 .. SIZE - 1 |->
                      IF k < at THEN n.buffer[k] ELSE ByteAt(n.buffer, k + (end - at))]
           cut  == [k \in 1 .. end - at |-> n.buffer[at + k - 1]]
<1>1. /\ SIZE \in Nat /\ at \in 0 .. SIZE /\ ByteAt(n.buffer, at) = NUL
      /\ n.buffer \in [0 .. SIZE - 1 -> Bytes] /\ n \in Editors
      /\ n.clipboard = <<>>
  BY NanoAssumption DEF EditorInv, AtEnd, EndsAt, Editors
<1>2. at \in ends /\ \A k \in ends : at <= k /\ k \in Int
  BY <1>1
<1>3. end = at
  <2>1. \A e \in ends : (\A k \in ends : e <= k) => e = at
    BY <1>1, <1>2
  <2> HIDE DEF ends
  <2>2. QED
    BY <1>2, <2>1
<1>4. CutLine(n) = [n EXCEPT !.buffer = nb, !.clipboard = cut]
  BY <1>1 DEF CutLine, Editors
<1> HIDE DEF end
<1>5. nb = n.buffer
  <2>1. ASSUME NEW k \in 0 .. SIZE - 1
        PROVE  nb[k] = n.buffer[k]
    <3>1. k < SIZE /\ k + (end - at) = k
      BY <1>1, <1>3
    <3>2. ByteAt(n.buffer, k + (end - at)) = n.buffer[k]
      BY <3>1 DEF ByteAt
    <3>3. QED
      BY <3>2
  <2>2. QED
    BY <1>1, <2>1
<1>6. cut = <<>>
  BY <1>1, <1>3
<1> HIDE DEF nb, cut
<1>7. CutLine(n) = [n EXCEPT !.buffer = n.buffer, !.clipboard = n.clipboard]
  BY <1>1, <1>4, <1>5, <1>6
<1>8. QED
  BY <1>1, <1>7 DEF Editors

LEMMA PasteLineInv ==
  ASSUME NEW n, EditorInv(n), n.running
  PROVE  PasteLine(n) = n
<1>1. /\ SIZE \in Nat /\ n.cursor_pos \in 0 .. SIZE /\ n \in Editors
      /\ Len(n.clipboard) = 0
  BY NanoAssumption DEF EditorInv, AtEnd, EndsAt, Editors
<1> DEFINE nb == [k \in 0 .. SIZE - 1 |->
                    IF k < n.cursor_pos THEN n.buffer[k]
                    ELSE IF k < n.cursor_pos + Len(n.clipboard)
                         THEN n.clipboard[k - n.cursor_pos + 1]
                    ELSE n.buffer[k - Len(n.clipboard)]]
<1>2. nb = n.buffer
  BY <1>1 DEF Editors
<1>3. PasteLine(n) = IF n.cursor_pos + Len(n.clipboard) >= SIZE - 1 THEN n
                     ELSE [n EXCEPT !.buffer = nb,
                                    !.cursor_pos = n.cursor_pos + Len(n.clipboard)]
  BY <1>1 DEF PasteLine, Editors
<1> HIDE DEF nb
<1>4. QED
  BY <1>1, <1>2, <1>3 DEF Editors

LEMMA EraseInEditorInv ==
  ASSUME NEW n, EditorInv(n), n.running
  PROVE  EditorInv(EraseInEditor(n)) /\ EraseInEditor(n).running
<1> DEFINE at == n.cursor_pos - 1
           nb == [n.buffer EXCEPT ![at] = NUL]
           m  == EraseInEditor(n)
<1>1. /\ SIZE \in Nat /\ n.cursor_pos \in 0 .. SIZE /\ n \in Editors
      /\ n.buffer \in [0 .. SIZE - 1 -> Bytes]
      /\ \A k \in 0 .. n.cursor_pos - 1 : n.buffer[k] # NUL
  BY NanoAssumption DEF EditorInv, AtEnd, EndsAt, Editors
<1>2. CASE n.cursor_pos = 0
  BY <1>2 DEF EraseInEditor
<1>3. CASE n.cursor_pos # 0
  <2>1. at \in 0 .. SIZE - 1
    BY <1>1, <1>3
  <2>2. nb \in [0 .. SIZE - 1 -> Bytes]
    BY <1>1 DEF Bytes
  <2>3. EndsAt(nb, at)
    BY <1>1, <2>1 DEF EndsAt, ByteAt
  <2>4. m = [n EXCEPT !.buffer = nb, !.cursor_pos = at]
    BY <1>1, <1>3 DEF EraseInEditor, Editors
  <2> HIDE DEF nb, at, m
  <2>5. m.buffer = nb /\ m.cursor_pos = at /\ m.clipboard = n.clipboard /\ m.running
    BY <1>1, <2>4 DEF Editors
  <2>6. m \in Editors
    <3>1. at \in 0 .. SIZE
      BY <1>1, <2>1
    <3>2. QED
      BY <1>1, <2>2, <2>4, <3>1 DEF Editors
  <2>7. QED
    BY <1>1, <2>3, <2>5, <2>6 DEF EditorInv, AtEnd, m
<1>4. QED
  BY <1>2, <1>3

LEMMA TypeInEditorInv ==
  ASSUME NEW n, EditorInv(n), n.running, NEW c \in Bytes \ {NUL}
  PROVE  EditorInv(TypeInEditor(n, c)) /\ TypeInEditor(n, c).running
<1> DEFINE at == n.cursor_pos
           nb == [n.buffer EXCEPT ![at] = c, ![at + 1] = NUL]
           m  == TypeInEditor(n, c)
<1>1. /\ SIZE \in Nat /\ at \in 0 .. SIZE /\ n \in Editors
      /\ n.buffer \in [0 .. SIZE - 1 -> Bytes]
      /\ \A k \in 0 .. at - 1 : n.buffer[k] # NUL
  BY NanoAssumption DEF EditorInv, AtEnd, EndsAt, Editors
<1>2. CASE at >= SIZE - 1
  BY <1>2 DEF TypeInEditor
<1>3. CASE ~(at >= SIZE - 1)
  <2>1. at + 1 \in 0 .. SIZE - 1 /\ at \in 0 .. SIZE - 1
    BY <1>1, <1>3
  <2>2. nb \in [0 .. SIZE - 1 -> Bytes]
    BY <1>1 DEF Bytes
  <2>3. EndsAt(nb, at + 1)
    <3>1. nb[at + 1] = NUL /\ nb[at] = c
      BY <1>1, <2>1
    <3>2. \A k \in 0 .. at - 1 : nb[k] = n.buffer[k]
      BY <1>1
    <3> HIDE DEF nb
    <3>3. QED
      BY <1>1, <2>1, <3>1, <3>2 DEF EndsAt, ByteAt
  <2>4. m = [n EXCEPT !.buffer = nb, !.cursor_pos = at + 1]
    BY <1>1, <1>3 DEF TypeInEditor, Editors
  <2> HIDE DEF nb, m
  <2>5. m.buffer = nb /\ m.cursor_pos = at + 1 /\ m.clipboard = n.clipboard /\ m.running
    BY <1>1, <2>4 DEF Editors
  <2>6. m \in Editors
    <3>1. at + 1 \in 0 .. SIZE
      BY <1>1, <2>1
    <3>2. QED
      BY <1>1, <2>2, <2>4, <3>1 DEF Editors
  <2>7. QED
    BY <1>1, <2>3, <2>5, <2>6 DEF EditorInv, AtEnd, m
<1>4. QED
  BY <1>2, <1>3

(* Every key of the editor keeps the cursor at the end of the text.        *)
LEMMA EditorKeyInv ==
  ASSUME NEW n, EditorInv(n), n.running, NEW c, NEW ctrl \in BOOLEAN
  PROVE  EditorInv(EditorKey(n, c, ctrl))
<1>1. n \in Editors /\ n.clipboard = <<>>
  BY DEF EditorInv
<1>2. EditorInv([n EXCEPT !.running = FALSE])
  BY <1>1 DEF EditorInv, Editors
<1>3. EditorInv([n EXCEPT !.show_help = ~@])
  BY <1>1 DEF EditorInv, AtEnd, Editors
<1>4. EditorInv(CutLine(n)) /\ EditorInv(PasteLine(n)) /\ EditorInv(n)
  BY CutLineInv, PasteLineInv
<1>5. EditorInv(EraseInEditor(n))
  BY EraseInEditorInv
<1>6. EditorInv(TypeInEditor(n, NL)) /\ EditorInv(TypeInEditor(n, "a"))
  BY TypeInEditorInv DEF Bytes, NL, NUL
<1>7. QED
  BY <1>2, <1>3, <1>4, <1>5, <1>6 DEF EditorKey

-----------------------------------------------------------------------------
(* The inductive invariant.                                                *)
Modifiers == [ctrl : BOOLEAN, alt : BOOLEAN, e0 : BOOLEAN]

Screens == [tty : FKeys, offset : 0 .. MAX_OFFSET, scroll : BOOLEAN]

Columns == 0 .. COLS - 1

Lines == {s \in Seq({"a", "v"}) : Len(s) <= LIMIT}

LineInv ==
  /\ line \in Lines
  /\ history \in Seq(Lines) /\ Len(history) <= HISTORY
  /\ history_cursor \in Nat
  /\ RecallsEntered

AppInv ==
  /\ EditorInv(nano)
  /\ app_running \in BOOLEAN /\ AppAgrees

(* Scroll mode hides the line, and under the editor the line is empty.     *)
ScreenInv ==
  /\ screen \in Screens /\ ScrollModeAgrees
  /\ torn \in BOOLEAN /\ column \in Columns
  /\ screen.scroll => torn
  /\ app_running => line = <<>>
  /\ ShownIsLine

ShellInv == LineInv /\ AppInv /\ ScreenInv

IInv == kbd \in Modifiers /\ ShellInv

LEMMA ClearScreenIs ==
  /\ CLEAR_SCREEN \in Screens /\ CLEAR_SCREEN.scroll = FALSE
  /\ CLEAR_SCREEN.scroll = (CLEAR_SCREEN.offset > 0)
<1>1. CLEAR_SCREEN \in Screens
  BY ConsoleAssumption DEF CLEAR_SCREEN, Screens, FKeys
<1>2. CLEAR_SCREEN.scroll = FALSE /\ ~(CLEAR_SCREEN.offset > 0)
  BY DEF CLEAR_SCREEN
<1>3. (CLEAR_SCREEN.offset > 0) = FALSE
  BY <1>2
<1>4. QED
  BY <1>1, <1>2, <1>3, Zenon

LEMMA ColumnIs ==
  /\ COLS \in Nat \ {0} /\ 0 \in Columns
  /\ \A x \in Int : x % COLS \in Columns
BY ConsoleAssumption DEF Columns

LEMMA InitIInv == Init => IInv
<1> SUFFICES ASSUME Init PROVE IInv
  OBVIOUS
<1>1. kbd \in Modifiers
  BY DEF Init, Modifiers
<1>2. LineInv
  <2>1. LIMIT \in Nat \ {0} /\ HISTORY \in Nat \ {0}
    BY ConsoleAssumption
  <2>2. <<>> \in Lines /\ <<"a">> \in Lines /\ <<>> \in Seq(Lines)
    BY <2>1 DEF Lines
  <2>3. QED
    BY <2>1, <2>2 DEF Init, LineInv, RecallsEntered
<1>3. AppInv
  BY ClosedEditorInv DEF Init, AppInv, AppAgrees, EditorInv
<1>4. ScreenInv
  <2>1. torn \in BOOLEAN /\ (~torn => line = <<>>)
    BY DEF Init
  <2>2. column \in Columns
    BY ColumnIs DEF Init, Columns
  <2>3. QED
    BY <2>1, <2>2, ClearScreenIs DEF Init, ScreenInv, ScrollModeAgrees, ShownIsLine
<1>5. QED
  BY <1>1, <1>2, <1>3, <1>4 DEF IInv, ShellInv

(* What printing a prompt on screen s leaves.                              *)
LEMMA PromptStep ==
  ASSUME NEW text, screen' \in Screens, Prompt(screen', text),
         screen'.scroll = (screen'.offset > 0),
         line' = text, app_running' => text = <<>>
  PROVE  ScreenInv'
<1>1. torn' \in BOOLEAN
  BY DEF Prompt, Screens
<1>2. column' \in Columns
  BY ColumnIs DEF Prompt, Columns
<1>3. QED
  BY <1>1, <1>2 DEF Prompt, ScreenInv, ScrollModeAgrees, ShownIsLine, Screens

LEMMA NanoKeyStep ==
  ASSUME IInv, NEW c, NanoKey(c)
  PROVE  ShellInv'
<1>1. /\ LineInv /\ AppInv /\ ScreenInv /\ kbd.ctrl \in BOOLEAN
      /\ app_running /\ nano.running /\ line = <<>>
  BY DEF IInv, ShellInv, NanoKey, AppInv, AppAgrees, ScreenInv, Modifiers
<1>2. LineInv'
  BY <1>1 DEF NanoKey, LineInv, RecallsEntered
<1>3. EditorInv(EditorKey(nano, c, kbd.ctrl))
  BY <1>1, EditorKeyInv DEF AppInv
<1>4. nano' = EditorKey(nano, c, kbd.ctrl)
  BY DEF NanoKey
<1>5. nano'.running \in BOOLEAN
  BY <1>3, <1>4 DEF EditorInv, Editors
<1>6. AppInv'
  BY <1>3, <1>4, <1>5 DEF NanoKey, AppInv, AppAgrees
<1>7. /\ screen' \in Screens /\ screen'.scroll = (screen'.offset > 0)
      /\ screen'.scroll => screen.scroll
  BY <1>1, ClearScreenIs DEF NanoKey, ScreenInv, ScrollModeAgrees
<1>8. ScreenInv'
  <2>1. CASE nano'.running
    BY <1>1, <1>7, <2>1 DEF NanoKey, ScreenInv, ScrollModeAgrees, ShownIsLine
  <2>2. CASE ~nano'.running
    BY <1>1, <1>7, <2>2, PromptStep DEF NanoKey
  <2>3. QED
    BY <2>1, <2>2
<1>9. QED
  BY <1>2, <1>6, <1>8 DEF ShellInv

LEMMA ClearScreenStep ==
  ASSUME IInv, NEW c, ClearScreen(c)
  PROVE  ShellInv'
<1>1. LineInv /\ AppInv /\ ScreenInv /\ UNCHANGED shell
  BY DEF IInv, ShellInv, ClearScreen
<1>2. LineInv' /\ AppInv'
  BY <1>1 DEF shell, LineInv, RecallsEntered, AppInv, AppAgrees
<1>3. ScreenInv'
  BY <1>1, ClearScreenIs, PromptStep DEF ClearScreen, shell, ScreenInv
<1>4. QED
  BY <1>2, <1>3 DEF ShellInv

-----------------------------------------------------------------------------
(* What the keys do to the line and to what is shown of it.                *)
LEMMA LineBounds ==
  ASSUME NEW s \in Lines
  PROVE  s \in Seq({"a", "v"}) /\ Len(s) \in Nat /\ Len(s) <= LIMIT
BY LenProperties DEF Lines

LEMMA EmptyLine == <<>> \in Lines /\ <<"a">> \in Lines
BY ConsoleAssumption DEF Lines

LEMMA Lengthened ==
  ASSUME NEW s \in Lines, NEW ch \in {"a", "v"}, Len(s) < LIMIT
  PROVE  Append(s, ch) \in Lines /\ Append(s, ch) = s \o <<ch>>
<1>1. s \in Seq({"a", "v"}) /\ Len(s) \in Nat /\ LIMIT \in Nat
  BY LineBounds, ConsoleAssumption
<1>2. QED
  BY <1>1, AppendProperties, AppendIsConcat DEF Lines

LEMMA Shortened ==
  ASSUME NEW s \in Lines
  PROVE  SubSeq(s, 1, Len(s) - 1) \in Lines
<1>1. s \in Seq({"a", "v"}) /\ Len(s) \in Nat /\ LIMIT \in Nat /\ Len(s) <= LIMIT
  BY LineBounds, ConsoleAssumption
<1>2. \A k \in 1 .. Len(s) - 1 : s[k] \in {"a", "v"}
  BY <1>1, ElementOfSeq
<1>3. /\ SubSeq(s, 1, Len(s) - 1) \in Seq({"a", "v"})
      /\ Len(SubSeq(s, 1, Len(s) - 1)) = IF 1 <= Len(s) - 1 THEN Len(s) - 1 ELSE 0
  BY <1>1, <1>2, SubSeqProperties
<1>4. QED
  BY <1>1, <1>3 DEF Lines

(* Erasing the whole line leaves what is printed after it.                 *)
LEMMA UnshowAll ==
  ASSUME ShownIsLine, line \in Lines, torn \in BOOLEAN, ~app_running,
         NEW text \in Lines, Unshow(Len(line), text)
  PROVE  /\ torn' \in BOOLEAN /\ (torn => torn')
         /\ ~torn' => shown' = text
<1>1. torn' \in BOOLEAN /\ (torn => torn')
  BY DEF Unshow, Tear
<1>2. ASSUME ~torn'
      PROVE  shown' = text
  <2>1. shown = line /\ Len(line) \in Nat /\ text \in Seq({"a", "v"})
    BY <1>1, <1>2, LineBounds DEF ShownIsLine
  <2>2. SubSeq(line, 1, 0) = <<>>
    BY SubSeqEmpty
  <2>3. shown' = SubSeq(line, 1, Len(line) - Len(line)) \o text
    BY <1>2, <2>1 DEF Unshow, Tear
  <2>4. QED
    BY <2>1, <2>2, <2>3, ConcatEmptySeq
<1>3. QED
  BY <1>1, <1>2

(* What is shown and erased keeps the column in its row.                   *)
LEMMA ColumnKept ==
  ASSUME column \in Columns, NEW chars \in Lines, NEW n \in Nat,
         Tear \/ Show(chars) \/ Unshow(n, chars)
  PROVE  column' \in Columns
<1>1. column \in Int /\ Len(chars) \in Nat
  BY LineBounds, ColumnIs DEF Columns
<1>2. column + Len(chars) \in Int /\ column - n + Len(chars) \in Int
  BY <1>1
<1>3. (column + Len(chars)) % COLS \in Columns /\ (column - n + Len(chars)) % COLS \in Columns
  BY <1>2, ColumnIs
<1>4. QED
  BY <1>3, ColumnIs DEF Tear, Show, Unshow

(* A key that changes the line, and not what is remembered.                *)
LEMMA LineKept ==
  ASSUME LineInv, line' \in Lines, UNCHANGED <<history, entered>>,
         ResetCursor \/ UNCHANGED history_cursor
  PROVE  LineInv'
<1>1. history \in Seq(Lines) /\ Len(history) \in Nat /\ (history # <<>> => Len(history) >= 1)
  BY LenProperties DEF LineInv
<1>2. /\ history_cursor' \in Nat
      /\ history_cursor' \in 0 .. Len(history) - 1 \/ history_cursor' = 0
  BY <1>1 DEF ResetCursor, LineInv, RecallsEntered
<1>3. QED
  BY <1>2 DEF LineInv, RecallsEntered

(* A key of the command line leaves the editor closed.                     *)
LEMMA AppKept ==
  ASSUME AppInv, UNCHANGED <<app_running, nano>>
  PROVE  AppInv'
BY DEF AppInv, AppAgrees

LEMMA ScreenKept ==
  ASSUME ScreenInv, UNCHANGED <<screen, app_running>>, ~app_running,
         torn' \in BOOLEAN, torn => torn', ~torn' => shown' = line',
         column' \in Columns
  PROVE  ScreenInv'
<1>1. ShownIsLine'
  BY DEF ShownIsLine
<1>2. ScrollModeAgrees'
  BY DEF ScreenInv, ScrollModeAgrees
<1>3. QED
  BY <1>1, <1>2 DEF ScreenInv

LEMMA RecallStep ==
  ASSUME IInv, NEW c, Recall(c)
  PROVE  ShellInv'
<1>1. LineInv /\ AppInv /\ ScreenInv /\ ~app_running
  BY DEF IInv, ShellInv, Recall, InLine
<1>2. AppInv'
  BY <1>1, AppKept DEF Recall
<1>3. CASE history = <<>>
  <2>1. LineInv'
    BY <1>1, <1>3, LineKept DEF Recall, LineInv
  <2>2. ScreenInv'
    BY <1>1, <1>3 DEF Recall, view, ScreenInv, ScrollModeAgrees, ShownIsLine
  <2>3. QED
    BY <1>2, <2>1, <2>2 DEF ShellInv
<1>4. CASE history # <<>>
  <2>1. history \in Seq(Lines) /\ Len(history) \in Nat /\ Len(history) >= 1
    BY <1>1, <1>4, LenProperties DEF LineInv
  <2>2. Recalled \in 0 .. Len(history) - 1
    BY <1>1, <2>1 DEF Recalled, LineInv, RecallsEntered
  <2>3. line' \in Lines
    <3>1. Recalled + 1 \in 1 .. Len(history)
      BY <2>1, <2>2
    <3>2. QED
      BY <1>4, <2>1, <3>1, ElementOfSeq DEF Recall
  <2>4. history_cursor' \in 0 .. Len(history) - 1
    BY <1>4, <2>1, <2>2 DEF Recall
  <2>5. LineInv'
    BY <1>1, <2>1, <2>3, <2>4 DEF Recall, LineInv, RecallsEntered
  <2>6. /\ torn' \in BOOLEAN /\ (torn => torn')
        /\ ~torn' => shown' = line'
    <3>1. CASE "v" \in Range(line')
      BY <1>4, <3>1 DEF Recall, Tear
    <3>2. CASE "v" \notin Range(line')
      <4>1. Unshow(Len(line), line')
        BY <1>4, <3>2 DEF Recall
      <4>2. PICK text : text = line'
        OBVIOUS
      <4>3. QED
        BY <1>1, <2>3, <4>1, <4>2, UnshowAll DEF LineInv, ScreenInv
    <3>3. QED
      BY <3>1, <3>2
  <2>7. column' \in Columns
    <3>1. Tear \/ Unshow(Len(line), line')
      BY <1>4 DEF Recall
    <3>2. PICK n \in Nat, text \in Lines : n = Len(line) /\ text = line'
      BY <1>1, <2>3, LineBounds DEF LineInv
    <3>3. QED
      BY <1>1, <3>1, <3>2, ColumnKept DEF ScreenInv
  <2>8. ScreenInv'
    BY <1>1, <1>4, <2>6, <2>7, ScreenKept DEF Recall
  <2>9. QED
    BY <1>2, <2>5, <2>8 DEF ShellInv
<1>5. QED
  BY <1>3, <1>4

(* What a tab adds is what fits.                                           *)
LEMMA CompleteStep ==
  ASSUME IInv, NEW c, NEW rest \in Completions, Complete(c, rest)
  PROVE  ShellInv'
<1> DEFINE fits == SubSeq(rest, 1, Min({Len(rest), LIMIT - Len(line)}))
<1>1. /\ LineInv /\ AppInv /\ ScreenInv /\ ~app_running
      /\ line \in Seq({"a", "v"}) /\ Len(line) \in 0 .. LIMIT /\ LIMIT \in Nat
      /\ rest \in Seq({"a"}) /\ Len(rest) \in Nat
  BY LineBounds, LenProperties, ConsoleAssumption
  DEF IInv, ShellInv, Complete, InLine, LineInv
<1>2. PICK room : room = Min({Len(rest), LIMIT - Len(line)})
  OBVIOUS
<1>3. room \in 0 .. Len(rest) /\ room <= LIMIT - Len(line)
  <2> DEFINE a == Len(rest)
             b == LIMIT - Len(line)
  <2>1. a \in Nat /\ b \in Nat
    BY <1>1
  <2>2. room = CHOOSE x \in {a, b} : \A y \in {a, b} : x <= y
    BY <1>2 DEF Min
  <2> HIDE DEF a, b
  <2>3. \E x \in {a, b} : \A y \in {a, b} : x <= y
    BY <2>1
  <2>4. room \in {a, b} /\ \A y \in {a, b} : room <= y
    BY <2>2, <2>3
  <2>5. room \in 0 .. a /\ room <= b
    BY <2>1, <2>4
  <2>6. QED
    BY <2>5 DEF a, b
<1>4. fits \in Seq({"a", "v"}) /\ Len(fits) = room
  <2>1. \A k \in 1 .. room : rest[k] \in {"a", "v"}
    BY <1>1, <1>3, ElementOfSeq
  <2>2. /\ SubSeq(rest, 1, room) \in Seq({"a", "v"})
        /\ Len(SubSeq(rest, 1, room)) = IF 1 <= room THEN room - 1 + 1 ELSE 0
    BY <1>3, <2>1, SubSeqProperties
  <2>3. fits = SubSeq(rest, 1, room)
    BY <1>2, Zenon
  <2> HIDE DEF fits
  <2>4. QED
    BY <1>3, <2>2, <2>3
<1> HIDE DEF fits
<1>5. PICK new : /\ new \in {<<>>, fits}
                 /\ line' = line \o new /\ Show(new)
  BY DEF Complete, fits
<1>6. new \in Seq({"a", "v"}) /\ Len(new) <= LIMIT - Len(line) /\ Len(new) \in Nat
  <2>1. <<>> \in Seq({"a", "v"}) /\ Len(<<>>) = 0
    BY EmptySeq
  <2>2. CASE new = <<>>
    BY <1>1, <2>1, <2>2
  <2>3. CASE new = fits
    BY <1>3, <1>4, <2>3
  <2>4. QED
    BY <1>5, <2>2, <2>3
<1>7. line' \in Lines
  BY <1>1, <1>5, <1>6, ConcatProperties DEF Lines
<1>8. LineInv'
  BY <1>1, <1>7, LineKept DEF Complete
<1>9. AppInv'
  BY <1>1, AppKept DEF Complete
<1>10. ScreenInv'
  <2>1. torn' = torn /\ (~torn => shown' = line')
    BY <1>1, <1>5 DEF Show, ScreenInv, ShownIsLine
  <2>2. column' \in Columns
    <3>1. new \in Lines
      BY <1>1, <1>6 DEF Lines
    <3>2. column \in Columns /\ Show(new)
      BY <1>1, <1>5 DEF ScreenInv
    <3>3. PICK n \in Nat : n = Len(new)
      BY <1>6
    <3>4. QED
      BY <3>1, <3>2, <3>3, ColumnKept
  <2>3. QED
    BY <1>1, <2>1, <2>2, ScreenKept DEF Complete, ScreenInv
<1>11. QED
  BY <1>8, <1>9, <1>10 DEF ShellInv

LEMMA EraseStep ==
  ASSUME IInv, NEW c, Erase(c)
  PROVE  ShellInv'
<1>1. /\ LineInv /\ AppInv /\ ScreenInv /\ ~app_running
      /\ line \in Lines /\ line \in Seq({"a", "v"}) /\ Len(line) \in Nat
  BY LineBounds DEF IInv, ShellInv, Erase, InLine, LineInv
<1>2. LineInv' /\ AppInv'
  BY <1>1, Shortened, LineKept, AppKept DEF Erase
<1>3. CASE line = <<>>
  <2>1. line' = <<>>
    BY <1>3, SubSeqEmpty DEF Erase
  <2>2. ScreenInv'
    BY <1>1, <1>3, <2>1, ScreenKept DEF Erase, ScreenInv, ShownIsLine
  <2>3. QED
    BY <1>2, <2>2 DEF ShellInv
<1>4. CASE line # <<>>
  <2>1. Unshow(1, <<>>)
    BY <1>4 DEF Erase
  <2>2. torn' \in BOOLEAN /\ (torn => torn')
    BY <1>1, <2>1 DEF Unshow, Tear, ScreenInv
  <2>3. ASSUME ~torn' PROVE shown' = line'
    <3>1. shown = line /\ line' \in Lines
      BY <1>1, <1>2, <2>2, <2>3 DEF ScreenInv, ShownIsLine, LineInv
    <3>2. shown' = SubSeq(line, 1, Len(line) - 1) \o <<>>
      BY <2>1, <2>3, <3>1 DEF Unshow, Tear
    <3>3. QED
      BY <3>1, <3>2, ConcatEmptySeq DEF Erase, Lines
  <2>4. column' \in Columns
    BY <1>1, <2>1, EmptyLine, ColumnKept DEF ScreenInv
  <2>5. ScreenInv'
    BY <1>1, <2>2, <2>3, <2>4, ScreenKept DEF Erase
  <2>6. QED
    BY <1>2, <2>5 DEF ShellInv
<1>5. QED
  BY <1>3, <1>4

LEMMA TypeStep ==
  ASSUME IInv, NEW c, Type(c) \/ TypeInvisible(c)
  PROVE  ShellInv'
<1>1. /\ LineInv /\ AppInv /\ ScreenInv /\ ~app_running
      /\ line \in Lines /\ Len(line) \in Nat
  BY LineBounds DEF IInv, ShellInv, Type, TypeInvisible, InLine, LineInv
<1>2. AppInv'
  BY <1>1, AppKept DEF Type, TypeInvisible
<1>3. \/ UNCHANGED <<line, shown, column, torn>>
      \/ Len(line) < LIMIT /\ line' = Append(line, "a") /\ Show(<<"a">>)
      \/ Len(line) < LIMIT /\ line' = Append(line, "v") /\ Tear
  BY DEF Type, TypeInvisible
<1>4. line' \in Lines
  BY <1>1, <1>3, Lengthened
<1>5. LineInv'
  BY <1>1, <1>4, LineKept DEF Type, TypeInvisible
<1>6. torn' \in BOOLEAN /\ (torn => torn') /\ (~torn' => shown' = line')
  <2>1. CASE UNCHANGED <<line, shown, column, torn>>
    BY <1>1, <2>1 DEF ScreenInv, ShownIsLine
  <2>2. CASE Len(line) < LIMIT /\ line' = Append(line, "a") /\ Show(<<"a">>)
    BY <1>1, <2>2, Lengthened DEF Show, ScreenInv, ShownIsLine
  <2>3. CASE Tear
    BY <2>3 DEF Tear
  <2>4. QED
    BY <1>3, <2>1, <2>2, <2>3
<1>7. column' \in Columns
  BY <1>1, <1>3, EmptyLine, ColumnKept DEF ScreenInv
<1>8. ScreenInv'
  BY <1>1, <1>6, <1>7, ScreenKept DEF Type, TypeInvisible
<1>9. QED
  BY <1>2, <1>5, <1>8 DEF ShellInv

-----------------------------------------------------------------------------
(* Moving HISTORY entries down by one drops the oldest command.            *)
LEMMA RememberedIs ==
  ASSUME LineInv
  PROVE  /\ Remembered(history) \in Seq(Lines)
         /\ Len(Remembered(history)) <= HISTORY
         /\ Remembered(history) =
              IF line = <<>> THEN history
              ELSE IF Len(Append(history, line)) > HISTORY
                   THEN Tail(Append(history, line)) ELSE Append(history, line)
<1> DEFINE moved == [k \in 1 .. HISTORY |->
                       IF k < HISTORY THEN history[k + 1] ELSE line]
           all == Append(history, line)
<1>1. /\ line \in Lines /\ history \in Seq(Lines)
      /\ Len(history) \in Nat /\ Len(history) <= HISTORY /\ HISTORY \in Nat \ {0}
  BY ConsoleAssumption, LenProperties DEF LineInv
<1>2. /\ all \in Seq(Lines) /\ all # <<>> /\ Len(all) = Len(history) + 1
      /\ \A i \in 1 .. Len(history) : all[i] = history[i]
      /\ all[Len(history) + 1] = line
  BY <1>1, AppendProperties
<1>3. CASE line = <<>>
  BY <1>1, <1>3 DEF Remembered
<1>4. CASE line # <<>> /\ Len(history) < HISTORY
  <2>1. Remembered(history) = all
    BY <1>4 DEF Remembered
  <2> HIDE DEF all
  <2>2. Len(all) <= HISTORY /\ ~(Len(all) > HISTORY)
    BY <1>1, <1>2, <1>4
  <2>3. QED
    BY <1>2, <1>4, <2>1, <2>2 DEF all
<1>5. CASE line # <<>> /\ ~(Len(history) < HISTORY)
  <2>1. Remembered(history) = moved
    BY <1>5 DEF Remembered
  <2>2. Len(history) = HISTORY
    BY <1>1, <1>5
  <2>3. Tail(all) \in Seq(Lines) /\ Len(Tail(all)) = HISTORY
        /\ \A i \in 1 .. HISTORY : Tail(all)[i] = all[i + 1]
    BY <1>1, <1>2, <2>2, HeadTailProperties
  <2>4. \A i \in 1 .. HISTORY : moved[i] \in Lines
    <3> SUFFICES ASSUME NEW i \in 1 .. HISTORY PROVE moved[i] \in Lines
      OBVIOUS
    <3>1. CASE i < HISTORY
      <4>1. i + 1 \in 1 .. Len(history)
        BY <1>1, <2>2, <3>1
      <4>2. QED
        BY <1>1, <3>1, <4>1, ElementOfSeq
    <3>2. CASE ~(i < HISTORY)
      BY <1>1, <3>2
    <3>3. QED
      BY <3>1, <3>2
  <2>5. moved \in Seq(Lines) /\ Len(moved) = HISTORY
    BY <1>1, <2>4
  <2>6. \A i \in 1 .. HISTORY : moved[i] = all[i + 1]
    <3> SUFFICES ASSUME NEW i \in 1 .. HISTORY PROVE moved[i] = all[i + 1]
      OBVIOUS
    <3> HIDE DEF all
    <3>1. CASE i < HISTORY
      BY <1>1, <1>2, <2>2, <3>1
    <3>2. CASE ~(i < HISTORY)
      BY <1>1, <1>2, <2>2, <3>2
    <3>3. QED
      BY <3>1, <3>2
  <2> HIDE DEF all, moved
  <2>7. Tail(all) = moved
    BY <2>3, <2>5, <2>6, SeqEqual
  <2>8. Len(all) > HISTORY
    BY <1>1, <1>2, <2>2
  <2>9. QED
    BY <1>1, <1>5, <2>1, <2>5, <2>7, <2>8 DEF all
<1>6. QED
  BY <1>3, <1>4, <1>5

LEMMA EnterStep ==
  ASSUME IInv, NEW c, NEW command, NEW content \in Contents,
         Enter(c, command, content)
  PROVE  ShellInv'
<1>1. LineInv /\ AppInv /\ ScreenInv /\ ~app_running /\ line' = <<>>
  BY DEF IInv, ShellInv, Enter, InLine
<1>2. LineInv'
  <2>1. history' = Remembered(history)
    BY DEF Enter
  <2>2. history' \in Seq(Lines) /\ Len(history') <= HISTORY /\ Len(history') \in Nat
    BY <1>1, <2>1, RememberedIs, LenProperties
  <2>3. history' = entered'
    BY <1>1, <2>1, RememberedIs DEF Enter, LineInv, RecallsEntered
  <2>4. history' # <<>> => Len(history') >= 1
    BY <2>2, LenProperties
  <2>5. history_cursor' \in Nat /\
          (history_cursor' \in 0 .. Len(history') - 1 \/ history_cursor' = 0)
    BY <2>2, <2>4 DEF Enter
  <2>6. line' \in Lines
    BY <1>1, EmptySeq, ConsoleAssumption DEF Lines
  <2>7. QED
    BY <2>2, <2>3, <2>5, <2>6 DEF LineInv, RecallsEntered
<1>3. AppInv'
  <2>1. app_running' \in BOOLEAN
    BY DEF Enter
  <2>2. CASE app_running'
    <3>1. nano' = OpenEditor(content)
      BY <2>2 DEF Enter
    <3>2. EditorInv(nano') /\ nano'.running
      BY <3>1, OpenEditorInv
    <3>3. nano'.running \in BOOLEAN
      BY <3>2 DEF EditorInv, Editors
    <3>4. QED
      BY <2>1, <2>2, <3>2, <3>3 DEF AppInv, AppAgrees
  <2>3. CASE ~app_running'
    <3>1. nano' = nano
      BY <2>3 DEF Enter
    <3>2. nano.running = FALSE
      BY <1>1 DEF AppInv, AppAgrees
    <3>3. QED
      BY <1>1, <2>1, <2>3, <3>1, <3>2 DEF AppInv, AppAgrees
  <2>4. QED
    BY <2>2, <2>3
<1>4. ScreenInv'
  <2>1. screen' \in Screens /\ screen'.scroll = (screen'.offset > 0)
    BY <1>1, ClearScreenIs DEF Enter, ScreenInv, ScrollModeAgrees
  <2>2. Prompt(screen', <<>>)
    BY DEF Enter
  <2>3. QED
    BY <1>1, <2>1, <2>2, PromptStep
<1>5. QED
  BY <1>2, <1>3, <1>4 DEF ShellInv

LEMMA InputStep ==
  ASSUME IInv, NEW c, Input(c)
  PROVE  ShellInv'
BY NanoKeyStep, ClearScreenStep, RecallStep, EraseStep, TypeStep, CompleteStep,
   EnterStep DEF Input

-----------------------------------------------------------------------------
(* What the keyboard driver does itself: prefix, modifiers, terminals and  *)
(* scrolling, none of which reaches the shell.                             *)
LEMMA ShellKept ==
  ASSUME LineInv, AppInv, UNCHANGED shell
  PROVE  LineInv' /\ AppInv'
BY DEF shell, LineInv, RecallsEntered, AppInv, AppAgrees

LEMMA Unchanged ==
  ASSUME ShellInv, UNCHANGED <<shell, view>>
  PROVE  ShellInv'
<1>1. ScreenInv'
  BY DEF ShellInv, shell, view, ScreenInv, ScrollModeAgrees, ShownIsLine
<1>2. QED
  BY <1>1, ShellKept DEF ShellInv

(* The view moves, and the line is out of sight until the next prompt.     *)
LEMMA TornStep ==
  ASSUME ShellInv, UNCHANGED shell, Tear, screen' \in Screens,
         screen'.scroll = (screen'.offset > 0)
  PROVE  ShellInv'
<1>1. ScreenInv'
  BY ColumnIs DEF ShellInv, shell, Tear, ScreenInv, ScrollModeAgrees, ShownIsLine
<1>2. QED
  BY <1>1, ShellKept DEF ShellInv

LEMMA ScrollStep ==
  ASSUME ShellInv, UNCHANGED shell, ScrollUp \/ ScrollDown
  PROVE  ShellInv'
<1>1. screen \in Screens /\ MAX_OFFSET \in Nat /\ screen.offset \in 0 .. MAX_OFFSET
  BY ConsoleAssumption DEF ShellInv, ScreenInv, Screens
<1>2. CASE UNCHANGED view
  BY <1>2, Unchanged
<1>3. CASE ScrollUp /\ ~UNCHANGED view
  <2>1. /\ screen' = [screen EXCEPT !.offset = @ + 1, !.scroll = TRUE]
        /\ Tear /\ screen.offset < MAX_OFFSET
    BY <1>1, <1>3 DEF ScrollUp
  <2>2. screen.offset + 1 \in 0 .. MAX_OFFSET /\ screen.offset + 1 > 0
    BY <1>1, <2>1
  <2>3. /\ screen' \in Screens /\ screen'.offset = screen.offset + 1
        /\ screen'.scroll = TRUE
    BY <1>1, <2>1, <2>2 DEF Screens
  <2>4. (screen'.offset > 0) = TRUE
    BY <2>2, <2>3
  <2>5. QED
    BY <2>1, <2>3, <2>4, TornStep
<1>4. CASE ScrollDown /\ ~UNCHANGED view
  <2>1. /\ screen' = [screen EXCEPT !.offset = @ - 1, !.scroll = screen.offset > 1]
        /\ Tear /\ screen.offset # 0
    BY <1>1, <1>4 DEF ScrollDown
  <2>2. PICK b \in BOOLEAN : b = (screen.offset > 1)
    <3>1. (screen.offset > 1) \in BOOLEAN
      BY <1>1
    <3>2. QED
      BY <3>1, Zenon
  <2>3. screen.offset - 1 \in 0 .. MAX_OFFSET
    BY <1>1, <2>1
  <2>4. /\ screen' \in Screens /\ screen'.offset = screen.offset - 1
        /\ screen'.scroll = b
    <3>1. PICK k \in 0 .. MAX_OFFSET : k = screen.offset - 1
      BY <2>3
    <3>2. screen' = [screen EXCEPT !.offset = k, !.scroll = b]
      BY <2>1, <2>2, <3>1, Zenon
    <3>3. screen \in Screens
      BY <1>1
    <3>4. /\ [screen EXCEPT !.offset = k, !.scroll = b] \in Screens
          /\ [screen EXCEPT !.offset = k, !.scroll = b].offset = k
          /\ [screen EXCEPT !.offset = k, !.scroll = b].scroll = b
      BY <2>2, <3>1, <3>3 DEF Screens
    <3>5. QED
      BY <3>1, <3>2, <3>4
  <2>5. (screen'.offset > 0) <=> (screen.offset > 1)
    BY <1>1, <2>4
  <2>6. screen'.scroll = (screen'.offset > 0)
    BY <2>2, <2>4, <2>5
  <2>7. QED
    BY <2>1, <2>4, <2>6, TornStep
<1>5. QED
  BY <1>2, <1>3, <1>4

LEMMA ExtendedStep ==
  ASSUME IInv, NEW c, Extended(c)
  PROVE  IInv'
<1>1. kbd' \in Modifiers
  BY DEF Extended, IInv, Modifiers
<1>2. \/ UNCHANGED <<shell, view>>
      \/ Input(c)
      \/ UNCHANGED shell /\ (ScrollUp \/ ScrollDown)
  BY DEF Extended
<1>3. ShellInv'
  BY <1>2, InputStep, Unchanged, ScrollStep DEF IInv
<1>4. QED
  BY <1>1, <1>3 DEF IInv

LEMMA SwitchTtyStep ==
  ASSUME IInv, NEW t \in FKeys, SwitchTty(t)
  PROVE  IInv'
<1>1. ShellInv /\ UNCHANGED shell /\ UNCHANGED kbd /\ screen \in Screens
      /\ screen.scroll = (screen.offset > 0)
  BY DEF SwitchTty, IInv, ShellInv, ScreenInv, ScrollModeAgrees
<1>2. CASE UNCHANGED view
  BY <1>1, <1>2, Unchanged DEF IInv
<1>3. CASE ~UNCHANGED view
  <2>1. screen' = [screen EXCEPT !.tty = t] /\ Tear
    BY <1>3 DEF SwitchTty
  <2>2. /\ screen' \in Screens /\ screen'.scroll = screen.scroll
        /\ screen'.offset = screen.offset
    BY <1>1, <2>1 DEF Screens
  <2>3. ShellInv'
    BY <1>1, <2>1, <2>2, TornStep
  <2>4. QED
    BY <1>1, <2>3 DEF IInv
<1>4. QED
  BY <1>2, <1>3

(* Rows that are printed between two keys.                                 *)
LEMMA PrintStep ==
  ASSUME IInv, PrintRows, UNCHANGED <<kbd, shell, screen>>
  PROVE  IInv'
<1>1. /\ ShellInv /\ ScreenInv /\ screen \in Screens /\ UNCHANGED shell
      /\ screen.scroll = (screen.offset > 0)
  BY DEF IInv, ShellInv, ScreenInv, ScrollModeAgrees
<1>2. CASE Tear
  BY <1>1, <1>2, TornStep DEF IInv
<1>3. CASE line = <<>> /\ column' = 0 /\ UNCHANGED <<shown, torn>>
  <2>1. ScreenInv'
    BY <1>1, <1>3, ColumnIs DEF shell, ScreenInv, ScrollModeAgrees, ShownIsLine
  <2>2. LineInv' /\ AppInv'
    BY <1>1, ShellKept DEF ShellInv
  <2>3. QED
    BY <2>1, <2>2 DEF IInv, ShellInv
<1>4. QED
  BY <1>2, <1>3 DEF PrintRows

LEMMA IInvHolds == Spec => []IInv
<1>1. IInv /\ [Next]_vars => IInv'
  <2> SUFFICES ASSUME IInv, [Next]_vars
               PROVE  IInv'
    OBVIOUS
  <2>1. CASE UNCHANGED vars
    <3>1. UNCHANGED kbd /\ UNCHANGED <<shell, view>>
      BY <2>1 DEF vars
    <3>2. QED
      BY <3>1, Unchanged DEF IInv
  <2>2. CASE ShiftCode
    BY <2>1, <2>2 DEF ShiftCode
  <2>3. CASE Prefix
    BY <2>3, Unchanged DEF Prefix, IInv, Modifiers
  <2>4. ASSUME NEW down \in BOOLEAN, CtrlCode(down) \/ AltCode(down)
        PROVE  IInv'
    <3>1. kbd' \in Modifiers
      BY <2>4 DEF CtrlCode, AltCode, IInv, Modifiers
    <3>2. ShellInv'
      BY <2>4, Unchanged DEF CtrlCode, AltCode, IInv
    <3>3. QED
      BY <3>1, <3>2 DEF IInv
  <2>5. ASSUME NEW c, Key(c)
        PROVE  IInv'
    BY <2>5, InputStep DEF Key, IInv
  <2>6. ASSUME NEW c, Interrupted(c) \/ CardPrints
        PROVE  IInv'
    BY <2>6, PrintStep DEF Interrupted, CardPrints
  <2>7. QED
    BY <2>1, <2>2, <2>3, <2>4, <2>5, <2>6, ExtendedStep, SwitchTtyStep
    DEF Next, Scancode
<1>2. QED
  BY InitIInv, <1>1, PTL DEF Spec

-----------------------------------------------------------------------------
(* No key overruns the line, an entry of the history, their number or the  *)
(* view, and the history holds the last commands that were entered, for    *)
(* every size (shell.cpp:193-227, 261, 292-314).                           *)
THEOREM InputIsSound == Spec => []InputSound
<1>1. IInv => InputSound
  <2> SUFFICES ASSUME IInv PROVE InputSound
    OBVIOUS
  <2>1. line \in Seq({"a", "v"}) /\ Len(line) <= LIMIT
    BY LineBounds DEF IInv, ShellInv, LineInv
  <2>2. \A k \in 1 .. Len(history) : Len(history[k]) <= LIMIT
    <3> SUFFICES ASSUME NEW k \in 1 .. Len(history)
                 PROVE  Len(history[k]) <= LIMIT
      OBVIOUS
    <3>1. history[k] \in Lines
      BY ElementOfSeq DEF IInv, ShellInv, LineInv
    <3>2. QED
      BY <3>1, LineBounds
  <2>3. /\ screen.offset \in 0 .. MAX_OFFSET /\ screen.tty \in FKeys
        /\ column \in 0 .. COLS - 1
    BY DEF IInv, ShellInv, ScreenInv, Screens, Columns
  <2>4. QED
    BY <2>1, <2>2, <2>3 DEF IInv, ShellInv, LineInv, InputSound, TypeOK
<1>2. QED
  BY IInvHolds, <1>1, PTL

(* What is seen since the prompt, or since the rows that were printed      *)
(* before the line was begun, is what Enter runs, while no key and no      *)
(* output of the card's interrupt tore the two apart (shell.cpp:193-318,   *)
(* icmp.cpp:50-66, dhcp.cpp:109, vga.cpp:89-122).                          *)
THEOREM LineIsShown == Spec => []ShownIsLine
<1>1. IInv => ShownIsLine
  BY DEF IInv, ShellInv, ScreenInv
<1>2. QED
  BY IInvHolds, <1>1, PTL

(* The editor's cursor never leaves the end of its text, for every buffer  *)
(* and every file that fits it (nano.cpp:87-115, 180-187).                 *)
THEOREM CursorAtEnd == Spec => []EditAtEnd
<1>1. IInv => EditAtEnd
  BY StrlenIs DEF IInv, ShellInv, AppInv, EditorInv, AtEnd, EditAtEnd
<1>2. QED
  BY IInvHolds, <1>1, PTL

(* Shell, editor and terminal agree who gets the keys and whether output   *)
(* is shown (shell.cpp:173-180, vga.cpp:89-122).                           *)
THEOREM ModesAlwaysAgree == Spec => []ModesAgree
<1>1. IInv => ModesAgree
  BY DEF IInv, ShellInv, AppInv, ScreenInv, ModesAgree
<1>2. QED
  BY IInvHolds, <1>1, PTL
=============================================================================
