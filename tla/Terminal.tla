------------------------------ MODULE Terminal ------------------------------
(***************************************************************************)
(* nterm (os-app/apps/nterm): the grid of characters with its cursor and   *)
(* dirty marks, what write does to it, the line being edited, and the      *)
(* picture that refresh_terminal keeps of the grid.  The grid is one array *)
(* indexed by x + y * w as in the code.  Colours are left out; so is '\t', *)
(* which moves the cursor out of the grid (term.cpp:252-253).              *)
(***************************************************************************)
EXTENDS Integers, Sequences

CONSTANTS
  w, h,      \* columns and rows: W and H of nterm.h
  MaxInput,  \* sizeof(input), less the last character, which cooked has no room for
  Char,      \* printable characters
  Sessions   \* what runs in the terminal, and what is typed

Cell == 0..w * h - 1
At(x, y) == x + y * w
EMPTY == " "
NUL == "nul"
NoKey == "none"
NoLine == <<NUL>>
Key == Char \cup {"enter", "backspace", "esc"}

\* What a string consists of: characters and whole escape sequences, whose
\* numbers follow the name.
Text == {"ch"} \X Char \cup {<<"\n">>}
Element ==
  Text \cup {<<e>> : e \in {"\r", "bell", "movefirst", "save", "restore", "clear", "erase", "raw", "cook"}}
  \cup {"up", "down", "left", "right"} \X Nat \cup {"move"} \X Nat \X Nat

\* Is it the shell, which ends with its first command, or extern-sh.cpp?  What
\* is printed first, and later, and what is typed.
Session == [built_in : BOOLEAN, banner : Seq(Element), prints : SUBSET Element, keys : SUBSET Key]

TerminalAssumption ==
  /\ w \in Nat \ {0} /\ h \in Nat \ {0}
  /\ MaxInput \in 2..w * (h - 1) + 1   \* a line never fills the screen
  /\ Char \cap {EMPTY, NUL, NoKey, "esc", "enter", "backspace"} = {}
  /\ Sessions \subseteq Session
  /\ \A s \in Sessions : s.built_in => s.banner \in Seq(Text) /\ s.prints = {}

VARIABLES
  session,
  term,     \* the class Terminal: buf, dirty, cursor, saved, mode
  out,      \* what has still to be written of the banner
  input,    \* the array, and inp_len
  inp_len,
  result,   \* what keypress handed to the shell
  picture   \* what was last drawn in each cell

vars == <<session, term, out, input, inp_len, result, picture>>

-----------------------------------------------------------------------------
(* term.cpp, as functions from one terminal to the next *)

putch(t, i, ch) == [t EXCEPT !.buf[i] = ch, !.dirty[i] = TRUE]

\* Fault: only the new row is marked.
scroll_up_NewRow(t) ==
  [t EXCEPT !.buf = [i \in Cell |-> IF i + w \in Cell THEN t.buf[i + w] ELSE EMPTY],
            !.dirty = [i \in Cell |-> t.dirty[i] \/ i + w \notin Cell]]

scroll_up(t) ==
  [t EXCEPT !.buf = [i \in Cell |-> IF i + w \in Cell THEN t.buf[i + w] ELSE EMPTY],
            !.dirty = [i \in Cell |-> TRUE]]

\* The cursor goes down, or everything else up.
Down(t, x) ==
  IF t.cursor.y + 1 >= h
  THEN [scroll_up(t) EXCEPT !.cursor.x = x]
  ELSE [t EXCEPT !.cursor = [x |-> x, y |-> t.cursor.y + 1]]

move_one(t) ==
  IF t.cursor.x + 1 >= w THEN Down(t, 0) ELSE [t EXCEPT !.cursor.x = @ + 1]

\* Fault: the row above is entered at its beginning.
backspace_RowStart(t) ==
  LET c == IF t.cursor.x > 0 THEN [x |-> t.cursor.x - 1, y |-> t.cursor.y]
           ELSE IF t.cursor.y > 0 THEN [x |-> 0, y |-> t.cursor.y - 1]
           ELSE [x |-> 0, y |-> 0]
  IN [putch(t, At(c.x, c.y), EMPTY) EXCEPT !.cursor = c]

backspace(t) ==
  LET c == IF t.cursor.x > 0 THEN [x |-> t.cursor.x - 1, y |-> t.cursor.y]
           ELSE IF t.cursor.y > 0 THEN [x |-> w - 1, y |-> t.cursor.y - 1]
           ELSE [x |-> 0, y |-> 0]
  IN [putch(t, At(c.x, c.y), EMPTY) EXCEPT !.cursor = c]

\* Fault: a cursor moved over the edge stays there.
Clamped_Not(t) == t

Clamped(t) ==
  LET Into(n, top) == IF n > top THEN top ELSE IF n < 0 THEN 0 ELSE n
  IN [t EXCEPT !.cursor.x = Into(@, w - 1), !.cursor.y = Into(@, h - 1)]

\* Cells i to j become empty.
Blank(t, i, j) ==
  [t EXCEPT !.buf = [k \in Cell |-> IF k \in i..j THEN EMPTY ELSE @[k]],
            !.dirty = [k \in Cell |-> k \in i..j \/ @[k]]]

\* esc_seqs: what follows the name are the numbers of the sequence.
Escape(t, e) ==
  CASE e[1] = "move" -> [t EXCEPT !.cursor = [x |-> e[3] - 1, y |-> e[2] - 1]]
    [] e[1] = "movefirst" -> [t EXCEPT !.cursor = [x |-> 0, y |-> 0]]
    [] e[1] = "up" -> [t EXCEPT !.cursor.y = @ - e[2]]
    [] e[1] = "down" -> [t EXCEPT !.cursor.y = @ + e[2]]
    [] e[1] = "left" -> [t EXCEPT !.cursor.x = @ - e[2]]
    [] e[1] = "right" -> [t EXCEPT !.cursor.x = @ + e[2]]
    [] e[1] = "save" -> [t EXCEPT !.saved = t.cursor]
    [] e[1] = "restore" -> [t EXCEPT !.cursor = t.saved]
    [] e[1] = "clear" -> [Blank(t, 0, w * h - 1) EXCEPT !.cursor = [x |-> 0, y |-> 0]]
    [] e[1] = "erase" -> Blank(t, At(t.cursor.x, t.cursor.y), At(w - 1, t.cursor.y))
    [] e[1] \in {"raw", "cook"} -> [t EXCEPT !.mode = e[1]]

\* A character of the string, or a whole escape sequence
Put(t, e) ==
  CASE e[1] = "ch" -> move_one(putch(t, At(t.cursor.x, t.cursor.y), e[2]))
    [] e[1] = "\n" -> Down(t, 0)
    [] e[1] = "\r" -> [t EXCEPT !.cursor.x = 0]
    [] e[1] = "bell" -> t
    [] OTHER -> Clamped(Escape(t, e))

\* What strcpy takes of the array
Line ==
  LET n == CHOOSE n \in 0..MaxInput : (n < MaxInput => input[n + 1] = NUL) /\ \A i \in 1..n : input[i] # NUL
  IN  SubSeq(input, 1, n)

-----------------------------------------------------------------------------
(* keypress, and main.cpp.  All of them act on the terminal t of an iteration. *)

Quiet == /\ result' = NoLine /\ UNCHANGED <<input, inp_len>>

RawKey(t, ch) ==
  /\ t.mode = "raw"
  /\ input' = [input EXCEPT ![1] = ch, ![2] = NUL]
  /\ result' = <<ch>>
  /\ UNCHANGED inp_len

\* Only the end of the line is written anew.
Dropped(t, ch) ==
  /\ t.mode = "cook" /\ ch = "esc"
  /\ input' = [input EXCEPT ![inp_len + 1] = NUL] /\ result' = NoLine
  /\ UNCHANGED inp_len

Enter(t, ch) ==
  /\ t.mode = "cook" /\ ch = "enter"
  /\ result' = Line
  /\ inp_len' = 0 /\ input' = [input EXCEPT ![1] = NUL]

Erase(t, ch) ==
  /\ t.mode = "cook" /\ ch = "backspace"
  /\ inp_len' = (IF inp_len > 0 THEN inp_len - 1 ELSE 0)
  /\ input' = [input EXCEPT ![inp_len' + 1] = NUL] /\ result' = NoLine

Type(t, ch) ==
  /\ t.mode = "cook" /\ ch \in Char
  /\ IF inp_len + 1 < MaxInput
     THEN inp_len' = inp_len + 1 /\ input' = [input EXCEPT ![inp_len + 1] = ch, ![inp_len + 2] = NUL]
     ELSE UNCHANGED inp_len /\ input' = [input EXCEPT ![inp_len + 1] = NUL]
  /\ result' = NoLine

\* What the key writes
Echo(t, ch) ==
  CASE t.mode = "cook" /\ ch = "enter" -> Put(t, <<"\n">>)
    [] t.mode = "cook" /\ ch = "backspace" /\ inp_len > 0 -> backspace(t)
    [] t.mode = "cook" /\ ch \in Char /\ inp_len + 1 < MaxInput -> Put(t, <<"ch", ch>>)
    [] OTHER -> t

\* Fault: the cell under the cursor is not drawn again.
Cleared_All(t) == [t EXCEPT !.dirty = [i \in Cell |-> FALSE]]

\* The marks cleared, but for the cell that shows the cursor's block.
Cleared(t) ==
  [t EXCEPT !.dirty = [i \in Cell |-> i = At(t.cursor.x, t.cursor.y)]]

\* The block of the cursor is drawn over what was, half a second after the
\* last time at the latest.
refresh_terminal(t) ==
  /\ term' = Cleared(t)
  /\ \E tick \in BOOLEAN :
       picture' =
         [i \in Cell |->
            IF i = At(t.cursor.x, t.cursor.y) /\ (tick \/ \E j \in Cell : t.dirty[j]) THEN "block"
            ELSE IF t.dirty[i] THEN t.buf[i] ELSE picture[i]]

Fresh ==
  [buf |-> [i \in Cell |-> EMPTY], dirty |-> [i \in Cell |-> TRUE],
   cursor |-> [x |-> 0, y |-> 0], saved |-> [x |-> 0, y |-> 0], mode |-> "cook"]

\* The memory of new char[] and of the window is anything; all of it is dirty.
Init ==
  /\ session \in Sessions /\ out = session.banner
  /\ term = Fresh
  /\ input = [i \in 1..MaxInput |-> NUL] /\ inp_len = 0
  /\ result = NoLine
  /\ picture = [i \in Cell |-> "block"]

\* One turn of the loop over a string, of the banner or of what was in the pipe.
write ==
  /\ \/ out # <<>> /\ out' = Tail(out) /\ term' = Put(term, Head(out))
     \/ out = <<>> /\ out' = out /\ \E e \in session.prints : term' = Put(term, e)
  /\ UNCHANGED <<session, input, inp_len, result, picture>>

\* The rest of an iteration of the shell's loop, or of extern_app_run's: a key or
\* none, and the refresh.
Iteration(ch) ==
  /\ out = <<>>
  /\ session.built_in => result = NoLine
  /\ \/ ch = NoKey /\ Quiet
     \/ ch # NoKey /\ RawKey(term, ch)
     \/ Enter(term, ch) \/ Erase(term, ch) \/ Type(term, ch) \/ Dropped(term, ch)
  /\ refresh_terminal(IF ch = NoKey THEN term ELSE Echo(term, ch))
  /\ UNCHANGED <<session, out>>

Next ==
  write \/ \E ch \in session.keys \cup {NoKey} : Iteration(ch)

Spec == Init /\ [][Next]_vars

-----------------------------------------------------------------------------
(* Properties *)

Place == [x : 0..w - 1, y : 0..h - 1]
Grid == [buf : [Cell -> Char \cup {EMPTY}], dirty : [Cell -> BOOLEAN],
         cursor : Place, saved : Place, mode : {"raw", "cook"}]

\* The cursor and the saved one stay inside the grid, whatever an application
\* moves them by, and the line inside its array (term.cpp:227-228, 292).
TypeOK ==
  /\ session \in Sessions /\ out \in Seq(Element)
  /\ term \in Grid
  /\ input \in [1..MaxInput -> Key \cup {NUL}]
  /\ inp_len \in 0..MaxInput - 1

\* A cell whose picture is not its character, because it changed or because the
\* cursor was drawn over it, will be drawn again: nothing on the screen is stale
\* for longer than an iteration, after scrolling, erasing and moving away.
StaleIsDirty ==
  \A i \in Cell : picture[i] # term.buf[i] => term.dirty[i]

\* While nothing else prints, the characters before the cursor are the line
\* that enter will run, however often it wrapped, scrolled and was corrected.
LineShown ==
  session.built_in =>
    LET c == At(term.cursor.x, term.cursor.y) IN
    /\ Len(Line) = inp_len
    /\ inp_len <= c
    /\ \A k \in 1..inp_len : term.buf[c - inp_len + k - 1] = Line[k]
=============================================================================
