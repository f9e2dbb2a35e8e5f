------------------------------ MODULE Desktop ------------------------------
(***************************************************************************)
(* What the user of the machine has in front of him: the keyboard, the     *)
(* pictures of an application, and the terminal.  They share no state      *)
(* here: one of them moves in a behaviour, part says which.                *)
(***************************************************************************)
EXTENDS KeyPath

CONSTANTS
  Color, Screens, CanvasSizes, Images,  \* of Canvas
  w, h, MaxInput, Char, Sessions        \* of Terminal

VARIABLES
  part,
  screen, pc, surface, drawn, row, offset, vmem, sync, unseen,
  session, term, out, input, inp_len, result, picture

canvas   == <<screen, pc, surface, drawn, row, offset, vmem, sync, unseen>>
terminal == <<session, term, out, input, inp_len, result, picture>>

C == INSTANCE Canvas
T == INSTANCE Terminal

ASSUME DesktopAssumption == C!CanvasAssumption /\ T!TerminalAssumption

\* Those that do not move start in one of their states.
DesktopInit ==
  /\ part \in {"keys", "canvas", "terminal"}
  /\ Init /\ C!Init /\ T!Init
  /\ part # "canvas" => screen = CHOOSE z \in Screens : TRUE
  /\ part # "terminal" => session = CHOOSE s \in Sessions : TRUE

DesktopNext ==
  /\ UNCHANGED part
  /\ \/ part = "keys" /\ Next /\ UNCHANGED <<canvas, terminal>>
     \/ part = "canvas" /\ C!Next /\ UNCHANGED <<vars, terminal>>
     \/ part = "terminal" /\ T!Next /\ UNCHANGED <<vars, canvas>>

\* The fairness of KeyPath's LiveSpec.
DesktopSpec ==
  /\ DesktopInit /\ [][DesktopNext]_<<vars, canvas, terminal, part>>
  /\ WF_vars(part = "keys" /\ Program)

\* Between two rows the window shows the frame buffer unless the simulator has
\* been told to copy it (Canvas).
WindowCurrent == C!WindowCurrent

\* Painting and drawing row by row do what an application expects of a picture
\* (Canvas, Picture), on a screen with a border and on one without.
IsPicture == C!P!Spec

\* The characters before the cursor are the line that enter will run (Terminal).
LineShown == T!LineShown

\* The cursor stays inside the grid, and a cell whose picture is not its character
\* will be drawn again (Terminal).
StaleIsDirty == T!TypeOK /\ T!StaleIsDirty
=============================================================================
