------------------------------ MODULE Picture ------------------------------
(***************************************************************************)
(* What an application can expect of the graphics library: it paints       *)
(* pictures addressed by column and row, and showing one puts it row by    *)
(* row into the middle of the display and touches nothing else.  What is   *)
(* shown of a pixel is its stored color, which follows the painted one     *)
(* later, each pixel at a time of its own.                                 *)
(***************************************************************************)
EXTENDS Integers

CONSTANTS Color, Sizes, Images

VARIABLES
  picture,  \* what the application paints
  display,
  showing,  \* the image that is being shown, <<>> if it is the picture
  rows      \* its rows that are not shown yet

vars == <<picture, display, showing, rows>>

Grid(size) == (0..size.w - 1) \X (0..size.h - 1)

Init ==
  /\ picture = <<>> /\ showing = <<>> /\ rows = 0
  /\ display.color \in [Grid(display.at) -> Color]

Open(size) ==
  /\ picture = <<>> /\ size.w <= display.at.w /\ size.h <= display.at.h
  /\ picture' \in [at : {size}, color : [Grid(size) -> Color], stored : [Grid(size) -> Color]]
  /\ UNCHANGED <<display, showing, rows>>

Leave == picture' = <<>> /\ UNCHANGED <<display, showing, rows>>

Paint(area, color) ==
  /\ UNCHANGED rows /\ UNCHANGED <<showing, display>>
  /\ picture' = [picture EXCEPT !.color =
       [p \in Grid(picture.at) |-> IF p \in area THEN color[p] ELSE picture.color[p]]]

Fill(c) == Paint(Grid(picture.at), [p \in Grid(picture.at) |-> c])

Copy(image, x, y) ==
  LET area == {<<x + p[1], y + p[2]>> : p \in Grid(image.at)}
  IN  Paint(area, [p \in area |-> image.color[<<p[1] - x, p[2] - y>>]])

\* The stored color of a pixel becomes the painted one.
Settled(s, p) == [s EXCEPT !.stored = [@ EXCEPT ![p] = s.color[p]]]

Settle ==
  /\ UNCHANGED rows /\ UNCHANGED display
  /\ \/ /\ picture # <<>> /\ UNCHANGED showing
        /\ \E p \in Grid(picture.at) : picture' = Settled(picture, p)
     \/ /\ showing # <<>> /\ UNCHANGED picture
        /\ \E p \in Grid(showing.at) : showing' = Settled(showing, p)

Show == rows' = picture.at.h /\ showing' = <<>> /\ UNCHANGED <<picture, display>>

\* An image has just been painted.
ShowImage(image) ==
  /\ rows' = image.at.h /\ UNCHANGED <<picture, display>>
  /\ showing' \in [at : {image.at}, color : {image.color}, stored : [Grid(image.at) -> Color]]

\* The canvas is in the middle of the display, and what is shown in its corner.
ShowRow ==
  LET shown == IF showing = <<>> THEN picture ELSE showing
      left == (display.at.w - picture.at.w) \div 2
      top == (display.at.h - picture.at.h) \div 2
      y == shown.at.h - rows
      area == {<<left + x, top + y>> : x \in 0..shown.at.w - 1}
  IN  /\ rows' = rows - 1 /\ showing' = IF rows = 1 THEN <<>> ELSE showing
      /\ display' = [display EXCEPT !.color = [p \in Grid(display.at) |->
           IF p \in area THEN shown.stored[<<p[1] - left, y>>] ELSE display.color[p]]]
      /\ UNCHANGED picture

Next ==
  \/ rows > 0 /\ ShowRow
  \/ Settle
  \/ rows = 0 /\ \E size \in Sizes : Open(size)
  \/ /\ rows = 0 /\ picture # <<>>
     /\ \/ Leave \/ Show
        \/ \E c \in Color : Fill(c)
        \/ \E image \in Images : \E x \in 0..picture.at.w - image.at.w, y \in 0..picture.at.h - image.at.h :
             Copy(image, x, y)
        \/ \E image \in Images : ShowImage(image)

Spec == Init /\ [][Next]_vars
=============================================================================
