------------------------------ MODULE MCDesktop ------------------------------
(***************************************************************************)
(* Constants for Desktop: two keys, whose names are found; a screen of 4   *)
(* by 3 pixels with a flat and a narrow canvas in its middle, and one of 2 *)
(* by 2 with a canvas as large, over which an image is moved; nterm's      *)
(* shell, whose banner is a line and a prompt, on a grid on which a        *)
(* command wraps and scrolls, and a program that prints and sends escape   *)
(* sequences.                                                              *)
(***************************************************************************)
EXTENDS Desktop

MCLength == <<1, 2>>

Size(i, j) == [w |-> i, h |-> j]
MCScreens == {Size(4, 3), Size(2, 2)}
MCCanvasSizes ==
  [z \in MCScreens |-> IF z = Size(4, 3) THEN {Size(2, 1), Size(1, 2)} ELSE {Size(0, 0)}]
MCImages == {[w |-> 1, h |-> 2, pixels |-> [p \in 0..1 |-> p]]}

Ch(c) == <<"ch", c>>
MCSessions ==
  {[built_in |-> TRUE, banner |-> <<Ch("a"), <<"\n">>, Ch("b")>>, prints |-> {}, 
    keys |-> {"a", "b", "enter", "backspace", "esc"}],
   [built_in |-> FALSE, banner |-> <<>>, keys |-> {"a"},
    prints |-> {Ch("a"), <<"\n">>, <<"\r">>, <<"bell">>, <<"move", 2, 5>>, <<"move", 0, 0>>, <<"movefirst">>,
                <<"up", 1>>, <<"down", 2>>, <<"left", 3>>, <<"right", 1>>, <<"save">>, <<"restore">>,
                <<"clear">>, <<"erase">>, <<"raw">>, <<"cook">>}]}
=============================================================================
