----------------------------- MODULE MCScreens ------------------------------
(* A small instance of Screens for TLC: monitors side by side, one above the *)
(* other, to the left of and above the origin, and a small one; overlays     *)
(* that fit some of them, all of them, and none; and no monitor at all.      *)
EXTENDS Screens

Box(a, b, w, h) == [x |-> a, y |-> b, width |-> w, height |-> h]

SmallLayouts ==
  {<<>>,
   <<Box(0, 0, 6, 8)>>,
   <<Box(0, 0, 6, 8), Box(6, 0, 5, 8)>>,
   <<Box(6, 0, 5, 8), Box(0, 0, 6, 8)>>,
   <<Box(0, 3, 6, 8), Box(0, 0, 6, 3)>>,
   <<Box(-5, -2, 5, 7), Box(0, 0, 6, 8)>>}

SmallPoints == [x : {-5, -1, 0, 5, 6, 10, 11}, y : {-2, -1, 0, 1, 3, 4}]

SmallSizes == [width : {2, 3, 7}, height : {3, 4, 9}]
=============================================================================
