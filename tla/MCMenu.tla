---- MODULE MCMenu ----
(***************************************************************************)
(* Menu on three categories: one with two focusable components around a    *)
(* button, one with a lone button, one with two focusable components.      *)
(* Moving from the first to the second leaves the index beyond the end.    *)
(***************************************************************************)
EXTENDS Menu, FiniteSets, TLC

MCSize == (0 :> 3) @@ (1 :> 1) @@ (2 :> 2)

MCFocusable == {<<0, 0>>, <<0, 2>>, <<2, 0>>, <<2, 1>>}

MCBound == {"DUp", "DLeft", "ZLZR"}

(* Any two of the menu's buttons at once, the chords and the chord with A. *)
MCPadStates ==
    { h \in SUBSET {"Up", "Down", "Left", "Right", "A", "L"} : Cardinality(h) <= 2 }
    \cup { {"L", "Left", "A"}, {"ZL"}, {"ZL", "ZR"}, {"RStick"}, {"RStick", "L"},
           {"RStick", "L", "Left"}, {"RStick", "R"} }
====
