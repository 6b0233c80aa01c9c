------------------------------- MODULE MCEvBev -------------------------------
(* Instances of EvBev for TLC: eight programs, each with a part of the         *)
(* interface.                                                                 *)
EXTENDS EvBev

McPrograms == {{"connect", "lookup", "setfd", "enable", "write", "free"},
               {"marks", "timeouts", "enable", "write", "read", "free"},
               {"limit", "decrement", "read"}, {"limit", "decrement", "write"},
               {"limit", "enable", "free"}, {"limit", "write", "free"},
               {"group", "two", "read"}, {"group", "write", "free"}}
McMarks == {<<0, 0>>, <<1, 2>>, <<0, 1>>}
McBurst == <<1, 2>>
==============================================================================
