------------------------------ MODULE MCInput ------------------------------
(* Input for TLC: a set of gpio buttons and a keyboard. *)
EXTENDS Input

MCKeyboards == {2}

=============================================================================
