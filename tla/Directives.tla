----------------------------- MODULE Directives -----------------------------
(***************************************************************************)
(* What the formats of alt_printf and of alt_log's printf are made of:     *)
(* plain characters, %%, %c, %s and numbers, each with the argument that   *)
(* goes with it.                                                           *)
(***************************************************************************)
Verbatim(c) == [do |-> "text", char |-> c]
Percent == [do |-> "percent"]
Char(width, c) == [do |-> "char", width |-> width, char |-> c]
Str(width, s) == [do |-> "str", width |-> width, str |-> s]
Num(letter, zero, width, mods, v) ==
    [do |-> "num", letter |-> letter, zero |-> zero, width |-> width, mods |-> mods, v |-> v]
=============================================================================
