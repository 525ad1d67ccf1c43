---------------------------- MODULE MCTokenUsage ----------------------------
(* A short prompt, and one of two messages. *)
EXTENDS TokenUsage

MCPrompts == { << <<"letter">> >>,
               << <<"wide", "punct", "letter">>, <<"letter", "blank", "wide">> >> }
=============================================================================
