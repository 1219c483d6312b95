--------------------------- MODULE MCAutocomplete ---------------------------
(* Instance of Autocomplete for TLC: see README, section 3.                    *)
EXTENDS Autocomplete

Events == {<<"char">>, <<"backspace">>, <<"enter">>, <<"char", "enter", "char">>}
=============================================================================
