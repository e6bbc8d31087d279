---------------------------- MODULE MCVxiStream ----------------------------
(* A small instance of VxiStream for TLC: calls without data, with data     *)
(* that fill the buffer, and with one word more than fits.                  *)
EXTENDS VxiStream

MCMenu == {<<"create", 1>>, <<"write", 2>>, <<"destroy", 0>>, <<"other", 0>>}
=============================================================================
