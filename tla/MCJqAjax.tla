------------------------------ MODULE MCJqAjax ------------------------------
(* An instance of JqAjax for TLC: a request like that of the test client, with *)
(* global events and a timeout besides; and a synchronous one with beforeSend.  *)
(* Both go to another domain. *)
EXTENDS JqAjax
=============================================================================
