----------------------------- MODULE MCRequest -----------------------------
(* A GPT model, one without a date that the list repeats, and a Claude     *)
(* model with one, as the list writes them.                                *)
EXTENDS Request

MCIterable ==
  <<[family |-> "gpt", date |-> "none"],
    [family |-> "other", date |-> "none"],
    [family |-> "claude", date |-> "at"],
    [family |-> "other", date |-> "none"]>>

MCPrefix == <<"v1">>
=============================================================================
