------------------------------- MODULE Models -------------------------------
(***************************************************************************)
(* The list of models and the names it goes by (internal/model/models.go). *)
(* A name is what the code looks at: its family, and how it carries a      *)
(* date, if at all.                                                        *)
(***************************************************************************)
EXTENDS Integers, SequencesExt

CONSTANT Iterable   \* the names of the items of cloud_model.json

Names == [family : {"gpt", "claude", "other"}, date : {"none", "dash", "at"}]
NoName == [family |-> "none", date |-> "none"]

ASSUME ModelsAssumption == Iterable \in Seq(Names)

(* InitModels fills a map, so that an item that is repeated counts once.   *)
SupportedModels == ToSet(Iterable)

(* NormalizeModelName writes the date of a Claude model with "@".          *)
Normalize(m) ==
  IF m.family = "claude" /\ m.date = "dash" THEN [m EXCEPT !.date = "at"] ELSE m

IsModelSupported(m) == Normalize(m) \in SupportedModels

IsGPTModel(m) == m.family = "gpt"
=============================================================================
