------------------------------ MODULE MCDownload ------------------------------
(* Items of an asset index: one whose sources race, or two names with one  *)
(* hash, which are one file of one source.                                 *)
EXTENDS Download
CONSTANTS object, c1, c2
OnePath == [c \in Calls |-> object]
OneStem == [c \in Calls |-> "object"]
OneRacesOrTwins == {[c \in {c1} |-> "race"], [c \in {c1, c2} |-> "single"]}
=============================================================================
