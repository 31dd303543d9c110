--------------------------- MODULE MCMailPipeline ---------------------------
(* Small instances of MailPipeline for TLC.                                *)
EXTENDS MailPipeline, TLC

(* Entries are interchangeable when none of them may hang; used by the     *)
(* runs that check only invariants.                                        *)
MCSymmetry == Permutations(Id)
=============================================================================
