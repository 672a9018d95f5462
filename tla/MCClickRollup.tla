---------------------------- MODULE MCClickRollup ----------------------------
(* Instances of ClickRollup for TLC. *)
EXTENDS ClickRollup

CONSTANTS l1, l2, w1, w2

MCEvents == 1..4
MCLinkOf == <<l1, l2, l1, l2>>
MCDayOf  == <<1, 1, 1, 1>>
=============================================================================
