----------------------------- MODULE MCLockout -----------------------------
(* Instances of Lockout for TLC: times in ticks, scaled from the code's. *)
EXTENDS Lockout, TLC

(* An account that has yet to set its password and to enroll, and one with *)
(* both factors.                                                           *)
SomeAccounts == {NewAccount("admin", 0, 0), NewAccount("maintainer", 1, 1)}

SlotSymmetry == Permutations(Slots)
=============================================================================
