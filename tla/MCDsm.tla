------------------------------- MODULE MCDsm -------------------------------
(***************************************************************************)
(* Instances of Dsm for TLC.  MaxMsg is the real 512, so a text of 507     *)
(* bytes is the longest that fits the write command "2 0 text".            *)
(***************************************************************************)
EXTENDS Dsm, TLC

Short   == [id |-> "a", len |-> 5]
Longest == [id |-> "b", len |-> 507]
TooLong == [id |-> "c", len |-> 511]

OneText   == {Short}
TwoTexts  == {Short, Longest}
EdgeTexts == {Longest, TooLong}

ThreeFds == 4 .. 6
TwoFds == 4 .. 5

Symmetric == Permutations(Sessions)
=============================================================================
