---------------------------- MODULE MCLauncher ----------------------------
(***************************************************************************)
(* Instances of Launcher for TLC                                           *)
(***************************************************************************)
EXTENDS Launcher, TLC

\* One trouble of each of these kinds
Once(S) == [k \in Kinds |-> IF k \in S THEN 1 ELSE 0]

\* Answers lost and commits torn, receipts given up on too early, and
\* transactions forgotten by the node.
Troubles == {Once({"lost", "external", "torn"}),
             Once({"slow", "external", "restart"}),
             Once({"drop", "lost", "restart"})}
Reorganized == {[Once({"reorg", "restart"}) EXCEPT !["age"] = NumMatches]}
LostOnly == {Once({"lost"})}
===========================================================================
