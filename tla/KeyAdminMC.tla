----------------------------- MODULE KeyAdminMC -----------------------------
(* KeyAdmin with two certificates of its own and one command.  The certificates *)
(* are alike: it does not matter which of them is the first.                    *)
EXTENDS KeyAdmin

FirstOne == CHOOSE c \in Certs : TRUE

\* A command without an identity does not look at stamps: one case will do.
OneInit ==
    /\ HandInit /\ live = PairOf(FirstOne)
    /\ identified \/ unstamped = {live.cert}

OneFirst == OneInit /\ [][AdminNext]_adminVars /\ AdminFairness
=============================================================================
