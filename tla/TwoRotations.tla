---------------------------- MODULE TwoRotations ----------------------------
(***************************************************************************)
(* Two runs of rotate-smtp-relay-cert.py at once: the daily one of the     *)
(* rotation loop and the one an operator starts with relay-admin rotate.   *)
(* The program takes no lock, and relay-admin runs it in the same          *)
(* container, on the same files, whatever the loop is doing.  Each run is  *)
(* an instance of Rotation over the one world.                             *)
(***************************************************************************)
EXTENDS CertWorld

CONSTANTS
    Deaths,         \* how many runs may die (a bound)
    Portal          \* BOOLEAN: an administrator may delete keys at Entra

VARIABLES
    pcL, curL, memL, newL, forcedL, targetL,    \* the run of the loop
    pcH, curH, memH, newH, forcedH, targetH,    \* the run by hand
    leaked, deaths

loopRun == <<pcL, curL, memL, newL, forcedL, targetL>>
handRun == <<pcH, curH, memH, newH, forcedH, targetH>>
vars == <<worldVars, loopRun, handRun, leaked, deaths>>

Loop == INSTANCE Rotation WITH
    pc <- pcL, cur <- curL, mem <- memL, new <- newL, forced <- forcedL,
    target <- targetL, ForceAllowed <- FALSE

Hand == INSTANCE Rotation WITH
    pc <- pcH, cur <- curH, mem <- memH, new <- newH, forced <- forcedH,
    target <- targetH, ForceAllowed <- TRUE

Init == WorldInit /\ Loop!RotInit /\ Hand!RotInit

\* A rename needs its source.  One that has lost it to the other run raises.
SourceThere(step) ==
    /\ step \in {"swapKey"} => live.key # None
    /\ step = "swapCert" => live.cert # None
    /\ step = "putKey" => staged.key # None
    /\ step = "putCert" => staged.cert # None

LoopStep == SourceThere(pcL) /\ Loop!RotationStep /\ UNCHANGED handRun
HandStep == SourceThere(pcH) /\ Hand!RotationStep /\ UNCHANGED loopRun

Failure ==
    \/ /\ Loop!Die \/ Loop!RemoveReplyLost \/ Loop!AddReplyLost
       /\ UNCHANGED handRun
    \/ /\ Hand!Die \/ Hand!RemoveReplyLost \/ Hand!AddReplyLost
       /\ UNCHANGED loopRun

Environment ==
    /\ \/ \E k \in Certs \cup Foreign : Replicate(k) \/ GraceElapses(k)
       \/ \E c \in Certs : Ages(c)
       \/ Portal /\ \E c \in Certs : AdminDeletes(c)
    /\ UNCHANGED <<loopRun, handRun, leaked, deaths>>

Next == LoopStep \/ HandStep \/ Failure \/ Environment

Spec == Init /\ [][Next]_vars

-----------------------------------------------------------------------------
\* rotate-smtp-relay-cert.py:1109-1110 "a nonmatching record is an abandoned
\* staged credential and is safe to remove by exact ID": the certificate that
\* is live, between two swaps, is one the app registration still has.
RemovalIsSafe ==
    ({pcL, pcH} \cap Loop!SwapPCs = {} /\ ~torn /\ live.cert \notin revoked) =>
        Registered(live.cert)
=============================================================================
