---------------------------- MODULE WatchProofs ----------------------------
(***************************************************************************)
(* The safety of Watch, for every life of a token, every threshold and any *)
(* number of faults.                                                       *)
(***************************************************************************)
EXTENDS Watch, TLAPS

-----------------------------------------------------------------------------
\* The inductive invariant.

\* A loop that kept its count has had one failed refresh for every unit of life
\* its token spent below the margin, up to the threshold.
CountInv ==
    /\ tpc = "good" => failures = 0
    /\ ~restarted =>
         \/ failures >= AlertAfter
         \/ failures >= (IF tpc = "refresh" THEN MinRemaining - 1 ELSE MinRemaining) - life

\* Past the threshold, a pass that has reported finds the incident open once the
\* verifier can no longer find the token comfortable.
OpenInv ==
    failures >= AlertAfter =>
        /\ (tpc = "refresh" /\ life < Comfort) => "token-health" \in open \/ hasty
        /\ (tpc = "check" /\ life <= Comfort) => "token-health" \in open \/ hasty

\* Postfix is told after the rename, or starts after it.
ServedInv ==
    /\ rpc = "status" => inbound = "renewed"
    /\ RenewedIsServed

IInv == TypeOK /\ CountInv /\ OpenInv /\ ServedInv

-----------------------------------------------------------------------------
\* The names of the verifier's steps, categories and incidents.
LEMMA NamesKnown ==
    /\ "files" \in DOMAIN After
    /\ \A s \in DOMAIN After : After[s] \in DOMAIN After
    /\ {"token", "rotation"} \subseteq Categories
    /\ \A c \in Categories : category_event[c] \in Events
    /\ {"inbound-tls-health", "inbound-tls-expiring", "token-health",
        "oauth-rotation-health"} \subseteq Events
BY DEF After, Categories, category_event, Events

\* TypeOK, in two parts that different provers can do.
Switches ==
    /\ entra \in BOOLEAN /\ graph \in BOOLEAN /\ generator \in BOOLEAN
    /\ restarted \in BOOLEAN /\ hasty \in BOOLEAN /\ cut \in BOOLEAN
Shapes ==
    /\ tls \in {"off", "byo", "managed"}
    /\ inbound \in {"far", "window", "near", "renewed"}
    /\ postfix \in {"starting", "running"} /\ served \in {"none", "old", "new"}
    /\ tpc \in {"refresh", "good", "bad", "check"}
    /\ life \in 0 .. Lifetime /\ failures \in 0 .. AlertAfter + 1
    /\ rpc \in RotationPCs /\ last \in {"FAILED", "other"}
    /\ vpc \in DOMAIN After /\ bad \subseteq Categories
    /\ open \subseteq Events /\ faults \in 0 .. Faults

LEMMA TypeParts == /\ TypeOK <=> Switches /\ Shapes
                   /\ TypeOK' <=> Switches' /\ Shapes'
BY DEF TypeOK, Switches, Shapes

\* The initial states satisfy the invariant.
LEMMA InvInit == Init => IInv
<1> SUFFICES ASSUME Init PROVE IInv
  OBVIOUS
<1> USE LivesOrdered, AlertsInTime, FaultsAreNatural
<1>1. Switches
  BY Zenon DEF Init, Switches
<1>2. Shapes
  BY DEF Init, Shapes, RotationPCs, After
<1>3. CountInv /\ OpenInv /\ ServedInv
  BY DEF Init, CountInv, OpenInv, ServedInv, RenewedIsServed
<1> QED BY <1>1, <1>2, <1>3, TypeParts DEF IInv

\* Every step keeps the switches.
LEMMA SwitchesStep == Switches /\ [Next]_vars => Switches'
<1> SUFFICES ASSUME Switches, [Next]_vars PROVE Switches'
  OBVIOUS
<1> USE DEF Switches, Age, Alert, Due, vars, world, server, token, rotation, verifier
<1>1. CASE RefreshWorks
  BY Zenon, <1>1 DEF RefreshWorks, TokenStep
<1>2. CASE RefreshFails
  BY Zenon, <1>2 DEF RefreshFails, TokenStep
<1>3. CASE ReportGood
  BY Zenon, <1>3 DEF ReportGood, TokenStep
<1>4. CASE ReportBad
  BY Zenon, <1>4 DEF ReportBad, TokenStep
<1>5. CASE PassEnds
  BY Zenon, <1>5 DEF PassEnds, TokenStep
<1>6. CASE TlsOff
  BY Zenon, <1>6 DEF TlsOff, RotationStep
<1>7. CASE TlsNotDue
  BY Zenon, <1>7 DEF TlsNotDue, RotationStep
<1>8. CASE TlsOthers
  BY Zenon, <1>8 DEF TlsOthers, RotationStep
<1>9. CASE TlsStage
  BY Zenon, <1>9 DEF TlsStage, RotationStep
<1>10. CASE TlsSwap
  BY Zenon, <1>10 DEF TlsSwap, RotationStep
<1>11. CASE TlsReload
  BY Zenon, <1>11 DEF TlsReload, RotationStep
<1>12. CASE TlsReloadFails
  BY Zenon, <1>12 DEF TlsReloadFails
<1>13. CASE TlsRenewed
  BY Zenon, <1>13 DEF TlsRenewed, RotationStep
<1>14. CASE ReportTls
  BY Zenon, <1>14 DEF ReportTls, RotationStep
<1>15. CASE RotateWorks
  BY Zenon, <1>15 DEF RotateWorks, RotationStep
<1>16. CASE RotateFails
  BY Zenon, <1>16 DEF RotateFails, RotationStep
<1>17. CASE ReportRotation
  BY Zenon, <1>17 DEF ReportRotation, RotationStep
<1>18. CASE VerifyFiles
  BY Zenon, <1>18 DEF VerifyFiles, Verify
<1>19. CASE VerifyInbound
  BY Zenon, <1>19 DEF VerifyInbound, Verify
<1>20. CASE VerifyLog
  BY Zenon, <1>20 DEF VerifyLog, Verify
<1>21. CASE EntraFails
  BY Zenon, <1>21 DEF EntraFails, Fault
<1>22. CASE GraphFails
  BY Zenon, <1>22 DEF GraphFails, Fault
<1>23. CASE GeneratorFails
  BY Zenon, <1>23 DEF GeneratorFails, Fault
<1>24. CASE Mends
  BY Zenon, <1>24 DEF Mends
<1>25. CASE InboundAges
  BY Zenon, <1>25 DEF InboundAges, Fault
<1>26. CASE PostfixStarts
  BY Zenon, <1>26 DEF PostfixStarts
<1>27. CASE TokenDies
  BY Zenon, <1>27 DEF TokenDies, Fault
<1>28. CASE RotationDies
  BY Zenon, <1>28 DEF RotationDies, Fault
<1>29. CASE VerifierDies
  BY Zenon, <1>29 DEF VerifierDies, Fault
<1>30. CASE Restarts
  BY Zenon, <1>30 DEF Restarts, Fault
<1>31. ASSUME NEW category \in Categories, VerifyReport(category) PROVE Switches'
  BY Zenon, <1>31 DEF VerifyReport, Verify, Categories
<1>32. CASE UNCHANGED vars
  BY Zenon, <1>32
<1> HIDE DEF Switches, Age, Alert, Due, vars, world, server, token, rotation, verifier
<1> QED BY <1>1, <1>2, <1>3, <1>4, <1>5, <1>6, <1>7, <1>8, <1>9, <1>10, <1>11, <1>12, <1>13, <1>14, <1>15, <1>16, <1>17, <1>18, <1>19, <1>20, <1>21, <1>22, <1>23, <1>24, <1>25, <1>26, <1>27, <1>28, <1>29, <1>30, <1>31, <1>32
    DEF Next, TokenLoop, RotationLoop, VerifyLoop, World

\* Every step keeps the other shapes.
LEMMA ShapesStep == Shapes /\ [Next]_vars => Shapes'
<1> SUFFICES ASSUME Shapes, [Next]_vars PROVE Shapes'
  OBVIOUS
<1> USE LivesOrdered, AlertsInTime, FaultsAreNatural, NamesKnown
    DEF Shapes, RotationPCs, Age, Alert, Due, vars, world, server, token, rotation, verifier
<1>1. CASE RefreshWorks
  BY <1>1 DEF RefreshWorks, TokenStep
<1>2. CASE RefreshFails
  BY <1>2 DEF RefreshFails, TokenStep
<1>3. CASE ReportGood
  BY <1>3 DEF ReportGood, TokenStep
<1>4. CASE ReportBad
  BY <1>4 DEF ReportBad, TokenStep
<1>5. CASE PassEnds
  BY <1>5 DEF PassEnds, TokenStep
<1>6. CASE TlsOff
  BY <1>6 DEF TlsOff, RotationStep
<1>7. CASE TlsNotDue
  BY <1>7 DEF TlsNotDue, RotationStep
<1>8. CASE TlsOthers
  BY <1>8 DEF TlsOthers, RotationStep
<1>9. CASE TlsStage
  BY <1>9 DEF TlsStage, RotationStep
<1>10. CASE TlsSwap
  BY <1>10 DEF TlsSwap, RotationStep
<1>11. CASE TlsReload
  BY <1>11 DEF TlsReload, RotationStep
<1>12. CASE TlsReloadFails
  BY <1>12 DEF TlsReloadFails
<1>13. CASE TlsRenewed
  BY <1>13 DEF TlsRenewed, RotationStep
<1>14. CASE ReportTls
  BY <1>14 DEF ReportTls, RotationStep
<1>15. CASE RotateWorks
  BY <1>15 DEF RotateWorks, RotationStep
<1>16. CASE RotateFails
  BY <1>16 DEF RotateFails, RotationStep
<1>17. CASE ReportRotation
  BY <1>17 DEF ReportRotation, RotationStep
<1>18. CASE VerifyFiles
  BY <1>18 DEF VerifyFiles, Verify
<1>19. CASE VerifyInbound
  BY <1>19 DEF VerifyInbound, Verify
<1>20. CASE VerifyLog
  BY <1>20 DEF VerifyLog, Verify
<1>21. CASE EntraFails
  BY <1>21 DEF EntraFails, Fault
<1>22. CASE GraphFails
  BY <1>22 DEF GraphFails, Fault
<1>23. CASE GeneratorFails
  BY <1>23 DEF GeneratorFails, Fault
<1>24. CASE Mends
  BY <1>24 DEF Mends
<1>25. CASE InboundAges
  BY <1>25 DEF InboundAges, Fault
<1>26. CASE PostfixStarts
  BY <1>26 DEF PostfixStarts
<1>27. CASE TokenDies
  BY <1>27 DEF TokenDies, Fault
<1>28. CASE RotationDies
  BY <1>28 DEF RotationDies, Fault
<1>29. CASE VerifierDies
  BY <1>29 DEF VerifierDies, Fault
<1>30. CASE Restarts
  BY <1>30 DEF Restarts, Fault
<1>31. ASSUME NEW category \in Categories, VerifyReport(category) PROVE Shapes'
  <2>1. vpc' \in DOMAIN After
    BY <1>31 DEF VerifyReport, Verify
  <2>2. open' \subseteq Events
    BY <1>31 DEF VerifyReport
  <2>3. bad' \subseteq Categories
    BY <1>31 DEF VerifyReport
  <2> QED BY <1>31, <2>1, <2>2, <2>3 DEF VerifyReport, Verify
<1>32. CASE UNCHANGED vars
  BY <1>32
<1> HIDE DEF Shapes, RotationPCs, Age, Alert, Due, vars, world, server, token, rotation, verifier
<1> QED BY <1>1, <1>2, <1>3, <1>4, <1>5, <1>6, <1>7, <1>8, <1>9, <1>10, <1>11, <1>12, <1>13, <1>14, <1>15, <1>16, <1>17, <1>18, <1>19, <1>20, <1>21, <1>22, <1>23, <1>24, <1>25, <1>26, <1>27, <1>28, <1>29, <1>30, <1>31, <1>32
    DEF Next, TokenLoop, RotationLoop, VerifyLoop, World

\* The count of failures keeps up with the life of the token.
LEMMA CountStep == TypeOK /\ CountInv /\ [Next]_vars => CountInv'
<1> SUFFICES ASSUME TypeOK, CountInv, [Next]_vars PROVE CountInv'
  OBVIOUS
<1> USE LivesOrdered, AlertsInTime, FaultsAreNatural, NamesKnown
    DEF TypeOK, CountInv, Age, Alert, Due, vars, world, server, token, rotation, verifier
<1>1. CASE RefreshWorks
  BY <1>1 DEF RefreshWorks, TokenStep
<1>2. CASE RefreshFails
  BY <1>2 DEF RefreshFails, TokenStep
<1>3. CASE ReportGood
  BY <1>3 DEF ReportGood, TokenStep
<1>4. CASE ReportBad
  BY <1>4 DEF ReportBad, TokenStep
<1>5. CASE PassEnds
  BY <1>5 DEF PassEnds, TokenStep
<1>6. CASE TlsOff
  BY <1>6 DEF TlsOff, RotationStep
<1>7. CASE TlsNotDue
  BY <1>7 DEF TlsNotDue, RotationStep
<1>8. CASE TlsOthers
  BY <1>8 DEF TlsOthers, RotationStep
<1>9. CASE TlsStage
  BY <1>9 DEF TlsStage, RotationStep
<1>10. CASE TlsSwap
  BY <1>10 DEF TlsSwap, RotationStep
<1>11. CASE TlsReload
  BY <1>11 DEF TlsReload, RotationStep
<1>12. CASE TlsReloadFails
  BY <1>12 DEF TlsReloadFails
<1>13. CASE TlsRenewed
  BY <1>13 DEF TlsRenewed, RotationStep
<1>14. CASE ReportTls
  BY <1>14 DEF ReportTls, RotationStep
<1>15. CASE RotateWorks
  BY <1>15 DEF RotateWorks, RotationStep
<1>16. CASE RotateFails
  BY <1>16 DEF RotateFails, RotationStep
<1>17. CASE ReportRotation
  BY <1>17 DEF ReportRotation, RotationStep
<1>18. CASE VerifyFiles
  BY <1>18 DEF VerifyFiles, Verify
<1>19. CASE VerifyInbound
  BY <1>19 DEF VerifyInbound, Verify
<1>20. CASE VerifyLog
  BY <1>20 DEF VerifyLog, Verify
<1>21. CASE EntraFails
  BY <1>21 DEF EntraFails, Fault
<1>22. CASE GraphFails
  BY <1>22 DEF GraphFails, Fault
<1>23. CASE GeneratorFails
  BY <1>23 DEF GeneratorFails, Fault
<1>24. CASE Mends
  BY <1>24 DEF Mends
<1>25. CASE InboundAges
  BY <1>25 DEF InboundAges, Fault
<1>26. CASE PostfixStarts
  BY <1>26 DEF PostfixStarts
<1>27. CASE TokenDies
  BY <1>27 DEF TokenDies, Fault
<1>28. CASE RotationDies
  BY <1>28 DEF RotationDies, Fault
<1>29. CASE VerifierDies
  BY <1>29 DEF VerifierDies, Fault
<1>30. CASE Restarts
  BY <1>30 DEF Restarts, Fault
<1>31. ASSUME NEW category \in Categories, VerifyReport(category) PROVE CountInv'
  BY <1>31 DEF VerifyReport, Verify, Categories
<1>32. CASE UNCHANGED vars
  BY <1>32
<1> HIDE DEF TypeOK, CountInv, Age, Alert, Due, vars, world, server, token, rotation, verifier
<1> QED BY <1>1, <1>2, <1>3, <1>4, <1>5, <1>6, <1>7, <1>8, <1>9, <1>10, <1>11, <1>12, <1>13, <1>14, <1>15, <1>16, <1>17, <1>18, <1>19, <1>20, <1>21, <1>22, <1>23, <1>24, <1>25, <1>26, <1>27, <1>28, <1>29, <1>30, <1>31, <1>32
    DEF Next, TokenLoop, RotationLoop, VerifyLoop, World

\* What the verifier closes early is opened again in time.
LEMMA OpenStep == TypeOK /\ CountInv /\ OpenInv /\ [Next]_vars => OpenInv'
<1> SUFFICES ASSUME TypeOK, CountInv, OpenInv, [Next]_vars PROVE OpenInv'
  OBVIOUS
<1> USE LivesOrdered, AlertsInTime, FaultsAreNatural, NamesKnown
    DEF TypeOK, CountInv, OpenInv, category_event, Age, Alert, Due, vars, world, server, token, rotation, verifier
<1>1. CASE RefreshWorks
  BY <1>1 DEF RefreshWorks, TokenStep
<1>2. CASE RefreshFails
  BY <1>2 DEF RefreshFails, TokenStep
<1>3. CASE ReportGood
  BY <1>3 DEF ReportGood, TokenStep
<1>4. CASE ReportBad
  BY <1>4 DEF ReportBad, TokenStep
<1>5. CASE PassEnds
  BY <1>5 DEF PassEnds, TokenStep
<1>6. CASE TlsOff
  BY <1>6 DEF TlsOff, RotationStep
<1>7. CASE TlsNotDue
  BY <1>7 DEF TlsNotDue, RotationStep
<1>8. CASE TlsOthers
  BY <1>8 DEF TlsOthers, RotationStep
<1>9. CASE TlsStage
  BY <1>9 DEF TlsStage, RotationStep
<1>10. CASE TlsSwap
  BY <1>10 DEF TlsSwap, RotationStep
<1>11. CASE TlsReload
  BY <1>11 DEF TlsReload, RotationStep
<1>12. CASE TlsReloadFails
  BY <1>12 DEF TlsReloadFails
<1>13. CASE TlsRenewed
  BY <1>13 DEF TlsRenewed, RotationStep
<1>14. CASE ReportTls
  BY <1>14 DEF ReportTls, RotationStep
<1>15. CASE RotateWorks
  BY <1>15 DEF RotateWorks, RotationStep
<1>16. CASE RotateFails
  BY <1>16 DEF RotateFails, RotationStep
<1>17. CASE ReportRotation
  BY <1>17 DEF ReportRotation, RotationStep
<1>18. CASE VerifyFiles
  BY <1>18 DEF VerifyFiles, Verify
<1>19. CASE VerifyInbound
  BY <1>19 DEF VerifyInbound, Verify
<1>20. CASE VerifyLog
  BY <1>20 DEF VerifyLog, Verify
<1>21. CASE EntraFails
  BY <1>21 DEF EntraFails, Fault
<1>22. CASE GraphFails
  BY <1>22 DEF GraphFails, Fault
<1>23. CASE GeneratorFails
  BY <1>23 DEF GeneratorFails, Fault
<1>24. CASE Mends
  BY <1>24 DEF Mends
<1>25. CASE InboundAges
  BY <1>25 DEF InboundAges, Fault
<1>26. CASE PostfixStarts
  BY <1>26 DEF PostfixStarts
<1>27. CASE TokenDies
  BY <1>27 DEF TokenDies, Fault
<1>28. CASE RotationDies
  BY <1>28 DEF RotationDies, Fault
<1>29. CASE VerifierDies
  BY <1>29 DEF VerifierDies, Fault
<1>30. CASE Restarts
  BY <1>30 DEF Restarts, Fault
<1>31. ASSUME NEW category \in Categories, VerifyReport(category) PROVE OpenInv'
  <2>1. CASE category \in bad
    BY <1>31, <2>1 DEF VerifyReport, Verify, Categories
  <2>2. CASE category \notin bad /\ category = "token" /\ life <= Comfort
    <3>1. hasty'
      BY <1>31, <2>2, Zenon DEF VerifyReport
    <3> QED BY <3>1
  <2>3. CASE category \notin bad /\ category = "token" /\ ~(life <= Comfort)
    BY <1>31, <2>3 DEF VerifyReport, Verify
  <2>4. CASE category # "token"
    <3>1. hasty' = hasty
      BY <1>31, <2>4, Zenon DEF VerifyReport
    <3>2. category_event[category] # "token-health"
      BY <1>31, <2>4 DEF Categories
    <3> QED BY <1>31, <3>1, <3>2 DEF VerifyReport, Verify
  <2> QED BY <2>1, <2>2, <2>3, <2>4
<1>32. CASE UNCHANGED vars
  BY <1>32
<1> HIDE DEF TypeOK, CountInv, OpenInv, category_event, Age, Alert, Due, vars, world, server, token, rotation, verifier
<1> QED BY <1>1, <1>2, <1>3, <1>4, <1>5, <1>6, <1>7, <1>8, <1>9, <1>10, <1>11, <1>12, <1>13, <1>14, <1>15, <1>16, <1>17, <1>18, <1>19, <1>20, <1>21, <1>22, <1>23, <1>24, <1>25, <1>26, <1>27, <1>28, <1>29, <1>30, <1>31, <1>32
    DEF Next, TokenLoop, RotationLoop, VerifyLoop, World

\* A renewal is told to Postfix, or read by it when it starts.
LEMMA ServedStep == TypeOK /\ ServedInv /\ [Next]_vars => ServedInv'
<1> SUFFICES ASSUME TypeOK, ServedInv, [Next]_vars PROVE ServedInv'
  OBVIOUS
<1> USE LivesOrdered, AlertsInTime, FaultsAreNatural, NamesKnown
    DEF TypeOK, ServedInv, RenewedIsServed, Age, Alert, Due, vars, world, server, token, rotation, verifier
<1>1. CASE RefreshWorks
  BY <1>1 DEF RefreshWorks, TokenStep
<1>2. CASE RefreshFails
  BY <1>2 DEF RefreshFails, TokenStep
<1>3. CASE ReportGood
  BY <1>3 DEF ReportGood, TokenStep
<1>4. CASE ReportBad
  BY <1>4 DEF ReportBad, TokenStep
<1>5. CASE PassEnds
  BY <1>5 DEF PassEnds, TokenStep
<1>6. CASE TlsOff
  BY <1>6 DEF TlsOff, RotationStep
<1>7. CASE TlsNotDue
  BY <1>7 DEF TlsNotDue, RotationStep
<1>8. CASE TlsOthers
  BY <1>8 DEF TlsOthers, RotationStep
<1>9. CASE TlsStage
  BY <1>9 DEF TlsStage, RotationStep
<1>10. CASE TlsSwap
  BY <1>10 DEF TlsSwap, RotationStep
<1>11. CASE TlsReload
  BY <1>11 DEF TlsReload, RotationStep
<1>12. CASE TlsReloadFails
  BY <1>12 DEF TlsReloadFails
<1>13. CASE TlsRenewed
  BY <1>13 DEF TlsRenewed, RotationStep
<1>14. CASE ReportTls
  BY <1>14 DEF ReportTls, RotationStep
<1>15. CASE RotateWorks
  BY <1>15 DEF RotateWorks, RotationStep
<1>16. CASE RotateFails
  BY <1>16 DEF RotateFails, RotationStep
<1>17. CASE ReportRotation
  BY <1>17 DEF ReportRotation, RotationStep
<1>18. CASE VerifyFiles
  BY <1>18 DEF VerifyFiles, Verify
<1>19. CASE VerifyInbound
  BY <1>19 DEF VerifyInbound, Verify
<1>20. CASE VerifyLog
  BY <1>20 DEF VerifyLog, Verify
<1>21. CASE EntraFails
  BY <1>21 DEF EntraFails, Fault
<1>22. CASE GraphFails
  BY <1>22 DEF GraphFails, Fault
<1>23. CASE GeneratorFails
  BY <1>23 DEF GeneratorFails, Fault
<1>24. CASE Mends
  BY <1>24 DEF Mends
<1>25. CASE InboundAges
  BY <1>25 DEF InboundAges, Fault
<1>26. CASE PostfixStarts
  BY <1>26 DEF PostfixStarts
<1>27. CASE TokenDies
  BY <1>27 DEF TokenDies, Fault
<1>28. CASE RotationDies
  BY <1>28 DEF RotationDies, Fault
<1>29. CASE VerifierDies
  BY <1>29 DEF VerifierDies, Fault
<1>30. CASE Restarts
  BY <1>30 DEF Restarts, Fault
<1>31. ASSUME NEW category \in Categories, VerifyReport(category) PROVE ServedInv'
  BY <1>31 DEF VerifyReport, Verify, Categories
<1>32. CASE UNCHANGED vars
  BY <1>32
<1> HIDE DEF TypeOK, ServedInv, RenewedIsServed, Age, Alert, Due, vars, world, server, token, rotation, verifier
<1> QED BY <1>1, <1>2, <1>3, <1>4, <1>5, <1>6, <1>7, <1>8, <1>9, <1>10, <1>11, <1>12, <1>13, <1>14, <1>15, <1>16, <1>17, <1>18, <1>19, <1>20, <1>21, <1>22, <1>23, <1>24, <1>25, <1>26, <1>27, <1>28, <1>29, <1>30, <1>31, <1>32
    DEF Next, TokenLoop, RotationLoop, VerifyLoop, World

\* All of it is invariant.
THEOREM Inductive == Spec => []IInv
<1>1. IInv /\ [Next]_vars => IInv'
  BY TypeParts, SwitchesStep, ShapesStep, CountStep, OpenStep, ServedStep DEF IInv
<1> QED BY <1>1, InvInit, PTL DEF Spec

\* The world, the loops and the incidents have their shapes.
THEOREM TypeCorrect == Spec => []TypeOK
<1>1. IInv => TypeOK
  BY DEF IInv
<1> QED BY <1>1, Inductive, PTL

\* At the end of its life a token has cost as many failures as the margin has
\* passes, which is more than the threshold.
THEOREM PagedInTime == Spec => []PagedBeforeDead
<1>1. IInv => PagedBeforeDead
  BY LivesOrdered, AlertsInTime
     DEF IInv, TypeOK, CountInv, OpenInv, PagedBeforeDead
<1> QED BY <1>1, Inductive, PTL

\* A renewed certificate is the one that is served.
THEOREM RenewalIsServed == Spec => []RenewedIsServed
<1>1. IInv => RenewedIsServed
  BY DEF IInv, ServedInv
<1> QED BY <1>1, Inductive, PTL
=============================================================================
