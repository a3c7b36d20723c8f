--------------------------- MODULE RecoveryProofs ---------------------------
(***************************************************************************)
(* The safety of Recovery for any number of certificates, resets, deaths   *)
(* and deletions.                                                          *)
(***************************************************************************)
EXTENDS Recovery, CertWorldProofs

-----------------------------------------------------------------------------
\* The inductive invariant.

\* A reset and a standby under way hold the certificate they generated.
HoldsNew == tpc \in ResetPCs \cup StagePCs => tnew \in Certs

TypeInv == TypeOK /\ HoldsNew

\* The check works on the state file it has read, which nobody else writes, and
\* a standby is on record exactly where the branches of run_recovery say so.
NoStandbyPCs == {"stage", "stageState", "adoptClear", "adoptRefresh", "discardClear",
                 "resetNotice"}
MemPCs == {"testOld", "stage", "testNew", "proveNew", "adopt", "adoptCert",
           "adoptPutKey", "adoptPutCert", "adoptState", "discard", "discardState"}
MemInv ==
    /\ ~up => tpc = "top"
    /\ tpc \in MemPCs => tmem = stateFile
    /\ tpc \in NoStandbyPCs => stateFile.rec = None

\* The notice and the record name pairs that are on disk; the steps between the
\* files and the notice prepare that, when no pass was cut there.
NoticeInv ==
    ~cut =>
      /\ NoticeHasKey
      /\ (tpc \notin Between /\ stateFile.rec # None) => standby = PairOf(stateFile.rec)
      /\ tpc = "resetPutCert" => live.key = tnew
      /\ tpc \in {"resetState", "resetNotice"} => live = PairOf(tnew)
      /\ tpc \in {"stageState", "stageNotice"} => standby = PairOf(tnew)
      /\ tpc = "stageNotice" => stateFile.rec = tnew

\* A standby that is being adopted was accepted, and what Entra has accepted is
\* registered until somebody deletes it.
Known(c) == Registered(c) \/ c \in revoked
TrustInv ==
    /\ standby.cert \in used \cup {None}
    /\ tpc \in {"resetCert", "resetPutKey", "resetPutCert"} => tnew # standby.cert
    /\ \A c \in Certs : app[c] = "removing" => c \in revoked
    /\ tpc \in {"proveNew", "adopt", "adoptCert", "adoptPutKey", "adoptPutCert"} =>
         standby.cert = None \/ Known(standby.cert)

\* A certificate that a reset or a recovery generates is new to Entra, and what
\* serves has been generated.
FreshInv ==
    /\ everLive \subseteq used /\ live.cert \in everLive \cup {None}
    /\ \A c \in Certs \ used : app[c] = "absent" /\ notice # c /\ c \notin revoked
    /\ tpc \in ResetPCs \cup StagePCs => tnew \in used
    /\ tpc \in {"resetCert", "resetPutKey", "resetPutCert"} \cup StagePCs =>
         /\ tnew \notin everLive /\ tnew \notin revoked
         /\ app[tnew] = "absent" /\ notice # tnew
    /\ tpc = "resetPutCert" => live.key = tnew
    /\ tpc \in {"resetState", "resetNotice"} => live.key = tnew /\ live.cert = tnew
    /\ standby.cert \notin everLive

\* The files, at each point of an adoption.
SwapInv ==
    /\ tpc \in {"testOld", "stage", "testNew", "proveNew", "adopt"} => tcur = live
    /\ tpc \in {"proveNew", "adopt", "adoptCert", "adoptPutKey"} =>
         standby.key = standby.cert /\ standby.cert # None
    /\ tpc \in {"adoptCert", "adoptPutKey"} => live.key = None
    /\ tpc \in {"adoptPutKey", "adoptPutCert"} => live.cert = None
    /\ tpc = "adoptPutCert" => live.key = standby.cert /\ standby.cert # None

IInv == TypeInv /\ MemInv /\ NoticeInv /\ TrustInv /\ FreshInv /\ SwapInv

-----------------------------------------------------------------------------
\* What the steps write to the state file.
LEMMA RecordValues ==
    ASSUME NEW s \in StateRecord
    PROVE  /\ ForgetFault(s) \in StateRecord /\ ForgetFault(s).rec = None
           /\ ClearStreak(s) \in StateRecord /\ ClearStreak(s).rec = s.rec
           /\ Older(s) \in StateRecord /\ Older(s).rec = s.rec
           /\ [s EXCEPT !.add = None, !.rem = None, !.rec = None] \in StateRecord
           /\ [s EXCEPT !.add = None, !.rem = None, !.rec = None].rec = None
<1> USE ThresholdsPositive, SlotValues DEF StateRecord, NoStamp
<1>1. ForgetFault(s) \in StateRecord /\ ForgetFault(s).rec = None
  <2> DEFINE r == [s EXCEPT !.rec = None]
             q == [r EXCEPT !.streak = 0]
             t == [q EXCEPT !.since = NoStamp]
  <2>1. r \in StateRecord /\ r.rec = None
    OBVIOUS
  <2> HIDE DEF r
  <2>2. q \in StateRecord /\ q.rec = None
    BY <2>1
  <2> HIDE DEF q
  <2>3. t \in StateRecord /\ t.rec = None
    BY <2>2
  <2> QED BY <2>3 DEF ForgetFault, q, r
<1>2. ClearStreak(s) \in StateRecord /\ ClearStreak(s).rec = s.rec
  BY DEF ClearStreak
<1>3. Older(s) \in StateRecord /\ Older(s).rec = s.rec
  BY DEF Older
<1>4. /\ [s EXCEPT !.add = None, !.rem = None, !.rec = None] \in StateRecord
      /\ [s EXCEPT !.add = None, !.rem = None, !.rec = None].rec = None
  OBVIOUS
<1> QED BY <1>1, <1>2, <1>3, <1>4

LEMMA FaultCounted ==
    ASSUME NEW s \in StateRecord
    PROVE  LET streak == IF s.streak < NeedStreak THEN s.streak + 1 ELSE s.streak
               since  == IF s.since = NoStamp THEN 0 ELSE s.since
               t == [s EXCEPT !.streak = streak, !.since = since]
           IN  t \in StateRecord /\ t.rec = s.rec
<1> DEFINE streak == IF s.streak < NeedStreak THEN s.streak + 1 ELSE s.streak
           since  == IF s.since = NoStamp THEN 0 ELSE s.since
<1>1. s.streak \in 0 .. NeedStreak /\ s.since \in {NoStamp} \cup 0 .. NeedWait
  BY DEF StateRecord
<1>2. streak \in 0 .. NeedStreak /\ since \in {NoStamp} \cup 0 .. NeedWait
  BY <1>1, ThresholdsPositive
<1> HIDE DEF streak, since
<1>3. /\ [s EXCEPT !.streak = streak, !.since = since] \in StateRecord
      /\ [s EXCEPT !.streak = streak, !.since = since].rec = s.rec
  BY <1>2 DEF StateRecord
<1> QED BY <1>3 DEF streak, since

LEMMA RecValues ==
    ASSUME NEW s \in StateRecord, NEW c \in Slot
    PROVE  [s EXCEPT !.rec = c] \in StateRecord
BY DEF StateRecord

\* The initial states satisfy the invariant.
LEMMA InvInit == Init => IInv
<1> SUFFICES ASSUME Init PROVE IInv
  OBVIOUS
<1>1. PICK c \in Certs : WorldInit!(c)
  BY DEF Init, WorldInit
<1> USE <1>1, SlotValues, PairValues, StateValues
<1>2. WorldTypeOK
  BY TokenValues DEF WorldTypeOK, KeyStatus, Age
<1>3. LoopTypeOK /\ tpc = "top"
  <2>1. cut \in BOOLEAN /\ tpc = "top"
    BY Zenon DEF Init, LoopInit
  <2>2. tcur \in Pair /\ tmem \in StateRecord /\ tnew \in Slot
    BY DEF Init, LoopInit
  <2>3. /\ resets \in 0 .. Resets /\ sound \in 0 .. NeedWait
        /\ loopDeaths \in 0 .. LoopDeaths /\ deletions \in 0 .. Deletions
    BY BoundsAreNatural, ThresholdsPositive DEF Init, LoopInit
  <2> QED BY <2>1, <2>2, <2>3 DEF LoopTypeOK, LoopPCs
<1>4. TypeInv /\ MemInv
  BY <1>2, <1>3 DEF TypeInv, TypeOK, HoldsNew, ResetPCs, StagePCs, MemInv, MemPCs,
     NoStandbyPCs
<1>5. NoticeInv /\ TrustInv
  BY <1>3 DEF NoticeInv, NoticeHasKey, TrustInv
<1>6. FreshInv /\ SwapInv
  BY <1>3 DEF FreshInv, SwapInv, ResetPCs, StagePCs
<1> QED BY <1>4, <1>5, <1>6 DEF IInv

-----------------------------------------------------------------------------
\* Every step keeps the types.
LEMMA TypeInvStep == TypeInv /\ [Next]_vars => TypeInv'
<1> SUFFICES ASSUME TypeInv, [Next]_vars PROVE TypeInv'
  OBVIOUS
<1> USE SlotValues, PairValues, StateValues, BoundsAreNatural
    DEF TypeInv, TypeOK, WorldTypeOK, LoopTypeOK, HoldsNew, LoopPCs, ResetPCs, AdoptPCs, StagePCs, DiscardPCs, files, entra, worldVars
<1>1. CASE ResetKey
  <2>1. PICK c \in Certs \ used : tnew' = c /\ used' = used \cup {c}
    BY <1>1 DEF ResetKey
  <2>2. live' \in Pair /\ previous' \in Pair
    <3>1. CASE Complete(live)
      <4>1. /\ previous' = [previous EXCEPT !.key = live.key]
            /\ live' = [live EXCEPT !.key = None]
        BY <1>1, <3>1 DEF ResetKey
      <4> QED BY <4>1, PairUpdates
    <3>2. CASE ~Complete(live)
      BY <1>1, <3>2 DEF ResetKey
    <3> QED BY <3>1, <3>2
  <2>3. tpc' \in {"resetCert", "resetPutKey"} /\ resets' \in 0 .. Resets
    BY <1>1 DEF ResetKey
  <2> QED BY <1>1, <2>1, <2>2, <2>3 DEF ResetKey
<1>2. CASE ResetCert
  BY <1>2, PairUpdates DEF ResetCert, TGoto
<1>3. CASE ResetPutKey
  BY <1>3, PairUpdates DEF ResetPutKey, TGoto
<1>4. CASE ResetPutCert
  <2>1. live' \in Pair /\ sound' \in 0 .. NeedWait
    <3>1. live' = [live EXCEPT !.cert = tnew] /\ sound' = 0
      BY <1>4 DEF ResetPutCert
    <3>2. live' \in Pair
      BY <3>1, PairUpdates
    <3> QED BY <3>1, <3>2, ThresholdsPositive
  <2>2. everLive' \subseteq Certs
    BY <1>4 DEF ResetPutCert
  <2> QED BY <1>4, <2>1, <2>2 DEF ResetPutCert
<1>5. CASE ResetState
  BY <1>5, RecordValues DEF ResetState, TGoto
<1>6. CASE ResetNotice
  BY <1>6 DEF ResetNotice
<1>7. CASE NoSentinel
  BY <1>7 DEF NoSentinel, TGoto
<1>8. CASE SkipMint
  BY <1>8 DEF SkipMint, TGoto
<1>9. CASE Mint
  <2>1. token' \in Token
    <3>1. [by |-> live.cert, life |-> "full"] \in Token
      BY TokenValues
    <3> QED BY <1>9, <3>1 DEF Mint, TGoto
  <2> QED BY <1>9, <2>1 DEF Mint, TGoto
<1>10. CASE MintFails
  BY <1>10 DEF MintFails, TGoto
<1>11. CASE ClearNotice
  BY <1>11 DEF ClearNotice, TGoto
<1>12. CASE HealthyShortcut
  <2>1. stateFile' \in StateRecord
    BY <1>12, RecordValues DEF HealthyShortcut
  <2>2. sound' \in 0 .. NeedWait
    BY <1>12, ThresholdsPositive DEF HealthyShortcut
  <2> QED BY <1>12, <2>1, <2>2 DEF HealthyShortcut
<1>13. CASE LoadLive
  BY <1>13 DEF LoadLive
<1>14. CASE OldWorks
  <2>1. ClearStreak(tmem) \in StateRecord
    BY RecordValues
  <2>2. stateFile' \in {stateFile, ClearStreak(tmem)} /\ tmem' \in {tmem, ClearStreak(tmem)}
    BY <1>14, Zenon DEF OldWorks, Save
  <2>3. sound' \in 0 .. NeedWait /\ tpc' \in {"discard", "sleep"}
    BY <1>14, ThresholdsPositive DEF OldWorks
  <2> QED BY <1>14, <2>1, <2>2, <2>3 DEF OldWorks
<1>15. CASE OldFailsUnclearly
  BY <1>15 DEF OldFailsUnclearly, TGoto
<1>16. CASE CountFault
  <2>1. tmem' \in StateRecord /\ stateFile' = tmem'
    BY <1>16, FaultCounted DEF CountFault, Save
  <2> QED BY <1>16, <2>1 DEF CountFault
<1>17. CASE StageStandby
  BY <1>17 DEF StageStandby
<1>18. CASE NothingToStage
  BY <1>18 DEF NothingToStage, TGoto
<1>19. CASE StageState
  <2>1. [stateFile EXCEPT !.rec = tnew] \in StateRecord
    BY RecValues
  <2> QED BY <1>19, <2>1 DEF StageState, TGoto
<1>20. CASE StageNotice
  BY <1>20 DEF StageNotice
<1>21. CASE TryStandby
  <2>1. [tmem EXCEPT !.rec = None] \in StateRecord
    BY RecValues
  <2>2. stateFile' \in {stateFile, [tmem EXCEPT !.rec = None]}
        /\ tmem' \in {tmem, [tmem EXCEPT !.rec = None]}
    BY <1>21 DEF TryStandby, TGoto, Save
  <2>3. /\ tpc' \in {"testNew", "sleep"}
        /\ UNCHANGED <<tcur, tnew, resets, sound, cut, loopDeaths>>
    BY <1>21 DEF TryStandby, TGoto
  <2> QED BY <1>21, <2>1, <2>2, <2>3 DEF TryStandby
<1>22. CASE StandbyRefused
  BY <1>22 DEF StandbyRefused, TGoto
<1>23. CASE StandbyTrusted
  BY <1>23 DEF StandbyTrusted, TGoto
<1>24. CASE StandbySends
  BY <1>24 DEF StandbySends, TGoto
<1>25. CASE AdoptKey
  BY <1>25, PairUpdates DEF AdoptKey, TGoto
<1>26. CASE AdoptCert
  BY <1>26, PairUpdates DEF AdoptCert, TGoto
<1>27. CASE AdoptPutKey
  BY <1>27, PairUpdates DEF AdoptPutKey, TGoto
<1>28. CASE AdoptPutCert
  <2>1. live' \in Pair /\ standby' \in Pair
    BY <1>28, PairUpdates DEF AdoptPutCert
  <2>2. everLive' \subseteq Certs /\ sound' \in 0 .. NeedWait
    BY <1>28, ThresholdsPositive DEF AdoptPutCert
  <2> QED BY <1>28, <2>1, <2>2 DEF AdoptPutCert
<1>29. CASE AdoptState
  <2>1. ForgetFault(tmem) \in StateRecord
    BY RecordValues
  <2>2. [ForgetFault(tmem) EXCEPT !.rem = tcur.cert] \in StateRecord
    BY <2>1, StateUpdates
  <2>3. tmem' \in {ForgetFault(tmem), [ForgetFault(tmem) EXCEPT !.rem = tcur.cert]}
        /\ stateFile' = tmem'
    BY <1>29 DEF AdoptState, Save, IsOutgoing
  <2> QED BY <1>29, <2>1, <2>2, <2>3 DEF AdoptState
<1>30. CASE AdoptClear
  BY <1>30 DEF AdoptClear, TGoto
<1>31. CASE AdoptRefresh
  <2>1. token' \in Token
    <3>1. [by |-> live.cert, life |-> "full"] \in Token
      BY TokenValues
    <3> QED BY <1>31, <3>1 DEF AdoptRefresh, TGoto
  <2> QED BY <1>31, <2>1 DEF AdoptRefresh, TGoto
<1>32. CASE DiscardFiles
  BY <1>32 DEF DiscardFiles, TGoto
<1>33. CASE DiscardState
  BY <1>33, RecordValues DEF DiscardState, Save
<1>34. CASE DiscardClear
  BY <1>34 DEF DiscardClear, TGoto
<1>35. CASE Sleep
  <2>1. stateFile' \in StateRecord
    BY <1>35, RecordValues DEF Sleep
  <2>2. token' \in Token
    <3>1. token' \in {token, [token EXCEPT !.life = "low"], [token EXCEPT !.life = "dead"]}
      BY <1>35 DEF Sleep
    <3>2. token \in Token
      OBVIOUS
    <3>3. /\ [token EXCEPT !.life = "low"] \in Token
          /\ [token EXCEPT !.life = "dead"] \in Token
      BY <3>2 DEF Token, Life
    <3> HIDE DEF TypeInv
    <3> QED BY <3>1, <3>2, <3>3
  <2>3. sound' \in 0 .. NeedWait
    BY <1>35, ThresholdsPositive DEF Sleep
  <2> QED BY <1>35, <2>1, <2>2, <2>3 DEF Sleep
<1>36. CASE LoopDies
  <2>1. cut' \in BOOLEAN
    BY <1>36, Zenon DEF LoopDies, ForgetPass
  <2> QED BY <1>36, <2>1, BoundsAreNatural DEF LoopDies, ForgetPass
<1>37. CASE ContainerStops
  <2>1. cut' \in BOOLEAN /\ up' \in BOOLEAN
    BY <1>37, Zenon DEF ContainerStops, ForgetPass, LosesToken
  <2>2. token' \in Token
    BY <1>37, TokenValues DEF ContainerStops, ForgetPass, LosesToken
  <2> QED BY <1>37, <2>1, <2>2, BoundsAreNatural DEF ContainerStops, ForgetPass, LosesToken
<1>38. CASE World
  <2> USE <1>38
  <2>1. ASSUME NEW c \in Certs, Replicate(c) PROVE TypeInv'
    BY <2>1, AppUpdates DEF World, Replicate, KeyStatus
  <2>2. ASSUME NEW c \in Certs, Expires(c) PROVE TypeInv'
    BY <2>2, SlotValues DEF World, Expires, Age
  <2>3. ASSUME NEW c \in Certs, OperatorUploads(c) PROVE TypeInv'
    BY <2>3, AppUpdates DEF World, OperatorUploads, KeyStatus
  <2>4. ASSUME NEW c \in Certs, AdminRestores(c) PROVE TypeInv'
    BY <2>4, AppUpdates DEF World, AdminRestores, KeyStatus
  <2>5. ASSUME NEW c \in Certs, AdminDeletes(c) PROVE TypeInv'
    BY <2>5, AppUpdates, BoundsAreNatural DEF World, AdminDeletes, KeyStatus
  <2>6. CASE BootGenerates
    BY <2>6 DEF World, BootGenerates
  <2>7. CASE BootMints
    <3>1. token' \in Token
      <4>1. [by |-> live.cert, life |-> "full"] \in Token
        BY TokenValues
      <4> QED BY <2>7, <4>1 DEF BootMints
    <3>2. up' \in BOOLEAN
      BY <2>7, Zenon DEF BootMints
    <3> QED BY <2>7, <3>1, <3>2 DEF World, BootMints
  <2> QED BY <2>1, <2>2, <2>3, <2>4, <2>5, <2>6, <2>7 DEF World, Boot
<1>39. CASE UNCHANGED vars
  BY <1>39 DEF vars, loopVars
<1> HIDE DEF TypeInv, TypeOK, WorldTypeOK, LoopTypeOK, HoldsNew, LoopPCs, ResetPCs, AdoptPCs, StagePCs, DiscardPCs, files, entra, worldVars
<1> QED BY <1>1, <1>2, <1>3, <1>4, <1>5, <1>6, <1>7, <1>8, <1>9, <1>10, <1>11, <1>12, <1>13, <1>14, <1>15, <1>16, <1>17, <1>18, <1>19, <1>20, <1>21, <1>22, <1>23, <1>24, <1>25, <1>26, <1>27, <1>28, <1>29, <1>30, <1>31, <1>32, <1>33, <1>34, <1>35, <1>36, <1>37, <1>38, <1>39
    DEF Next, LoopStep, ResetStep, AdoptStep, DiscardStep

\* Every step keeps the record and the memory together.
LEMMA MemStep == TypeInv /\ MemInv /\ [Next]_vars => MemInv'
<1> SUFFICES ASSUME TypeInv, MemInv, [Next]_vars PROVE MemInv'
  OBVIOUS
<1> USE StateValues
    DEF TypeInv, TypeOK, WorldTypeOK, LoopTypeOK, MemInv, MemPCs, NoStandbyPCs, files, entra, worldVars
<1>1. CASE ResetKey
  BY <1>1 DEF ResetKey
<1>2. CASE ResetCert
  BY <1>2 DEF ResetCert, TGoto
<1>3. CASE ResetPutKey
  BY <1>3 DEF ResetPutKey, TGoto
<1>4. CASE ResetPutCert
  BY <1>4 DEF ResetPutCert
<1>5. CASE ResetState
  BY <1>5, RecordValues DEF ResetState, TGoto
<1>6. CASE ResetNotice
  BY <1>6 DEF ResetNotice
<1>7. CASE NoSentinel
  BY <1>7 DEF NoSentinel, TGoto
<1>8. CASE SkipMint
  BY <1>8 DEF SkipMint, TGoto
<1>9. CASE Mint
  BY <1>9 DEF Mint, TGoto
<1>10. CASE MintFails
  BY <1>10 DEF MintFails, TGoto
<1>11. CASE ClearNotice
  BY <1>11 DEF ClearNotice, TGoto
<1>12. CASE HealthyShortcut
  BY <1>12, RecordValues DEF HealthyShortcut
<1>13. CASE LoadLive
  BY <1>13 DEF LoadLive
<1>14. CASE OldWorks
  BY <1>14, RecordValues DEF OldWorks, Save
<1>15. CASE OldFailsUnclearly
  BY <1>15 DEF OldFailsUnclearly, TGoto
<1>16. CASE CountFault
  BY <1>16, FaultCounted DEF CountFault, Save
<1>17. CASE StageStandby
  BY <1>17 DEF StageStandby
<1>18. CASE NothingToStage
  BY <1>18 DEF NothingToStage, TGoto
<1>19. CASE StageState
  BY <1>19, RecordUpdates, ThresholdsPositive DEF StageState, TGoto
<1>20. CASE StageNotice
  BY <1>20 DEF StageNotice
<1>21. CASE TryStandby
  BY <1>21, RecordUpdates, ThresholdsPositive DEF TryStandby, TGoto, Save
<1>22. CASE StandbyRefused
  BY <1>22 DEF StandbyRefused, TGoto
<1>23. CASE StandbyTrusted
  BY <1>23 DEF StandbyTrusted, TGoto
<1>24. CASE StandbySends
  BY <1>24 DEF StandbySends, TGoto
<1>25. CASE AdoptKey
  BY <1>25 DEF AdoptKey, TGoto
<1>26. CASE AdoptCert
  BY <1>26 DEF AdoptCert, TGoto
<1>27. CASE AdoptPutKey
  BY <1>27 DEF AdoptPutKey, TGoto
<1>28. CASE AdoptPutCert
  BY <1>28 DEF AdoptPutCert
<1>29. CASE AdoptState
  <2>1. ForgetFault(tmem) \in StateRecord /\ ForgetFault(tmem).rec = None
    BY RecordValues
  <2>2. [ForgetFault(tmem) EXCEPT !.rem = tcur.cert].rec = None
    BY <2>1 DEF StateRecord
  <2>3. tmem' \in {ForgetFault(tmem), [ForgetFault(tmem) EXCEPT !.rem = tcur.cert]}
        /\ stateFile' = tmem'
    BY <1>29 DEF AdoptState, Save, IsOutgoing
  <2> QED BY <1>29, <2>1, <2>2, <2>3 DEF AdoptState
<1>30. CASE AdoptClear
  BY <1>30 DEF AdoptClear, TGoto
<1>31. CASE AdoptRefresh
  BY <1>31 DEF AdoptRefresh, TGoto
<1>32. CASE DiscardFiles
  BY <1>32 DEF DiscardFiles, TGoto
<1>33. CASE DiscardState
  BY <1>33, RecordValues DEF DiscardState, Save
<1>34. CASE DiscardClear
  BY <1>34 DEF DiscardClear, TGoto
<1>35. CASE Sleep
  BY <1>35, RecordValues DEF Sleep
<1>36. CASE LoopDies
  BY <1>36 DEF LoopDies, ForgetPass
<1>37. CASE ContainerStops
  BY <1>37 DEF ContainerStops, ForgetPass, LosesToken
<1>38. CASE World
  <2> USE <1>38
  <2>1. ASSUME NEW c \in Certs, Replicate(c) PROVE MemInv'
    BY <2>1 DEF World, Replicate
  <2>2. ASSUME NEW c \in Certs, Expires(c) PROVE MemInv'
    BY <2>2 DEF World, Expires
  <2>3. ASSUME NEW c \in Certs, OperatorUploads(c) PROVE MemInv'
    BY <2>3 DEF World, OperatorUploads
  <2>4. ASSUME NEW c \in Certs, AdminRestores(c) PROVE MemInv'
    BY <2>4 DEF World, AdminRestores
  <2>5. ASSUME NEW c \in Certs, AdminDeletes(c) PROVE MemInv'
    BY <2>5 DEF World, AdminDeletes
  <2>6. CASE BootGenerates
    BY <2>6 DEF World, BootGenerates
  <2>7. CASE BootMints
    BY <2>7 DEF World, BootMints
  <2> QED BY <2>1, <2>2, <2>3, <2>4, <2>5, <2>6, <2>7 DEF World, Boot
<1>39. CASE UNCHANGED vars
  BY <1>39 DEF vars, loopVars
<1> HIDE DEF TypeInv, TypeOK, WorldTypeOK, LoopTypeOK, MemInv, MemPCs, NoStandbyPCs, files, entra, worldVars
<1> QED BY <1>1, <1>2, <1>3, <1>4, <1>5, <1>6, <1>7, <1>8, <1>9, <1>10, <1>11, <1>12, <1>13, <1>14, <1>15, <1>16, <1>17, <1>18, <1>19, <1>20, <1>21, <1>22, <1>23, <1>24, <1>25, <1>26, <1>27, <1>28, <1>29, <1>30, <1>31, <1>32, <1>33, <1>34, <1>35, <1>36, <1>37, <1>38, <1>39
    DEF Next, LoopStep, ResetStep, AdoptStep, DiscardStep

\* Every step keeps the notice, the record and the files together.
LEMMA NoticeStep == TypeInv /\ TypeInv' /\ MemInv /\ MemInv' /\ NoticeInv /\ [Next]_vars => NoticeInv'
<1> SUFFICES ASSUME TypeInv, TypeInv', MemInv, MemInv', NoticeInv, [Next]_vars PROVE NoticeInv'
  OBVIOUS
<1> USE SlotValues, PairValues, StateValues
    DEF TypeInv, TypeOK, WorldTypeOK, LoopTypeOK, HoldsNew, MemInv, MemPCs, NoStandbyPCs, NoticeInv, NoticeHasKey, Between, ResetPCs, AdoptPCs, StagePCs, DiscardPCs, Complete, files, entra, worldVars
<1>1. CASE ResetKey
  BY <1>1 DEF ResetKey
<1>2. CASE ResetCert
  BY <1>2 DEF ResetCert, TGoto
<1>3. CASE ResetPutKey
  BY <1>3, PairUpdates DEF ResetPutKey, TGoto
<1>4. CASE ResetPutCert
  <2>1. /\ live' = [live EXCEPT !.cert = tnew] /\ tnew \in Slot
        /\ tpc' = "resetState" /\ tpc = "resetPutCert"
        /\ UNCHANGED <<tnew, standby, stateFile, notice, cut>>
    BY <1>4 DEF ResetPutCert
  <2>2. live'.cert = tnew /\ live'.key = live.key
    BY <2>1, PairUpdates
  <2>3. ~cut => live' = PairOf(tnew)
    <3>1. live' \in Pair /\ (~cut => live.key = tnew)
      BY <2>1, PairUpdates
    <3> QED BY <2>1, <2>2, <3>1 DEF Pair, PairOf
  <2> QED BY <2>1, <2>3
<1>5. CASE ResetState
  BY <1>5, RecordValues DEF ResetState, TGoto
<1>6. CASE ResetNotice
  BY <1>6 DEF ResetNotice
<1>7. CASE NoSentinel
  BY <1>7 DEF NoSentinel, TGoto
<1>8. CASE SkipMint
  BY <1>8 DEF SkipMint, TGoto
<1>9. CASE Mint
  BY <1>9 DEF Mint, TGoto
<1>10. CASE MintFails
  BY <1>10 DEF MintFails, TGoto
<1>11. CASE ClearNotice
  BY <1>11 DEF ClearNotice, TGoto
<1>12. CASE HealthyShortcut
  BY <1>12, RecordValues DEF HealthyShortcut
<1>13. CASE LoadLive
  BY <1>13 DEF LoadLive
<1>14. CASE OldWorks
  BY <1>14, RecordValues DEF OldWorks, Save
<1>15. CASE OldFailsUnclearly
  BY <1>15 DEF OldFailsUnclearly, TGoto
<1>16. CASE CountFault
  BY <1>16, FaultCounted DEF CountFault, Save
<1>17. CASE StageStandby
  BY <1>17 DEF StageStandby
<1>18. CASE NothingToStage
  BY <1>18 DEF NothingToStage, TGoto
<1>19. CASE StageState
  BY <1>19, RecordUpdates, ThresholdsPositive DEF StageState, TGoto
<1>20. CASE StageNotice
  BY <1>20 DEF StageNotice
<1>21. CASE TryStandby
  BY <1>21, RecordUpdates, ThresholdsPositive DEF TryStandby, TGoto, Save
<1>22. CASE StandbyRefused
  BY <1>22 DEF StandbyRefused, TGoto
<1>23. CASE StandbyTrusted
  BY <1>23 DEF StandbyTrusted, TGoto
<1>24. CASE StandbySends
  BY <1>24 DEF StandbySends, TGoto
<1>25. CASE AdoptKey
  BY <1>25 DEF AdoptKey, TGoto
<1>26. CASE AdoptCert
  BY <1>26 DEF AdoptCert, TGoto
<1>27. CASE AdoptPutKey
  BY <1>27 DEF AdoptPutKey, TGoto
<1>28. CASE AdoptPutCert
  BY <1>28 DEF AdoptPutCert
<1>29. CASE AdoptState
  <2>1. ForgetFault(tmem) \in StateRecord /\ ForgetFault(tmem).rec = None
    BY RecordValues
  <2>2. [ForgetFault(tmem) EXCEPT !.rem = tcur.cert].rec = None
    BY <2>1 DEF StateRecord
  <2>3. tmem' \in {ForgetFault(tmem), [ForgetFault(tmem) EXCEPT !.rem = tcur.cert]}
        /\ stateFile' = tmem'
    BY <1>29 DEF AdoptState, Save, IsOutgoing
  <2> QED BY <1>29, <2>1, <2>2, <2>3 DEF AdoptState
<1>30. CASE AdoptClear
  BY <1>30 DEF AdoptClear, TGoto
<1>31. CASE AdoptRefresh
  BY <1>31 DEF AdoptRefresh, TGoto
<1>32. CASE DiscardFiles
  BY <1>32 DEF DiscardFiles, TGoto
<1>33. CASE DiscardState
  BY <1>33, RecordValues DEF DiscardState, Save
<1>34. CASE DiscardClear
  BY <1>34 DEF DiscardClear, TGoto
<1>35. CASE Sleep
  BY <1>35, RecordValues DEF Sleep
<1>36. CASE LoopDies
  BY <1>36 DEF LoopDies, ForgetPass
<1>37. CASE ContainerStops
  BY <1>37 DEF ContainerStops, ForgetPass, LosesToken
<1>38. CASE World
  <2> USE <1>38
  <2>1. ASSUME NEW c \in Certs, Replicate(c) PROVE NoticeInv'
    BY <2>1 DEF World, Replicate
  <2>2. ASSUME NEW c \in Certs, Expires(c) PROVE NoticeInv'
    BY <2>2 DEF World, Expires
  <2>3. ASSUME NEW c \in Certs, OperatorUploads(c) PROVE NoticeInv'
    BY <2>3 DEF World, OperatorUploads
  <2>4. ASSUME NEW c \in Certs, AdminRestores(c) PROVE NoticeInv'
    BY <2>4 DEF World, AdminRestores
  <2>5. ASSUME NEW c \in Certs, AdminDeletes(c) PROVE NoticeInv'
    BY <2>5 DEF World, AdminDeletes
  <2>6. CASE BootGenerates
    BY <2>6 DEF World, BootGenerates
  <2>7. CASE BootMints
    BY <2>7 DEF World, BootMints, MayStart
  <2> QED BY <2>1, <2>2, <2>3, <2>4, <2>5, <2>6, <2>7 DEF World, Boot
<1>39. CASE UNCHANGED vars
  BY <1>39 DEF vars, loopVars
<1> HIDE DEF TypeInv, TypeOK, WorldTypeOK, LoopTypeOK, HoldsNew, MemInv, MemPCs, NoStandbyPCs, NoticeInv, NoticeHasKey, Between, ResetPCs, AdoptPCs, StagePCs, DiscardPCs, Complete, files, entra, worldVars
<1> QED BY <1>1, <1>2, <1>3, <1>4, <1>5, <1>6, <1>7, <1>8, <1>9, <1>10, <1>11, <1>12, <1>13, <1>14, <1>15, <1>16, <1>17, <1>18, <1>19, <1>20, <1>21, <1>22, <1>23, <1>24, <1>25, <1>26, <1>27, <1>28, <1>29, <1>30, <1>31, <1>32, <1>33, <1>34, <1>35, <1>36, <1>37, <1>38, <1>39
    DEF Next, LoopStep, ResetStep, AdoptStep, DiscardStep

\* Every step keeps what is known of the standby.
LEMMA TrustStep == TypeInv /\ TrustInv /\ [Next]_vars => TrustInv'
<1> SUFFICES ASSUME TypeInv, TrustInv, [Next]_vars PROVE TrustInv'
  OBVIOUS
<1> USE SlotValues, PairValues
    DEF TypeInv, TypeOK, WorldTypeOK, LoopTypeOK, HoldsNew, ResetPCs, StagePCs, TrustInv, Known, Registered, Complete, files, entra, worldVars
<1>1. CASE ResetKey
  BY <1>1 DEF ResetKey
<1>2. CASE ResetCert
  BY <1>2 DEF ResetCert, TGoto
<1>3. CASE ResetPutKey
  BY <1>3 DEF ResetPutKey, TGoto
<1>4. CASE ResetPutCert
  BY <1>4 DEF ResetPutCert
<1>5. CASE ResetState
  BY <1>5 DEF ResetState, TGoto
<1>6. CASE ResetNotice
  BY <1>6 DEF ResetNotice
<1>7. CASE NoSentinel
  BY <1>7 DEF NoSentinel, TGoto
<1>8. CASE SkipMint
  BY <1>8 DEF SkipMint, TGoto
<1>9. CASE Mint
  BY <1>9 DEF Mint, TGoto
<1>10. CASE MintFails
  BY <1>10 DEF MintFails, TGoto
<1>11. CASE ClearNotice
  BY <1>11 DEF ClearNotice, TGoto
<1>12. CASE HealthyShortcut
  BY <1>12 DEF HealthyShortcut
<1>13. CASE LoadLive
  BY <1>13 DEF LoadLive
<1>14. CASE OldWorks
  BY <1>14 DEF OldWorks, Save
<1>15. CASE OldFailsUnclearly
  BY <1>15 DEF OldFailsUnclearly, TGoto
<1>16. CASE CountFault
  BY <1>16 DEF CountFault, Save
<1>17. CASE StageStandby
  BY <1>17 DEF StageStandby
<1>18. CASE NothingToStage
  BY <1>18 DEF NothingToStage, TGoto
<1>19. CASE StageState
  BY <1>19 DEF StageState, TGoto
<1>20. CASE StageNotice
  BY <1>20 DEF StageNotice
<1>21. CASE TryStandby
  BY <1>21 DEF TryStandby, TGoto, Save
<1>22. CASE StandbyRefused
  BY <1>22 DEF StandbyRefused, TGoto
<1>23. CASE StandbyTrusted
  BY <1>23 DEF StandbyTrusted, TGoto, Accepted, KeyStatus
<1>24. CASE StandbySends
  BY <1>24 DEF StandbySends, TGoto
<1>25. CASE AdoptKey
  BY <1>25 DEF AdoptKey, TGoto
<1>26. CASE AdoptCert
  BY <1>26 DEF AdoptCert, TGoto
<1>27. CASE AdoptPutKey
  BY <1>27, PairUpdates DEF AdoptPutKey, TGoto
<1>28. CASE AdoptPutCert
  BY <1>28, PairUpdates DEF AdoptPutCert
<1>29. CASE AdoptState
  BY <1>29 DEF AdoptState, Save
<1>30. CASE AdoptClear
  BY <1>30 DEF AdoptClear, TGoto
<1>31. CASE AdoptRefresh
  BY <1>31 DEF AdoptRefresh, TGoto
<1>32. CASE DiscardFiles
  BY <1>32 DEF DiscardFiles, TGoto
<1>33. CASE DiscardState
  BY <1>33 DEF DiscardState, Save
<1>34. CASE DiscardClear
  BY <1>34 DEF DiscardClear, TGoto
<1>35. CASE Sleep
  BY <1>35 DEF Sleep
<1>36. CASE LoopDies
  BY <1>36 DEF LoopDies, ForgetPass
<1>37. CASE ContainerStops
  BY <1>37 DEF ContainerStops, ForgetPass, LosesToken
<1>38. CASE World
  <2> USE <1>38
  <2>1. ASSUME NEW c \in Certs, Replicate(c) PROVE TrustInv'
    BY <2>1 DEF World, Replicate
  <2>2. ASSUME NEW c \in Certs, Expires(c) PROVE TrustInv'
    BY <2>2 DEF World, Expires
  <2>3. ASSUME NEW c \in Certs, OperatorUploads(c) PROVE TrustInv'
    BY <2>3 DEF World, OperatorUploads
  <2>4. ASSUME NEW c \in Certs, AdminRestores(c) PROVE TrustInv'
    BY <2>4 DEF World, AdminRestores
  <2>5. ASSUME NEW c \in Certs, AdminDeletes(c) PROVE TrustInv'
    BY <2>5 DEF World, AdminDeletes
  <2>6. CASE BootGenerates
    BY <2>6 DEF World, BootGenerates
  <2>7. CASE BootMints
    BY <2>7 DEF World, BootMints
  <2> QED BY <2>1, <2>2, <2>3, <2>4, <2>5, <2>6, <2>7 DEF World, Boot
<1>39. CASE UNCHANGED vars
  BY <1>39 DEF vars, loopVars
<1> HIDE DEF TypeInv, TypeOK, WorldTypeOK, LoopTypeOK, HoldsNew, ResetPCs, StagePCs, TrustInv, Known, Registered, Complete, files, entra, worldVars
<1> QED BY <1>1, <1>2, <1>3, <1>4, <1>5, <1>6, <1>7, <1>8, <1>9, <1>10, <1>11, <1>12, <1>13, <1>14, <1>15, <1>16, <1>17, <1>18, <1>19, <1>20, <1>21, <1>22, <1>23, <1>24, <1>25, <1>26, <1>27, <1>28, <1>29, <1>30, <1>31, <1>32, <1>33, <1>34, <1>35, <1>36, <1>37, <1>38, <1>39
    DEF Next, LoopStep, ResetStep, AdoptStep, DiscardStep

\* A new certificate stays unknown to Entra until its notice is up.
LEMMA FreshStep == TypeInv /\ MemInv /\ TrustInv /\ FreshInv /\ [Next]_vars => FreshInv'
<1> SUFFICES ASSUME TypeInv, MemInv, TrustInv, FreshInv, [Next]_vars PROVE FreshInv'
  OBVIOUS
<1> USE SlotValues, PairValues
    DEF TypeInv, TypeOK, WorldTypeOK, LoopTypeOK, HoldsNew, MemInv, TrustInv, FreshInv, ResetPCs,
        StagePCs, AdoptPCs, DiscardPCs, Registered, Complete, files, entra, worldVars
<1>1. CASE ResetKey
  <2>1. PICK c \in Certs \ used : tnew' = c /\ used' = used \cup {c}
    BY <1>1 DEF ResetKey
  <2>2. live'.cert = live.cert
    <3>1. live' \in {live, [live EXCEPT !.key = None]}
      BY <1>1 DEF ResetKey
    <3>2. [live EXCEPT !.key = None].cert = live.cert
      BY PairUpdates
    <3> QED BY ONLY <3>1, <3>2
  <2>3. /\ tpc' \in {"resetCert", "resetPutKey"}
        /\ UNCHANGED <<app, notice, revoked, everLive, standby>>
    BY <1>1 DEF ResetKey
  <2>4. /\ c \notin everLive /\ c \notin revoked /\ app[c] = "absent" /\ notice # c
        /\ tnew' = c
    BY <2>1
  <2> QED BY <2>1, <2>2, <2>3, <2>4
<1>2. CASE ResetCert
  BY <1>2, PairUpdates DEF ResetCert, TGoto
<1>3. CASE ResetPutKey
  BY <1>3, PairUpdates DEF ResetPutKey, TGoto
<1>4. CASE ResetPutCert
  BY <1>4, PairUpdates DEF ResetPutCert
<1>5. CASE ResetState \/ ResetNotice
  BY <1>5 DEF ResetState, ResetNotice, TGoto
<1>6. CASE NoSentinel \/ SkipMint \/ Mint \/ MintFails \/ ClearNotice
  BY <1>6 DEF NoSentinel, SkipMint, Mint, MintFails, ClearNotice, TGoto
<1>7. CASE HealthyShortcut \/ LoadLive \/ OldWorks \/ OldFailsUnclearly \/ CountFault
  BY <1>7 DEF HealthyShortcut, LoadLive, OldWorks, OldFailsUnclearly, CountFault, TGoto, Save
<1>8. CASE NothingToStage \/ StageState \/ TryStandby \/ StandbyRefused \/ StandbyTrusted \/ StandbySends
  BY <1>8 DEF NothingToStage, StageState, TryStandby, StandbyRefused, StandbyTrusted, StandbySends, TGoto, Save
<1>9. CASE DiscardFiles \/ DiscardState \/ DiscardClear \/ Sleep \/ LoopDies \/ ContainerStops
  BY <1>9 DEF DiscardFiles, DiscardState, DiscardClear, Sleep, LoopDies, ContainerStops, TGoto, Save, ForgetPass, LosesToken
<1>10. CASE StageStandby \/ StageNotice
  BY <1>10 DEF StageStandby, StageNotice
<1>11. CASE AdoptKey
  BY <1>11, PairUpdates DEF AdoptKey, TGoto
<1>12. CASE AdoptCert
  BY <1>12, PairUpdates DEF AdoptCert, TGoto
<1>13. CASE AdoptPutKey
  BY <1>13, PairUpdates DEF AdoptPutKey, TGoto
<1>14. CASE AdoptPutCert
  BY <1>14, PairUpdates DEF AdoptPutCert
<1>15. CASE AdoptState \/ AdoptClear \/ AdoptRefresh
  BY <1>15 DEF AdoptState, AdoptClear, AdoptRefresh, TGoto, Save
<1>16. CASE World
  <2> USE <1>16 DEF World
  <2>1. ASSUME NEW c \in Certs, Replicate(c) PROVE FreshInv'
    BY <2>1 DEF Replicate
  <2>2. ASSUME NEW c \in Certs, Expires(c) PROVE FreshInv'
    BY <2>2 DEF Expires
  <2>3. ASSUME NEW c \in Certs, OperatorUploads(c) PROVE FreshInv'
    BY <2>3 DEF OperatorUploads
  <2>4. ASSUME NEW c \in Certs, AdminRestores(c) PROVE FreshInv'
    BY <2>4 DEF AdminRestores
  <2>5. ASSUME NEW c \in Certs, AdminDeletes(c) PROVE FreshInv'
    BY <2>5 DEF AdminDeletes
  <2>6. CASE BootGenerates
    BY <2>6 DEF BootGenerates
  <2>7. CASE BootMints
    BY <2>7 DEF BootMints
  <2> QED BY <2>1, <2>2, <2>3, <2>4, <2>5, <2>6, <2>7 DEF Boot
<1>17. CASE UNCHANGED vars
  BY <1>17 DEF vars, loopVars
<1> HIDE DEF TypeInv, TypeOK, WorldTypeOK, LoopTypeOK, HoldsNew, MemInv, TrustInv, FreshInv, ResetPCs,
        StagePCs, AdoptPCs, DiscardPCs, Registered, Complete, files, entra, worldVars
<1> QED BY <1>1, <1>2, <1>3, <1>4, <1>5, <1>6, <1>7, <1>8, <1>9, <1>10, <1>11, <1>12, <1>13, <1>14, <1>15, <1>16, <1>17
    DEF Next, LoopStep, ResetStep, AdoptStep, DiscardStep

\* An adoption moves the standby, whole, into the place of the live pair.
LEMMA SwapStep == TypeInv /\ MemInv /\ SwapInv /\ [Next]_vars => SwapInv'
<1> SUFFICES ASSUME TypeInv, MemInv, SwapInv, [Next]_vars PROVE SwapInv'
  OBVIOUS
<1> USE SlotValues, PairValues
    DEF TypeInv, TypeOK, WorldTypeOK, LoopTypeOK, MemInv, SwapInv, ResetPCs,
        StagePCs, AdoptPCs, DiscardPCs, Accepted, Complete, files, entra, worldVars
<1>1. CASE ResetKey \/ ResetCert \/ ResetPutKey \/ ResetPutCert \/ ResetState \/ ResetNotice
  BY <1>1 DEF ResetKey, ResetCert, ResetPutKey, ResetPutCert, ResetState, ResetNotice, TGoto
<1>2. CASE NoSentinel \/ SkipMint \/ Mint \/ MintFails \/ ClearNotice
  BY <1>2 DEF NoSentinel, SkipMint, Mint, MintFails, ClearNotice, TGoto
<1>3. CASE HealthyShortcut \/ LoadLive \/ OldWorks \/ OldFailsUnclearly \/ CountFault
  BY <1>3 DEF HealthyShortcut, LoadLive, OldWorks, OldFailsUnclearly, CountFault, TGoto, Save
<1>4. CASE NothingToStage \/ StageState \/ TryStandby \/ StandbyRefused \/ StandbyTrusted \/ StandbySends
  BY <1>4 DEF NothingToStage, StageState, TryStandby, StandbyRefused, StandbyTrusted, StandbySends, TGoto, Save
<1>5. CASE DiscardFiles \/ DiscardState \/ DiscardClear \/ Sleep \/ LoopDies \/ ContainerStops
  BY <1>5 DEF DiscardFiles, DiscardState, DiscardClear, Sleep, LoopDies, ContainerStops, TGoto, Save, ForgetPass, LosesToken
<1>6. CASE StageStandby \/ StageNotice
  BY <1>6 DEF StageStandby, StageNotice
<1>7. CASE AdoptKey
  BY <1>7, PairUpdates DEF AdoptKey, TGoto
<1>8. CASE AdoptCert
  BY <1>8, PairUpdates DEF AdoptCert, TGoto
<1>9. CASE AdoptPutKey
  BY <1>9, PairUpdates DEF AdoptPutKey, TGoto
<1>10. CASE AdoptPutCert
  BY <1>10, PairUpdates DEF AdoptPutCert
<1>11. CASE AdoptState \/ AdoptClear \/ AdoptRefresh
  BY <1>11 DEF AdoptState, AdoptClear, AdoptRefresh, TGoto, Save
<1>12. CASE World
  <2> USE <1>12 DEF World
  <2>1. ASSUME NEW c \in Certs, Replicate(c) PROVE SwapInv'
    BY <2>1 DEF Replicate
  <2>2. ASSUME NEW c \in Certs, Expires(c) PROVE SwapInv'
    BY <2>2 DEF Expires
  <2>3. ASSUME NEW c \in Certs, OperatorUploads(c) PROVE SwapInv'
    BY <2>3 DEF OperatorUploads
  <2>4. ASSUME NEW c \in Certs, AdminRestores(c) PROVE SwapInv'
    BY <2>4 DEF AdminRestores
  <2>5. ASSUME NEW c \in Certs, AdminDeletes(c) PROVE SwapInv'
    BY <2>5 DEF AdminDeletes
  <2>6. CASE BootGenerates
    BY <2>6 DEF BootGenerates
  <2>7. CASE BootMints
    BY <2>7 DEF BootMints
  <2> QED BY <2>1, <2>2, <2>3, <2>4, <2>5, <2>6, <2>7 DEF Boot
<1>13. CASE UNCHANGED vars
  BY <1>13 DEF vars, loopVars
<1> HIDE DEF TypeInv, TypeOK, WorldTypeOK, LoopTypeOK, MemInv, SwapInv, ResetPCs,
        StagePCs, AdoptPCs, DiscardPCs, Accepted, Complete, files, entra, worldVars
<1> QED BY <1>1, <1>2, <1>3, <1>4, <1>5, <1>6, <1>7, <1>8, <1>9, <1>10, <1>11, <1>12, <1>13
    DEF Next, LoopStep, ResetStep, AdoptStep, DiscardStep

-----------------------------------------------------------------------------
\* All of it is invariant.
THEOREM Inductive == Spec => []IInv
<1>1. IInv /\ [Next]_vars => IInv'
  BY TypeInvStep, MemStep, NoticeStep, TrustStep, FreshStep, SwapStep DEF IInv
<1> QED BY <1>1, InvInit, PTL DEF Spec

\* The files, the records and the pass have their shapes.
THEOREM TypeCorrect == Spec => []TypeOK
<1>1. IInv => TypeOK
  BY DEF IInv, TypeInv
<1> QED BY <1>1, Inductive, PTL

\* The operator is asked to upload what the relay has the key of.
THEOREM NoticeIsUsable == Spec => []NoticeHasKey
<1>1. IInv => NoticeHasKey
  BY DEF IInv, NoticeInv, NoticeHasKey
<1> QED BY <1>1, Inductive, PTL

\* Only one standby is in flight: the files of the one on record are never
\* written over with another's.
THEOREM StandbyStands == Spec => OneStandby
<1> DEFINE A == \A c, d \in Certs :
                  (stateFile.rec = c /\ standby.cert = c /\ c # d) => standby'.cert # d
<1>1. IInv /\ [Next]_vars => A
  <2> SUFFICES ASSUME IInv, [Next]_vars, NEW c \in Certs, NEW d \in Certs,
                      stateFile.rec = c, standby.cert = c, c # d
               PROVE  standby'.cert # d
    OBVIOUS
  <2> USE SlotValues, PairValues DEF IInv, TypeInv, TypeOK, WorldTypeOK, files, entra,
          worldVars, loopVars, vars, TGoto, Save
  <2>1. tpc # "stage"
    BY DEF MemInv, NoStandbyPCs
  <2>2. standby' \in {standby, NoPair, [standby EXCEPT !.key = None],
                     [standby EXCEPT !.cert = None]}
    <3>1. CASE ResetStep
      BY <3>1 DEF ResetStep, ResetKey, ResetCert, ResetPutKey, ResetPutCert, ResetState,
         ResetNotice
    <3>2. CASE AdoptStep
      BY <3>2 DEF AdoptStep, AdoptKey, AdoptCert, AdoptPutKey, AdoptPutCert, AdoptState,
         AdoptClear, AdoptRefresh
    <3>3. CASE DiscardStep
      BY <3>3 DEF DiscardStep, DiscardFiles, DiscardState, DiscardClear
    <3>4. CASE NoSentinel \/ SkipMint \/ Mint \/ MintFails \/ ClearNotice
      BY <3>4 DEF NoSentinel, SkipMint, Mint, MintFails, ClearNotice
    <3>5. CASE HealthyShortcut \/ LoadLive \/ OldWorks \/ OldFailsUnclearly
      BY <3>5 DEF HealthyShortcut, LoadLive, OldWorks, OldFailsUnclearly
    <3>6. CASE CountFault \/ StageStandby \/ NothingToStage \/ StageState \/ StageNotice
      BY <3>6, <2>1 DEF CountFault, StageStandby, NothingToStage, StageState, StageNotice
    <3>7. CASE TryStandby \/ StandbyRefused \/ StandbyTrusted \/ StandbySends
      BY <3>7 DEF TryStandby, StandbyRefused, StandbyTrusted, StandbySends
    <3>8. CASE Sleep \/ LoopDies \/ ContainerStops
      BY <3>8 DEF Sleep, LoopDies, ContainerStops
    <3>9. CASE World
      BY <3>9 DEF World, Boot, BootMints, BootGenerates, Replicate, Expires,
         OperatorUploads, AdminRestores, AdminDeletes
    <3>10. CASE UNCHANGED vars
      BY <3>10
    <3> QED BY <3>1, <3>2, <3>3, <3>4, <3>5, <3>6, <3>7, <3>8, <3>9, <3>10
         DEF Next, LoopStep
  <2>3. /\ [standby EXCEPT !.key = None].cert = standby.cert
        /\ [standby EXCEPT !.cert = None].cert = None
    BY DEF Pair
  <2>4. standby'.cert \in {standby.cert, None}
    BY <2>2, <2>3
  <2> QED BY <2>4
<1>2. IInv /\ [Next]_vars => [A]_vars
  BY <1>1
<1>3. Spec => [][A]_vars
  BY <1>2, Inductive, PTL DEF Spec
<1> QED BY <1>3 DEF OneStandby

\* What the recovery puts in service is a certificate that Entra has accepted.
THEOREM AdoptionIsTrusted == Spec => AdoptsOnlyTrusted
<1> DEFINE A == \A c \in Certs :
                  (standby.cert = c /\ live'.cert = c /\ live.cert # c) =>
                      Registered(c) \/ c \in revoked
<1>1. IInv /\ [Next]_vars => A
  <2> SUFFICES ASSUME IInv, [Next]_vars, NEW c \in Certs,
                      standby.cert = c, live'.cert = c, live.cert # c
               PROVE  Registered(c) \/ c \in revoked
    OBVIOUS
  <2> USE SlotValues, PairValues DEF IInv, TypeInv, TypeOK, WorldTypeOK, LoopTypeOK,
          TrustInv, Known, files, entra, worldVars, loopVars, vars, TGoto, Save
  <2>11. /\ [live EXCEPT !.cert = None].cert = None
         /\ \A s \in Slot : [live EXCEPT !.key = s].cert = live.cert
         /\ standby.key \in Slot /\ tnew \in Slot /\ None \in Slot
    BY DEF Pair
  <2>1. CASE ResetStep
    <3>1. CASE ResetPutCert
      <4>1. live' = [live EXCEPT !.cert = tnew] /\ tnew # standby.cert
        BY <3>1 DEF ResetPutCert
      <4>2. tnew \in Slot /\ live \in Pair
        OBVIOUS
      <4>3. live'.cert = tnew
        BY <4>1, <4>2, PairUpdates
      <4> QED BY <4>1, <4>3
    <3>2. CASE ~ResetPutCert
      <4>1. live' \in {live, [live EXCEPT !.key = None], [live EXCEPT !.cert = None],
                      [live EXCEPT !.key = tnew]}
        BY <2>1, <3>2 DEF ResetStep, ResetKey, ResetCert, ResetPutKey, ResetState,
           ResetNotice
      <4>2. live'.cert \in {live.cert, None}
        BY ONLY <4>1, <2>11
      <4> QED BY <4>2
    <3> QED BY <3>1, <3>2
  <2>2. CASE AdoptStep
    <3>1. CASE AdoptPutCert
      BY <3>1 DEF AdoptPutCert
    <3>2. CASE ~AdoptPutCert
      <4>1. live' \in {live, [live EXCEPT !.key = None], [live EXCEPT !.cert = None],
                      [live EXCEPT !.key = standby.key]}
        BY <2>2, <3>2 DEF AdoptStep, AdoptKey, AdoptCert, AdoptPutKey, AdoptState,
           AdoptClear, AdoptRefresh
      <4>2. live'.cert \in {live.cert, None}
        BY ONLY <4>1, <2>11
      <4> QED BY <4>2
    <3> QED BY <3>1, <3>2
  <2>3. CASE DiscardStep
    BY <2>3 DEF DiscardStep, DiscardFiles, DiscardState, DiscardClear
  <2>4. CASE NoSentinel \/ SkipMint \/ Mint \/ MintFails \/ ClearNotice
    BY <2>4 DEF NoSentinel, SkipMint, Mint, MintFails, ClearNotice
  <2>5. CASE HealthyShortcut \/ LoadLive \/ OldWorks \/ OldFailsUnclearly
    BY <2>5 DEF HealthyShortcut, LoadLive, OldWorks, OldFailsUnclearly
  <2>6. CASE CountFault \/ StageStandby \/ NothingToStage \/ StageState \/ StageNotice
    BY <2>6 DEF CountFault, StageStandby, NothingToStage, StageState, StageNotice
  <2>7. CASE TryStandby \/ StandbyRefused \/ StandbyTrusted \/ StandbySends
    BY <2>7 DEF TryStandby, StandbyRefused, StandbyTrusted, StandbySends
  <2>8. CASE Sleep \/ LoopDies \/ ContainerStops
    BY <2>8 DEF Sleep, LoopDies, ContainerStops
  <2>9. CASE World
    BY <2>9 DEF World, Boot, BootMints, BootGenerates, Replicate, Expires,
       OperatorUploads, AdminRestores, AdminDeletes
  <2>10. CASE UNCHANGED vars
    BY <2>10
  <2> QED BY <2>1, <2>2, <2>3, <2>4, <2>5, <2>6, <2>7, <2>8, <2>9, <2>10
       DEF Next, LoopStep
<1>2. IInv /\ [Next]_vars => [A]_vars
  BY <1>1
<1>3. Spec => [][A]_vars
  BY <1>2, Inductive, PTL DEF Spec
<1> QED BY <1>3 DEF AdoptsOnlyTrusted

-----------------------------------------------------------------------------
\* Recovery implements KeyCustody.

AdoptingPCs == {"adoptCert", "adoptPutKey", "adoptPutCert"}

LEMMA CustodyInit == Init => Custody!Init
<1> SUFFICES ASSUME Init PROVE Custody!Init
  OBVIOUS
<1>1. PICK c \in Certs : WorldInit!(c)
  BY DEF Init, WorldInit
<1>2. RegisteredKeys = {c} \cup Foreign
  BY <1>1 DEF RegisteredKeys, Registered
<1>3. Serving = c
  BY <1>1, PairValues, SlotValues DEF Serving, Whole, Init, LoopInit
<1> QED BY <1>1, <1>2, <1>3 DEF Custody!Init

\* The place of the live pair stays as it is, or falls empty.
LEMMA CustodyVacated ==
    ASSUME UNCHANGED <<app, notice, everLive, elapsed, revoked>>, Serving' \in {Serving, None}
    PROVE  [Custody!Next]_(Custody!custody)
<1>1. RegisteredKeys' = RegisteredKeys
  BY RegisteredStays
<1>2. CASE Serving' = Serving
  BY <1>1, <1>2 DEF Custody!custody
<1>3. CASE Serving' = None /\ Serving # None
  <2>1. Custody!Vacate
    BY <1>1, <1>3 DEF Custody!Vacate
  <2> QED BY <2>1 DEF Custody!Next
<1> QED BY <1>2, <1>3

\* A new certificate fills it.
LEMMA CustodyFilled ==
    ASSUME NEW c \in Certs, UNCHANGED <<app, elapsed, revoked>>,
           app[c] = "absent", c \notin everLive, everLive' = everLive \cup {c},
           Serving = None, Serving' = c, notice' \in {notice, c}
    PROVE  [Custody!Next]_(Custody!custody)
<1>1. c \notin RegisteredKeys /\ RegisteredKeys' = RegisteredKeys
  BY RegisteredStays DEF RegisteredKeys, Registered
<1>2. Custody!Fill(c)
  BY <1>1 DEF Custody!Fill
<1> QED BY <1>2 DEF Custody!Next

\* The steps of a pass that move no file of the live pair.
LEMMA CustodyQuiet ==
    ASSUME UNCHANGED <<app, live, notice, everLive, elapsed, revoked>>,
           tpc \notin AdoptingPCs, tpc' \notin AdoptingPCs
    PROVE  [Custody!Next]_(Custody!custody)
<1>1. Serving' = Serving
  BY DEF Serving, AdoptingPCs
<1> QED BY <1>1, CustodyVacated

\* A notice comes up for the certificate in service, or for one that Entra is yet
\* to see; it goes.
LEMMA CustodyAsked ==
    ASSUME UNCHANGED <<app, live, everLive, elapsed, revoked>>,
           tpc \notin AdoptingPCs, tpc' \notin AdoptingPCs,
           \/ notice' \in {notice, None}
           \/ /\ notice' \in Certs
              /\ \/ notice' = live.key /\ notice' = live.cert
                 \/ app[notice'] = "absent" /\ notice' \notin everLive
    PROVE  [Custody!Next]_(Custody!custody)
<1>1. RegisteredKeys' = RegisteredKeys /\ Serving' = Serving
  BY RegisteredStays DEF Serving, AdoptingPCs
<1>2. CASE notice' = notice
  BY <1>2, CustodyQuiet
<1>3. CASE notice' = None
  <2>1. Custody!Withdraw
    BY <1>1, <1>3 DEF Custody!Withdraw
  <2> QED BY <2>1 DEF Custody!Next
<1>4. ASSUME notice' \notin {notice, None} PROVE Custody!Next
  <2>1. PICK c \in Certs : c = notice'
    BY <1>4
  <2>2. c = Serving \/ c \notin RegisteredKeys \cup everLive
    BY <1>4, <2>1 DEF Serving, Whole, AdoptingPCs, RegisteredKeys, Registered
  <2>3. Custody!Ask(c)
    BY <1>1, <2>1, <2>2 DEF Custody!Ask
  <2> QED BY <2>3 DEF Custody!Next
<1> QED BY <1>2, <1>3, <1>4

\* A reset empties the place before it fills it.
LEMMA CustodyReset == ASSUME IInv, ResetStep PROVE [Custody!Next]_(Custody!custody)
<1> USE SlotValues, PairValues DEF IInv, TypeInv, TypeOK, WorldTypeOK, LoopTypeOK, entra, AdoptingPCs
<1>1. CASE ResetKey
  <2>1. UNCHANGED <<app, notice, everLive, elapsed, revoked>> /\ tpc' \notin AdoptingPCs
    BY <1>1 DEF ResetKey
  <2>2. CASE Complete(live)
    <3>1. live' = [live EXCEPT !.key = None] /\ live.cert # None
      BY <1>1, <2>2 DEF ResetKey, Complete
    <3>2. live'.key = None /\ live'.cert # None
      BY <3>1, PairUpdates
    <3> QED BY <2>1, <3>2, CustodyVacated DEF Serving, Whole
  <2>3. CASE ~Complete(live)
    BY <1>1, <2>1, <2>3, CustodyQuiet DEF ResetKey
  <2> QED BY <2>2, <2>3
<1>2. CASE ResetCert
  <2>1. UNCHANGED <<app, notice, everLive, elapsed, revoked>> /\ tpc' \notin AdoptingPCs
    BY <1>2 DEF ResetCert, TGoto
  <2>2. live'.cert = None
    BY <1>2, PairUpdates DEF ResetCert
  <2> QED BY <2>1, <2>2, CustodyVacated DEF Serving, Whole
<1>3. CASE ResetPutKey
  <2>1. /\ UNCHANGED <<app, notice, everLive, elapsed, revoked>> /\ tpc' \notin AdoptingPCs
        /\ live' = [live EXCEPT !.key = tnew] /\ tnew \in Certs \ everLive
    BY <1>3 DEF ResetPutKey, TGoto, FreshInv, HoldsNew, ResetPCs
  <2>2. live'.key = tnew /\ live'.cert \in everLive \cup {None}
    BY <2>1, PairUpdates DEF FreshInv
  <2> QED BY <2>1, <2>2, CustodyVacated DEF Serving, Whole
<1>4. CASE ResetPutCert
  <2>1. /\ UNCHANGED <<app, notice, elapsed, revoked>> /\ everLive' = everLive \cup {tnew}
        /\ tpc = "resetPutCert" /\ tpc' = "resetState"
        /\ live' = [live EXCEPT !.cert = tnew]
    BY <1>4 DEF ResetPutCert
  <2>2. /\ tnew \in Certs \ everLive /\ app[tnew] = "absent"
        /\ live.key = tnew /\ live.cert \in everLive \cup {None}
    BY <2>1 DEF FreshInv, HoldsNew, ResetPCs
  <2>3. live'.key = tnew /\ live'.cert = tnew
    BY <2>1, <2>2, PairUpdates
  <2>4. Serving = None /\ Serving' = tnew
    BY <2>1, <2>2, <2>3 DEF Serving, Whole
  <2> QED BY <2>1, <2>2, <2>4, CustodyFilled
<1>5. CASE ResetState
  BY <1>5, CustodyQuiet DEF ResetState, TGoto, files
<1>6. CASE ResetNotice
  <2>1. live.key = tnew /\ live.cert = tnew /\ tnew \in Certs
    BY <1>6 DEF ResetNotice, FreshInv, HoldsNew, ResetPCs
  <2>2. /\ UNCHANGED <<app, live, everLive, elapsed, revoked>> /\ notice' = tnew
        /\ tpc \notin AdoptingPCs /\ tpc' \notin AdoptingPCs
    BY <1>6 DEF ResetNotice, files
  <2> QED BY <2>1, <2>2, CustodyAsked
<1> QED BY <1>1, <1>2, <1>3, <1>4, <1>5, <1>6 DEF ResetStep

\* An adoption hands over from the outgoing certificate to the standby.
LEMMA CustodyAdopt == ASSUME IInv, AdoptStep PROVE [Custody!Next]_(Custody!custody)
<1> USE DEF IInv, TypeInv, TypeOK, WorldTypeOK, LoopTypeOK, entra, AdoptingPCs
<1>1. CASE AdoptKey \/ AdoptCert \/ AdoptPutKey
  <2>1. /\ UNCHANGED <<app, notice, everLive, elapsed, revoked, tcur>> /\ tpc' \in AdoptingPCs
        /\ tpc \in AdoptingPCs \/ tpc = "adopt"
    BY <1>1 DEF AdoptKey, AdoptCert, AdoptPutKey, TGoto
  <2>2. tpc = "adopt" => tcur = live
    BY DEF SwapInv
  <2>3. Serving' = Serving
    BY <2>1, <2>2 DEF Serving
  <2> QED BY <2>1, <2>3, CustodyVacated
<1>2. CASE AdoptPutCert
  <2> DEFINE c == standby.cert
  <2>1. /\ UNCHANGED <<app, notice, elapsed, revoked>>
        /\ everLive' = everLive \cup ({c} \ {None})
        /\ tpc = "adoptPutCert" /\ tpc' = "adoptState"
        /\ live' = [live EXCEPT !.cert = c]
    BY <1>2 DEF AdoptPutCert
  <2>2. c \in Certs \ everLive /\ live.key = c /\ c # None
    BY <2>1, SlotValues, PairValues DEF SwapInv, FreshInv
  <2>3. c \in RegisteredKeys \cup revoked
    BY <2>1, <2>2 DEF TrustInv, Known, RegisteredKeys
  <2>4. live'.key = c /\ live'.cert = c
    BY <2>1, <2>2, SlotValues, PairUpdates
  <2>5. Serving' = c /\ everLive' = everLive \cup {c}
    BY <2>1, <2>2, <2>4 DEF Serving, Whole
  <2> HIDE DEF c
  <2>6. Custody!Adopt(c)
    BY <2>1, <2>2, <2>3, <2>5, RegisteredStays DEF Custody!Adopt
  <2> QED BY <2>2, <2>6 DEF Custody!Next
<1>3. CASE AdoptState \/ AdoptClear \/ AdoptRefresh
  BY <1>3, CustodyAsked DEF AdoptState, AdoptClear, AdoptRefresh, TGoto, files
<1> QED BY <1>1, <1>2, <1>3 DEF AdoptStep

\* A pass that is cut short in an adoption leaves the place empty.
LEMMA CustodyCut ==
    ASSUME IInv, ForgetPass, UNCHANGED <<app, live, notice, everLive, elapsed, revoked>>
    PROVE  [Custody!Next]_(Custody!custody)
<1>1. tpc' \notin AdoptingPCs
  BY DEF ForgetPass, AdoptingPCs
<1>2. CASE tpc \in AdoptingPCs
  <2>1. Whole(live) = None
    BY <1>2 DEF IInv, SwapInv, AdoptingPCs, Whole
  <2>2. Serving' = None
    BY <1>1, <2>1 DEF Serving, AdoptingPCs, Whole
  <2> QED BY <2>2, CustodyVacated
<1>3. CASE tpc \notin AdoptingPCs
  BY <1>1, <1>3, CustodyQuiet
<1> QED BY <1>2, <1>3

\* What time and people do, and a container that starts.
LEMMA CustodyWorld == ASSUME IInv, World PROVE [Custody!Next]_(Custody!custody)
<1> USE SlotValues, PairValues DEF IInv, TypeInv, TypeOK
<1>1. UNCHANGED <<tpc, tcur>>
  BY DEF World
<1>2. ASSUME NEW c \in Certs, Replicate(c) PROVE UNCHANGED Custody!custody
  <2>1. UNCHANGED <<live, notice, everLive, elapsed, revoked>>
    BY <1>2 DEF Replicate
  <2> QED BY <1>1, <1>2, <2>1, ReplicateSettles DEF Serving, Whole, Custody!custody
<1>3. ASSUME NEW c \in Certs, Expires(c) PROVE UNCHANGED Custody!custody
  BY <1>1, <1>3, RegisteredStays DEF Expires, Serving, Whole, Custody!custody
<1>4. ASSUME NEW c \in Certs, OperatorUploads(c) \/ AdminRestores(c) PROVE Custody!Next
  <2>1. /\ app' = [app EXCEPT ![c] = "adding"] /\ revoked' = revoked \ {c}
        /\ UNCHANGED <<live, notice, everLive, elapsed>>
    BY <1>4 DEF OperatorUploads, AdminRestores
  <2>2. app \in [Certs \cup Foreign -> KeyStatus]
    BY DEF WorldTypeOK
  <2>3. RegisteredKeys' = RegisteredKeys \cup {c}
    BY ONLY <2>1, <2>2, RegisteredMoves
  <2>4. c \notin RegisteredKeys /\ (c = notice \/ c \in revoked)
    BY <1>4 DEF OperatorUploads, AdminRestores, RegisteredKeys, Registered
  <2>5. Custody!Upload(c)
    BY <1>1, <2>1, <2>3, <2>4 DEF Custody!Upload, Serving, Whole
  <2> QED BY <2>5 DEF Custody!Next
<1>5. ASSUME NEW c \in Certs, AdminDeletes(c) PROVE Custody!Next
  <2>1. /\ app' = [app EXCEPT ![c] = "removing"] /\ revoked' = revoked \cup {c}
        /\ UNCHANGED <<live, notice, everLive, elapsed>>
    BY <1>5 DEF AdminDeletes
  <2>2. app \in [Certs \cup Foreign -> KeyStatus]
    BY DEF WorldTypeOK
  <2>3. RegisteredKeys' = RegisteredKeys \ {c}
    BY ONLY <2>1, <2>2, RegisteredMoves
  <2>4. c \in RegisteredKeys
    BY <1>5 DEF AdminDeletes, RegisteredKeys
  <2>5. Custody!Delete(c)
    BY <1>1, <2>1, <2>3, <2>4 DEF Custody!Delete, Serving, Whole
  <2> QED BY <2>5 DEF Custody!Next
<1>6. CASE BootGenerates
  <2>1. PICK c \in Certs \ used :
          live' = PairOf(c) /\ notice' = c /\ everLive' = everLive \cup {c}
    BY <1>6 DEF BootGenerates
  <2>2. tpc = "top" /\ ~Complete(live) /\ UNCHANGED <<app, elapsed, revoked>>
    BY <1>6 DEF BootGenerates, MemInv
  <2>3. Serving = None /\ Serving' = c
    BY <1>1, <2>1, <2>2 DEF Serving, Whole, Complete
  <2>4. app[c] = "absent" /\ c \notin everLive
    BY <2>1 DEF FreshInv
  <2> QED BY <2>1, <2>2, <2>3, <2>4, CustodyFilled
<1>7. CASE BootMints
  <2>1. tpc = "top" /\ UNCHANGED <<app, live, everLive, elapsed, revoked>>
    BY <1>7 DEF BootMints, MemInv
  <2>2. live.key = live.cert /\ live.cert \in Certs
    BY <1>7 DEF BootMints, MayStart, Complete, WorldTypeOK
  <2>3. notice' \in {notice, None} \/ notice' = live.cert
    BY <1>7 DEF BootMints
  <2> QED BY <1>1, <2>1, <2>2, <2>3, CustodyAsked DEF AdoptingPCs
<1> QED BY <1>2, <1>3, <1>4, <1>5, <1>6, <1>7 DEF World, Boot

LEMMA CustodyNext == IInv /\ [Next]_vars => [Custody!Next]_(Custody!custody)
<1> SUFFICES ASSUME IInv, [Next]_vars PROVE [Custody!Next]_(Custody!custody)
  OBVIOUS
<1> USE DEF TGoto, Save, files, entra, worldVars, AdoptingPCs
<1>1. CASE NoSentinel \/ SkipMint \/ Mint \/ MintFails \/ ClearNotice
  BY <1>1, CustodyAsked DEF NoSentinel, SkipMint, Mint, MintFails, ClearNotice
<1>2. CASE HealthyShortcut \/ LoadLive \/ OldWorks \/ OldFailsUnclearly \/ CountFault
  BY <1>2, CustodyQuiet DEF HealthyShortcut, LoadLive, OldWorks, OldFailsUnclearly, CountFault
<1>3. CASE StageStandby \/ NothingToStage \/ StageState \/ StageNotice
  <2>1. CASE ~StageNotice
    BY <1>3, <2>1, CustodyQuiet DEF StageStandby, NothingToStage, StageState
  <2>2. CASE StageNotice
    <3>1. tnew \in Certs /\ app[tnew] = "absent" /\ tnew \notin everLive
      BY <2>2 DEF StageNotice, IInv, TypeInv, FreshInv, HoldsNew, StagePCs
    <3> QED BY <2>2, <3>1, CustodyAsked DEF StageNotice
  <2> QED BY <2>1, <2>2
<1>4. CASE TryStandby \/ StandbyRefused \/ StandbyTrusted \/ StandbySends
  BY <1>4, CustodyQuiet DEF TryStandby, StandbyRefused, StandbyTrusted, StandbySends
<1>5. CASE DiscardStep \/ Sleep
  BY <1>5, CustodyAsked DEF DiscardStep, DiscardFiles, DiscardState, DiscardClear, Sleep
<1>6. CASE LoopDies \/ ContainerStops
  BY <1>6, CustodyCut DEF LoopDies, ContainerStops
<1>7. CASE UNCHANGED vars
  <2>1. Serving' = Serving
    BY <1>7 DEF vars, loopVars, Serving, Whole
  <2> QED BY <1>7, <2>1, CustodyVacated DEF vars
<1> HIDE DEF TGoto, Save, files, entra, worldVars, AdoptingPCs
<1> QED BY <1>1, <1>2, <1>3, <1>4, <1>5, <1>6, <1>7, CustodyReset, CustodyAdopt, CustodyWorld
    DEF Next, LoopStep

\* Recovery and reset keep the custody of the keys.
THEOREM CustodyKept == Spec => KeepsCustody
<1>1. Spec => Custody!Spec
  BY CustodyInit, CustodyNext, Inductive, PTL DEF Spec, Custody!Spec
<1> QED BY <1>1 DEF KeepsCustody
=============================================================================
