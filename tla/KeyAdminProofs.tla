--------------------------- MODULE KeyAdminProofs ---------------------------
(***************************************************************************)
(* Removals by hand, for any number of keys, commands, runs and deaths.    *)
(* The rotation's part is the lemmas of RotationProofs.                    *)
(***************************************************************************)
EXTENDS KeyAdmin, RotationProofs

\* What the command knows when it removes: the key is not that of the pair it
\* loaded, and another instance's key has passed the gate with the override that
\* its stamp calls for.
GateInv ==
    hpc = "remove" =>
        /\ hkey \in Keys /\ hkey # hpair.cert
        /\ hkey \in Foreign =>
             overrides = "another" \/ (overrides = "yes" /\ ~Comparable(hkey))

\* The core of the rotation's invariant does without what keys are registered;
\* the rest of it excepts the keys that crossed a run.
AdminInv == CoreInv /\ Guarded(crossed) /\ HandTypeOK /\ GateInv

-----------------------------------------------------------------------------
LEMMA HandValues ==
    /\ None \in Keys \cup {None} /\ NoPair \in Pair /\ None \notin Foreign
    /\ "none" \in Overrides
BY NoneIsNoCert, PairValues DEF Keys, Overrides

\* The initial states satisfy the invariant.
LEMMA AdminInvInit == HandInit => AdminInv
<1> SUFFICES ASSUME HandInit PROVE AdminInv
  OBVIOUS
<1>1. CoreInv /\ TypeInv /\ Guarded(crossed)
  BY InvInit DEF HandInit, IInv, CoreInv
<1>2. live.cert \in Certs \/ live.cert = None
  BY <1>1, PairValues, SlotValues DEF TypeInv, TypeOK, WorldTypeOK
<1>3. live.cert \in Certs
  <2>1. PICK c \in Certs : live = PairOf(c)
    BY DEF HandInit, Init, WorldInit
  <2> QED BY <2>1, PairValues, SlotValues
<1> QED BY <1>1, <1>3, HandValues, CommandsIsNatural
    DEF HandInit, AdminInv, GateInv, HandTypeOK, TypeInv, Keys

\* A command changes nothing of the rotation's but the registration, where it
\* takes one key away, if any.
LEMMA HandMoves ==
    ASSUME AdminInv, Hand
    PROVE  \/ UNCHANGED vars /\ crossed' = crossed
           \/ /\ HandRemove
              /\ app' \in [Certs \cup Foreign -> KeyStatus]
              /\ \A k \in Certs \cup Foreign :
                   \/ app'[k] = app[k]
                   \/ /\ k = hkey /\ app'[k] \in {"absent", "removing"}
                      /\ app[k] = "absent" => app'[k] = "absent"
                      /\ crossed' = IF pc = "idle" /\ live = hpair
                                      THEN crossed ELSE crossed \cup {hkey}
<1>typ. app \in [Certs \cup Foreign -> KeyStatus]
  BY DEF AdminInv, CoreInv, TypeInv, TypeOK, WorldTypeOK
<1>1. CASE HandStart \/ HandClassify \/ HandStops
  BY <1>1 DEF HandStart, HandClassify, HandStops
<1>2. CASE HandRemove /\ Removing(hkey) /\ ~UNCHANGED <<app, crossed>>
  <2>1. /\ app' \in [Certs \cup Foreign -> KeyStatus]
        /\ \A k \in Certs \cup Foreign : k # hkey => app'[k] = app[k]
        /\ hkey \in Certs \cup Foreign =>
             /\ app'[hkey] \in {"absent", "removing"} \/ app'[hkey] = app[hkey]
             /\ app[hkey] = "absent" => app'[hkey] = "absent"
    BY <1>typ, <1>2, RemovingTyped
  <2>2. crossed' = IF pc = "idle" /\ live = hpair THEN crossed ELSE crossed \cup {hkey}
    BY <1>2 DEF HandRemove
  <2> QED BY <1>2, <2>1, <2>2
<1>3. CASE HandRemove /\ UNCHANGED <<app, crossed>>
  BY <1>typ, <1>3
<1> QED BY <1>1, <1>2, <1>3 DEF Hand, HandRemove

\* A key that goes disturbs nothing in the core.
LEMMA HandKeepsCore == AdminInv /\ Hand => CoreInv'
<1> SUFFICES ASSUME AdminInv, Hand PROVE CoreInv'
  OBVIOUS
<1> USE DEF AdminInv, CoreInv, TypeInv, TypeOK, WorldTypeOK, RotTypeOK, HoldsOwn, RunInv,
        FilesInv, NewInv, RecordInv, HistoryInv, AddedKeyTracked, Complete, Registered,
        vars, worldVars, rotVars
<1>1. CASE UNCHANGED vars
  BY <1>1
<1>2. CASE /\ HandRemove
           /\ app' \in [Certs \cup Foreign -> KeyStatus]
           /\ \A k \in Certs \cup Foreign :
                \/ app'[k] = app[k]
                \/ /\ app'[k] \in {"absent", "removing"}
                   /\ app[k] = "absent" => app'[k] = "absent"
  <2> USE DEF HandRemove
  <2>1. TypeInv' /\ RunInv' /\ FilesInv'
    BY <1>2
  <2>2. ASSUME NEW k \in Certs \cup Foreign, Registered(k)' PROVE Registered(k)
    BY <1>2, <2>2
  <2>3. target \in Certs \cup Foreign \/ target = None
    BY SlotValues
  <2>4. NewInv' /\ RecordInv'
    BY <1>2, <2>2, <2>3, SlotValues DEF HasNew, SwapPCs
  <2>5. HistoryInv' /\ AddedKeyTracked'
    BY <1>2, <2>2
  <2> QED BY <2>1, <2>4, <2>5
<1> QED BY <1>1, <1>2, HandMoves

\* The command never takes the certificate it found live, and a key it takes
\* when a run has begun or has swapped since is among the crossed ones.
LEMMA HandKeepsGuard == AdminInv /\ Hand => Guarded(crossed)'
<1> SUFFICES ASSUME AdminInv, Hand PROVE Guarded(crossed)'
  OBVIOUS
<1>1. CASE UNCHANGED vars /\ crossed' = crossed
  BY <1>1 DEF AdminInv, Guarded, Registered, vars, worldVars, rotVars
<1>2. CASE ~(UNCHANGED vars /\ crossed' = crossed)
  <2>1. /\ HandRemove
        /\ \A k \in Certs \cup Foreign :
             \/ app'[k] = app[k]
             \/ k = hkey /\ crossed' = IF pc = "idle" /\ live = hpair
                                         THEN crossed ELSE crossed \cup {hkey}
    BY <1>2, HandMoves
  <2>2. UNCHANGED <<live, revoked, torn, pc, new>> /\ crossed \subseteq crossed'
    BY <2>1 DEF HandRemove, rotVars
  <2>3. hkey # hpair.cert /\ hpc = "remove"
    BY <2>1 DEF AdminInv, GateInv, HandRemove
  <2>4. ASSUME pc \in Proving, new \notin revoked \cup crossed' PROVE Registered(new)'
    <3>1. new \in Certs /\ Registered(new) /\ pc # "idle"
      BY <2>2, <2>4 DEF AdminInv, CoreInv, TypeInv, HoldsOwn, Guarded, Proving, HasNew, SwapPCs
    <3> QED BY <2>1, <2>2, <2>4, <3>1 DEF Registered
  <2>5. ASSUME ~torn, pc \notin SwapPCs, live.cert \notin revoked \cup crossed'
        PROVE Registered(live.cert)'
    <3>1. live.cert \in Certs /\ Registered(live.cert)
      BY <2>2, <2>5, SlotValues, PairValues
         DEF AdminInv, CoreInv, TypeInv, TypeOK, WorldTypeOK, FilesInv, Complete, Guarded
    <3> QED BY <2>1, <2>2, <2>3, <2>5, <3>1 DEF Registered
  <2>6. ~torn' => ~torn
    BY <2>2, Zenon
  <2>7. ASSUME pc' \in Proving, new' \notin revoked' \cup crossed' PROVE Registered(new)'
    BY <2>2, <2>4, <2>7
  <2>8. ASSUME ~torn', pc' \notin SwapPCs, live'.cert \notin revoked' \cup crossed'
        PROVE Registered(live.cert)'
    BY <2>2, <2>5, <2>6, <2>8
  <2> QED BY <2>7, <2>8 DEF Guarded, Registered
<1> QED BY <1>1, <1>2, HandMoves

\* The gate: no key of another instance is taken for this one's.
LEMMA GateStep == AdminInv /\ TypeInv' /\ Hand => (HandTypeOK /\ GateInv)'
<1> SUFFICES ASSUME AdminInv, TypeInv', Hand PROVE (HandTypeOK /\ GateInv)'
  OBVIOUS
<1> USE HandValues, CommandsIsNatural
    DEF AdminInv, CoreInv, HandTypeOK, GateInv, Comparable, Overrides, TypeInv
<1>1. live \in Pair
  BY DEF TypeOK, WorldTypeOK
<1>2. CASE HandStart
  BY <1>1, <1>2 DEF HandStart
<1>3. CASE HandClassify
  <2>1. CASE HandDone /\ UNCHANGED crossed
    BY <1>3, <2>1 DEF HandDone
  <2>2. CASE ~(HandDone /\ UNCHANGED crossed)
    <3>1. PICK k \in Keys, given \in Overrides :
            /\ ~Refused(Classify(k), given)
            /\ hpc' = "remove" /\ hkey' = k /\ overrides' = given
            /\ UNCHANGED <<identified, unstamped, hpair, commands, crossed>>
      BY <1>3, <2>2 DEF HandClassify
    <3>2. k \in Foreign => given = "another" \/ (given = "yes" /\ ~Comparable(k))
      <4> SUFFICES ASSUME k \in Foreign
                   PROVE  given = "another" \/ (given = "yes" /\ ~Comparable(k))
        OBVIOUS
      <4>1. k # hpair.cert /\ k # stateFile.rem /\ k \notin Certs
        BY SlotValues, PairValues, StateValues, InstancesAreSeparate
           DEF TypeOK, WorldTypeOK
      <4>2. Classify(k) = (IF ~Comparable(k) THEN "unmonitored" ELSE "foreign")
        BY <4>1 DEF Classify, SameCertificate, StampedByThis
      <4> QED BY <3>1, <4>2 DEF Refused
    <3>3. k # hpair.cert
      BY <3>1 DEF Classify, SameCertificate, Refused
    <3> QED BY <3>1, <3>2, <3>3
  <2> QED BY <2>1, <2>2
<1>4. CASE HandRemove
  BY <1>4 DEF HandRemove, HandDone
<1>5. CASE HandStops
  BY <1>5 DEF HandStops, HandDone
<1> QED BY <1>2, <1>3, <1>4, <1>5 DEF Hand

\* The rotation leaves the command alone, and can only add keys without a stamp.
LEMMA GateBeside == AdminInv /\ TypeInv' /\ Beside => (HandTypeOK /\ GateInv)'
<1> SUFFICES ASSUME AdminInv, TypeInv', Beside PROVE (HandTypeOK /\ GateInv)'
  OBVIOUS
<1>1. UNCHANGED <<identified, hpc, hkey, hpair, overrides, commands, crossed>>
  BY DEF Beside, commandVars
<1>2. unstamped \subseteq unstamped' /\ unstamped' \subseteq unstamped \cup Certs
  BY DEF Beside, RunStamps
<1>3. HandTypeOK'
  BY <1>1, <1>2 DEF AdminInv, HandTypeOK, TypeInv, Keys
<1>4. ASSUME ~Comparable(hkey) PROVE ~Comparable(hkey)'
  BY <1>1, <1>2, <1>4 DEF Comparable
<1>5. GateInv'
  BY <1>1, <1>4 DEF AdminInv, GateInv, Keys
<1> QED BY <1>3, <1>5

\* The invariant is inductive.
LEMMA AdminInvStep == AdminInv /\ [AdminNext]_adminVars => AdminInv'
<1> SUFFICES ASSUME AdminInv, [AdminNext]_adminVars PROVE AdminInv'
  OBVIOUS
<1>1. CASE Hand
  <2>1. CoreInv' /\ Guarded(crossed)'
    BY <1>1, HandKeepsCore, HandKeepsGuard
  <2> QED BY <1>1, <2>1, GateStep DEF AdminInv, CoreInv
<1>2. CASE [Next]_vars /\ (Beside \/ UNCHANGED handVars)
  <2>0. crossed' = crossed
    BY <1>2 DEF Beside, commandVars, handVars
  <2>1. CoreInv'
    BY <1>2, TypeInvStep, CoreStep DEF AdminInv, CoreInv
  <2>2. Guarded(crossed)'
    <3>1. PICK X : X = crossed
      OBVIOUS
    <3>2. Guarded(X)
      BY <3>1 DEF AdminInv
    <3>3. Guarded(X)'
      BY <1>2, <3>2, GuardStep DEF AdminInv
    <3>4. crossed' = X
      BY <2>0, <3>1
    <3> QED BY <3>3, <3>4 DEF Guarded
  <2>3. HandTypeOK' /\ GateInv'
    <3>1. CASE Beside
      BY <2>1, <3>1, GateBeside DEF CoreInv
    <3>2. CASE UNCHANGED handVars
      BY <2>1, <3>2 DEF AdminInv, CoreInv, TypeInv, HandTypeOK, GateInv, Comparable,
          handVars, commandVars
    <3> QED BY <1>2, <3>1, <3>2
  <2> QED BY <2>1, <2>2, <2>3 DEF AdminInv
<1> QED BY <1>1, <1>2 DEF AdminNext, adminVars

\* What only a command may do: the rotation removes keys it has on record or
\* has just added, and those are certificates of this instance.
LEMMA RotationSparesForeign ==
    ASSUME TypeInv, Next, NEW k \in Foreign, app'[k] = "removing"
    PROVE  app[k] = "removing"
<1>1. k \notin Slot /\ k \notin Certs
  BY SlotValues, InstancesAreSeparate
<1>2. target \in Slot /\ new \in Slot
  BY DEF TypeInv, TypeOK, RotTypeOK
<1> QED BY <1>1, <1>2, AppMoves

\* The rotation and the commands together keep the invariant.
THEOREM AdminInductive == AdminSpec => []AdminInv
BY AdminInvInit, AdminInvStep, PTL DEF AdminSpec

\* The rotation's variables and the command's have their shapes.
THEOREM AdminTypeCorrect == AdminSpec => []HandTypeOK
<1>1. AdminInv => HandTypeOK
  BY DEF AdminInv
<1> QED BY <1>1, AdminInductive, PTL

\* The live certificate cannot be removed by hand, except by a command that
\* crosses a rotation run.
THEOREM LiveIsUndeletable == AdminSpec => []LiveSurvivesHand
<1>1. AdminInv => LiveSurvivesHand
  BY DEF AdminInv, Guarded, LiveSurvivesHand
<1> QED BY <1>1, AdminInductive, PTL

\* Removals by hand never make a rotation lose track of a key it added.
THEOREM TrackedUnderHand == AdminSpec => []AddedKeyTracked
<1>1. AdminInv => AddedKeyTracked
  BY DEF AdminInv, CoreInv
<1> QED BY <1>1, AdminInductive, PTL

\* No other instance's key goes by a rotation, nor by a command without the
\* override that this instance's knowledge of its owner calls for.
THEOREM ForeignIsOverridden == AdminSpec => ForeignNeedsOverride
<1> DEFINE Deliberate(k) ==
      /\ hpc = "remove" /\ hkey = k
      /\ \/ overrides = "another"
         \/ overrides = "yes" /\ (k \in unstamped \/ ~identified)
    Step == \A k \in Foreign :
      app'[k] = "removing" /\ app[k] # "removing" => Deliberate(k)
<1>1. AdminInv /\ [AdminNext]_adminVars => [Step]_adminVars
  <2> SUFFICES ASSUME AdminInv, AdminNext, NEW k \in Foreign,
                      app'[k] = "removing", app[k] # "removing"
               PROVE  Deliberate(k)
    OBVIOUS
  <2>1. CASE Next
    BY <2>1, RotationSparesForeign DEF AdminInv, CoreInv
  <2>2. CASE HandRemove
    <3>1. Removing(hkey)
      BY <2>2 DEF HandRemove
    <3>2. hkey = k
      BY <3>1, RemovingTyped DEF AdminInv, CoreInv, TypeInv, TypeOK, WorldTypeOK
    <3> QED BY <2>2, <3>2 DEF HandRemove, AdminInv, GateInv, Comparable
  <2>3. CASE HandStart \/ HandClassify \/ HandStops
    BY <2>3 DEF HandStart, HandClassify, HandStops, vars, worldVars
  <2> QED BY <2>1, <2>2, <2>3 DEF AdminNext, Hand
<1>2. AdminSpec => [][Step]_adminVars
  BY <1>1, AdminInductive, PTL DEF AdminSpec
<1> QED BY <1>2 DEF ForeignNeedsOverride
=============================================================================
