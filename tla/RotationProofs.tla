--------------------------- MODULE RotationProofs ---------------------------
(***************************************************************************)
(* The safety of Rotation for any number of certificates, runs and deaths. *)
(***************************************************************************)
EXTENDS Rotation, CertWorldProofs

-----------------------------------------------------------------------------
\* The inductive invariant: what each step of a run may rely on.

BeforeSwap == PCs \ ({"idle", "schedule", "refresh"} \cup SwapPCs)
\* The run holds a new certificate that is not live yet ...
HasNew == {"addKey", "record", "await", "proveToken", "proveSend", "abandon",
           "abandonConfirm", "swapKey"} \cup SwapPCs
\* ... that it has added and not given up ...
Proving == HasNew \ {"addKey", "abandon", "abandonConfirm"}
\* ... and that is on record.
Recorded == (HasNew \ {"addKey", "record"}) \cup {"schedule"}
NothingAdded == {"pending", "retire", "retireConfirm", "check", "addKey",
                 "record", "refresh"}

\* The types.  A key lost by a death, or with its record, and the certificate a
\* swap puts in place, are certificates because a run that has gone past Stage,
\* or cleans up after another, holds one.
HoldsOwn ==
    /\ pc \in HasNew => new \in Certs /\ staged.cert = new
    /\ pc \in {"cleanup", "cleanupConfirm"} => target \in Certs

TypeInv == TypeOK /\ HoldsOwn

\* A run works on the pair it loaded and is the only writer of the state file.
RunInv ==
    /\ pc # "idle" => up /\ mem = stateFile /\ cur.cert \in everLive
    /\ pc \in BeforeSwap => cur = live /\ Complete(live)

\* The files, at each point of the swap.
FilesInv ==
    /\ Complete(live) => live.key = live.cert
    /\ live.cert # None => live.cert \in everLive
    /\ (~torn /\ pc \notin SwapPCs) => Complete(live)
    /\ pc = "swapCert" => /\ live.key = None /\ live.cert = cur.cert
                          /\ previous.key = cur.cert
    /\ pc = "putKey" => live.key = None /\ live.cert = None
    /\ pc = "putCert" => live.key = new /\ live.cert = None
    /\ pc \in {"putKey", "putCert"} =>
            previous.key = cur.cert /\ previous.cert = cur.cert
    /\ pc \in HasNew \ {"putCert"} => staged.key = new

\* The new certificate, from its generation to the swap.
NewInv ==
    /\ pc \in HasNew => new \in used \ (everLive \cup leaked)
    /\ pc = "schedule" => new \in everLive

\* The two records, and the key remove_key is working on.
RecordInv ==
    /\ pc \in NothingAdded => stateFile.add = None
    /\ pc \in Recorded => stateFile.add = new
    /\ pc \in {"cleanup", "cleanupConfirm"} =>
            target \in Certs \ {cur.cert} /\ target = stateFile.add
    /\ pc \in {"retire", "retireConfirm"} =>
            target \in elapsed /\ target = stateFile.rem
    /\ stateFile.add \in everLive => Complete(live) /\ stateFile.add = live.cert
    /\ stateFile.rem \in everLive \cup {None}

\* Only generated certificates are anywhere, and the live one has no grace.
HistoryInv ==
    /\ everLive \subseteq used /\ leaked \subseteq used
    /\ elapsed \subseteq everLive
    /\ \A c \in Certs \ used : app[c] = "absent"
    /\ live.cert \notin elapsed
    /\ (~torn /\ pc \notin SwapPCs /\ previous # NoPair) => previous.cert \in everLive

\* All of this is true whoever else takes keys off the registration.
CoreInv == /\ TypeInv /\ RunInv /\ FilesInv /\ NewInv /\ RecordInv /\ HistoryInv
           /\ AddedKeyTracked

\* The certificate in use, and the one a run has proved, are registered, but for
\* the keys that an administrator, or X, took away.
Guarded(X) ==
    /\ pc \in Proving => Registered(new) \/ new \in revoked \cup X
    /\ (~torn /\ pc \notin SwapPCs /\ live.cert \notin revoked \cup X) =>
            Registered(live.cert)

\* The pair being replaced stays registered through the renames.
BackInv ==
    /\ (pc \in SwapPCs /\ ~torn) => Registered(cur.cert) \/ cur.cert \in revoked
    /\ WayBack

\* Nothing the relay does to the registration concerns another instance.
ForeignInv == \A k \in Foreign : app[k] = "present"

IInv == CoreInv /\ Guarded({}) /\ BackInv /\ ForeignInv

-----------------------------------------------------------------------------
\* Type correctness.

\* The ways a run ends.
LEMMA EndRunTyped ==
    ASSUME EndRun
    PROVE  /\ pc' = "idle" /\ pc' \in PCs
           /\ cur' \in Pair /\ mem' \in StateRecord /\ new' \in Slot /\ target' \in Slot
           /\ forced' \in BOOLEAN
<1>1. pc' = "idle" /\ cur' = NoPair /\ mem' = NoState /\ new' = None /\ target' = None
      /\ forced' \in BOOLEAN
  BY Zenon DEF EndRun
<1> QED BY <1>1, SlotValues, PairValues, StateValues DEF PCs

LEMMA ExitTyped ==
    ASSUME RotTypeOK, Exit
    PROVE  RotTypeOK' /\ pc' = "idle"
BY SlotValues, PairValues, StateValues DEF RotTypeOK, Exit, EndRun, PCs

LEMMA ForgetRunTyped ==
    ASSUME TypeInv, ForgetRun
    PROVE  RotTypeOK' /\ torn' \in BOOLEAN /\ pc' = "idle"
<1> USE DEF TypeInv, TypeOK, RotTypeOK, WorldTypeOK, HoldsOwn
<1>1. leaked' \subseteq Certs
  BY DEF ForgetRun, EndRun, LostByDeath, HasNew
<1>2. torn' \in BOOLEAN
  BY Zenon DEF ForgetRun, EndRun
<1>3. pc' = "idle" /\ "idle" \in PCs
  BY DEF ForgetRun, EndRun, PCs
<1>4. cur' \in Pair /\ mem' \in StateRecord /\ new' \in Slot /\ target' \in Slot
  BY SlotValues, PairValues, StateValues DEF ForgetRun, EndRun
<1>5. forced' \in BOOLEAN
  BY Zenon DEF ForgetRun, EndRun
<1>6. deaths' \in Nat
  BY DEF ForgetRun, EndRun
<1> QED BY <1>1, <1>2, <1>3, <1>4, <1>5, <1>6

LEMMA TypeInvInit == Init => TypeInv
<1> SUFFICES ASSUME Init PROVE TypeInv
  OBVIOUS
<1> USE DEF WorldTypeOK, RotTypeOK
<1>1. PICK c \in Certs : WorldInit!(c)
  BY DEF Init, WorldInit
<1>2. WorldTypeOK
  BY <1>1, SlotValues, PairValues, StateValues, TokenValues DEF KeyStatus, Age
<1>3. RotTypeOK /\ pc = "idle"
  BY SlotValues, PairValues, StateValues DEF Init, RotInit, PCs
<1> QED BY <1>2, <1>3 DEF TypeInv, TypeOK, HoldsOwn, HasNew, SwapPCs

LEMMA TypeInvStep == TypeInv /\ [Next]_vars => TypeInv'
<1> SUFFICES ASSUME TypeInv, [Next]_vars PROVE TypeInv'
  OBVIOUS
<1> USE SlotValues, PairValues, StateValues
    DEF TypeInv, TypeOK, WorldTypeOK, RotTypeOK, HoldsOwn, HasNew,
        PCs, SwapPCs, RemovePCs
<1>1. CASE Start
  BY <1>1, SwitchesAreBoolean DEF Start, worldVars
<1>2. CASE ResolveAddition
  <2>1. [mem EXCEPT !.add = None] \in StateRecord
    BY StateUpdates
  <2> QED BY <1>2, <2>1 DEF ResolveAddition, Goto, WriteState
<1>3. CASE ResolveRemoval
  BY <1>3 DEF ResolveRemoval, Goto, worldVars
<1>4. CASE CleanupPost
  BY <1>4, ExitTyped, RemovingTyped DEF CleanupPost, Goto
<1>5. CASE CleanupConfirm
  <2>1. [mem EXCEPT !.add = None] \in StateRecord
    BY StateUpdates
  <2>2. leaked \cup LostByDropping(target) \subseteq Certs
    <3>1. target \in Certs
      BY <1>5 DEF CleanupConfirm
    <3> QED BY <3>1 DEF LostByDropping
  <2> QED BY <1>5, <2>1, <2>2, ExitTyped DEF CleanupConfirm, WriteState
<1>6. CASE RetirePost
  BY <1>6, RemovingTyped DEF RetirePost, Goto
<1>7. CASE RetireConfirm
  <2>1. [mem EXCEPT !.rem = None] \in StateRecord
    BY StateUpdates
  <2> QED BY <1>7, <2>1 DEF RetireConfirm, WriteState
<1>8. CASE NotNow
  BY <1>8, ExitTyped DEF NotNow, worldVars
<1>9. CASE Stage
  BY <1>9 DEF Stage
<1>10. CASE AddKey
  BY <1>10, ExitTyped, AppUpdates DEF AddKey, Goto, KeyStatus
<1>11. CASE RecordAddition
  BY <1>11, StateUpdates DEF RecordAddition, WriteState
<1>12. CASE Await
  BY <1>12 DEF Await, Goto, worldVars
<1>13. CASE ProveToken
  BY <1>13 DEF ProveToken, Goto, worldVars
<1>14. CASE ProveSend
  BY <1>14 DEF ProveSend, Goto, worldVars
<1>15. CASE AbandonPost
  BY <1>15, ExitTyped, RemovingTyped DEF AbandonPost, Goto
<1>16. CASE AbandonConfirm
  <2>1. [mem EXCEPT !.add = None] \in StateRecord
    BY StateUpdates
  <2>2. leaked' \subseteq Certs
    <3>1. new \in Certs
      BY <1>16 DEF AbandonConfirm
    <3> QED BY <1>16, <3>1 DEF AbandonConfirm, LostByDropping
  <2> QED BY <1>16, <2>1, <2>2, EndRunTyped DEF AbandonConfirm
<1>17. CASE SwapKey
  BY <1>17, PairUpdates DEF SwapKey, Goto
<1>18. CASE SwapCert
  BY <1>18, PairUpdates DEF SwapCert, Goto
<1>19. CASE PutKey
  BY <1>19, PairUpdates DEF PutKey, Goto
<1>20. CASE PutCert
  <2>1. staged.cert = new /\ new \in Certs
    BY <1>20 DEF PutCert
  <2> QED BY <1>20, <2>1, PairUpdates DEF PutCert, Goto
<1>21. CASE Schedule
  <2> DEFINE adopted == [mem EXCEPT !.add = None]
  <2>1. adopted \in StateRecord
    BY StateUpdates
  <2>2. [adopted EXCEPT !.rem = cur.cert] \in StateRecord
    BY <2>1, StateUpdates
  <2>3. stateFile' \in {adopted, [adopted EXCEPT !.rem = cur.cert]} /\ mem' = stateFile'
    BY <1>21 DEF Schedule, WriteState, IsReplaced
  <2>4. mem' \in StateRecord /\ stateFile' \in StateRecord
    BY <2>1, <2>2, <2>3
  <2> QED BY <1>21, <2>4 DEF Schedule
<1>22. CASE RefreshNow
  <2>1. token' \in Token
    <3>1. [by |-> live.cert, life |-> "full"] \in Token
      BY TokenValues
    <3> QED BY <1>22, <3>1 DEF RefreshNow
  <2> QED BY <1>22, <2>1, ExitTyped DEF RefreshNow
<1>23. CASE Die
  BY <1>23, ForgetRunTyped DEF Die
<1>24. CASE RemoveReplyLost
  BY <1>24, ForgetRunTyped, RemovingTyped DEF RemoveReplyLost
<1>25. CASE AddReplyLost
  <2>1. app' \in [Certs \cup Foreign -> KeyStatus]
    BY <1>25, AppUpdates DEF AddReplyLost, KeyStatus
  <2> QED BY <1>25, <2>1, EndRunTyped DEF AddReplyLost
<1>26. CASE Crash
  BY <1>26, ForgetRunTyped, TokenValues DEF Crash, LosesToken
<1>27. CASE Environment
  <2> USE <1>27 DEF rotVars
  <2>1. ASSUME NEW k \in Certs \cup Foreign, Replicate(k) PROVE TypeInv'
    BY <2>1, AppUpdates DEF Environment, Replicate, KeyStatus
  <2>2. ASSUME NEW c \in Certs, Ages(c) PROVE TypeInv'
    BY <2>2 DEF Environment, Ages, Age
  <2>3. ASSUME NEW c \in Certs \cup Foreign, GraceElapses(c) PROVE TypeInv'
    BY <2>3 DEF Environment, GraceElapses
  <2>4. ASSUME NEW c \in Certs, AdminDeletes(c) PROVE TypeInv'
    BY <2>4, AppUpdates DEF Environment, AdminDeletes, KeyStatus
  <2>5. CASE BootGenerates
    BY <2>5 DEF Environment, BootGenerates
  <2>6. CASE BootMints
    <3>1. token' \in Token
      <4>1. [by |-> live.cert, life |-> "full"] \in Token
        BY TokenValues
      <4> QED BY <2>6, <4>1 DEF BootMints
    <3>2. up' \in BOOLEAN
      BY <2>6, Zenon DEF BootMints
    <3> QED BY <2>6, <3>1, <3>2 DEF Environment, BootMints
  <2> QED BY <2>1, <2>2, <2>3, <2>4, <2>5, <2>6 DEF Environment, Boot
<1>28. CASE UNCHANGED vars
  BY <1>28 DEF vars, worldVars, rotVars
<1> QED BY <1>1, <1>2, <1>3, <1>4, <1>5, <1>6, <1>7, <1>8, <1>9, <1>10, <1>11, <1>12, <1>13, <1>14, <1>15, <1>16, <1>17, <1>18, <1>19, <1>20, <1>21, <1>22, <1>23, <1>24, <1>25, <1>26, <1>27, <1>28
    DEF Next, RotationStep, Failure

-----------------------------------------------------------------------------
\* The core of the invariant is inductive.

\* What a removeKey may do to the registration.
Unregistered(k) ==
    /\ app'[k] \notin {"adding", "present"} \/ app'[k] = app[k]
    /\ \A j \in Certs \cup Foreign : j # k => app'[j] = app[j]
    /\ app[k] = "absent" => app'[k] = "absent"

LEMMA CoreStep == CoreInv /\ TypeInv' /\ [Next]_vars => CoreInv'
<1> SUFFICES ASSUME CoreInv, TypeInv', [Next]_vars PROVE CoreInv'
  OBVIOUS
<1> USE SlotValues, PairValues, StateValues
    DEF CoreInv, TypeInv, TypeOK, WorldTypeOK, RotTypeOK, HoldsOwn,
        RunInv, FilesInv, NewInv, RecordInv, HistoryInv, AddedKeyTracked,
        BeforeSwap, HasNew, Proving, Recorded, NothingAdded, Complete, Registered, worldVars,
        PCs, SwapPCs, RemovePCs
<1>typ. /\ app \in [Certs \cup Foreign -> KeyStatus]
        /\ pc # "idle" => mem = stateFile
        /\ mem \in StateRecord /\ None \in Slot /\ cur.cert \in Slot
  OBVIOUS
<1>lost. leaked \subseteq used /\ LostByDeath \subseteq used
  BY DEF LostByDeath
<1>1. CASE Start
  BY <1>1 DEF Start
<1>2. CASE ResolveAddition
  <2> USE <1>2 DEF ResolveAddition, Goto, WriteState
  <2>1. [mem EXCEPT !.add = None].add = None /\ [mem EXCEPT !.add = None].rem = mem.rem
    BY StateUpdates
  <2>2. stateFile'.add = IF pc' = "pending" THEN None ELSE stateFile.add
    BY ONLY <1>2, <1>typ, <2>1 DEF ResolveAddition, Goto, WriteState
  <2>3. stateFile'.rem = stateFile.rem
    BY <2>1
  <2> QED BY <2>2, <2>3
<1>3. CASE ResolveRemoval
  BY <1>3 DEF ResolveRemoval, Goto
<1>4. CASE CleanupPost
  <2> USE <1>4 DEF CleanupPost, Goto, Exit, EndRun
  <2>1. target \in Certs
    OBVIOUS
  <2>2. CASE Removing(target)
    <3>1. Unregistered(target)
      BY ONLY <1>typ, <2>1, <2>2 DEF Removing, Unregistered, KeyStatus
    <3> QED BY <2>1, <3>1 DEF Unregistered
  <2>3. CASE Exit /\ UNCHANGED app
    BY <2>1, <2>3
  <2> QED BY <2>2, <2>3
<1>5. CASE CleanupConfirm
  <2> USE <1>5 DEF CleanupConfirm, Exit, EndRun, WriteState, MayBeMissed
  <2>1. [mem EXCEPT !.add = None].add = None /\ [mem EXCEPT !.add = None].rem = mem.rem
    BY StateUpdates
  <2>2. stateFile'.add = IF pc' = "pending" THEN None ELSE stateFile.add
    BY ONLY <1>5, <1>typ, <2>1 DEF CleanupConfirm, Exit, EndRun, WriteState, MayBeMissed
  <2>3. stateFile'.rem = stateFile.rem
    BY <2>1
  <2>4. /\ leaked \subseteq leaked' /\ leaked' \subseteq used
        /\ pc' = "pending" /\ Registered(target) => target \in leaked'
        /\ UNCHANGED <<app, everLive, used>> /\ target = stateFile.add /\ target \in Certs
    BY DEF LostByDropping
  <2>5. AddedKeyTracked'
    BY ONLY <2>2, <2>4, <1>5, AddedKeyTracked
       DEF AddedKeyTracked, Registered, CleanupConfirm, Exit, EndRun
  <2>6. HistoryInv'
    BY <2>4
  <2>7. TypeInv' /\ RunInv' /\ FilesInv' /\ NewInv' /\ RecordInv'
    BY <2>2, <2>3
  <2> QED BY <2>5, <2>6, <2>7
<1>6. CASE RetirePost
  <2> USE <1>6 DEF RetirePost, Goto
  <2>1. target \in Certs
    OBVIOUS
  <2>2. CASE Removing(target)
    <3>1. Unregistered(target)
      BY ONLY <1>typ, <2>1, <2>2 DEF Removing, Unregistered, KeyStatus
    <3> QED BY <2>1, <3>1 DEF Unregistered
  <2>3. CASE Goto("check") /\ UNCHANGED app
    BY <2>1, <2>3
  <2> QED BY <2>2, <2>3
<1>7. CASE RetireConfirm
  <2> USE <1>7 DEF RetireConfirm, WriteState
  <2>1. [mem EXCEPT !.rem = None].add = mem.add /\ [mem EXCEPT !.rem = None].rem = None
    BY StateUpdates
  <2>2. stateFile' \in {[mem EXCEPT !.rem = None], stateFile} /\ mem' = stateFile'
    OBVIOUS
  <2>3. stateFile'.add = stateFile.add /\ stateFile'.rem \in {None, stateFile.rem}
    <3>1. pc # "idle"
      OBVIOUS
    <3> QED BY ONLY <1>typ, <2>1, <2>2, <3>1
  <2> QED BY <2>2, <2>3
<1>8. CASE NotNow
  BY <1>8 DEF NotNow, Exit, EndRun
<1>9. CASE Stage
  BY <1>9 DEF Stage
<1>10. CASE AddKey
  BY <1>10 DEF AddKey, Goto, Exit, EndRun
<1>11. CASE RecordAddition
  <2> USE <1>11 DEF RecordAddition, WriteState
  <2>1. [mem EXCEPT !.add = new].add = new /\ [mem EXCEPT !.add = new].rem = mem.rem
    BY StateUpdates
  <2>2. stateFile'.rem = stateFile.rem
    BY <2>1
  <2> QED BY <2>1, <2>2
<1>12. CASE Await
  BY <1>12 DEF Await, Goto
<1>13. CASE ProveToken
  BY <1>13 DEF ProveToken, Goto
<1>14. CASE ProveSend
  BY <1>14 DEF ProveSend, Goto
<1>15. CASE AbandonPost
  <2> USE <1>15 DEF AbandonPost, Goto, Exit, EndRun
  <2>1. new \in Certs
    OBVIOUS
  <2>2. CASE Removing(new)
    <3>1. Unregistered(new)
      BY ONLY <1>typ, <2>1, <2>2 DEF Removing, Unregistered, KeyStatus
    <3> QED BY <2>1, <3>1 DEF Unregistered
  <2>3. CASE Exit /\ UNCHANGED app
    BY <2>1, <2>3
  <2> QED BY <2>2, <2>3
<1>16. CASE AbandonConfirm
  <2> USE <1>16 DEF AbandonConfirm, Exit, EndRun, MayBeMissed
  <2>1. [mem EXCEPT !.add = None].add = None /\ [mem EXCEPT !.add = None].rem = mem.rem
    BY StateUpdates
  <2>2. stateFile'.add = None \/ stateFile' = stateFile
    BY <2>1
  <2>3. stateFile'.rem = stateFile.rem
    BY <2>1
  <2>4. /\ leaked \subseteq leaked' /\ leaked' \subseteq used
        /\ stateFile' # stateFile /\ Registered(new) => new \in leaked'
        /\ UNCHANGED <<app, everLive, used>> /\ stateFile.add = new
    BY DEF LostByDropping
  <2>5. AddedKeyTracked'
    BY ONLY <2>2, <2>4, <1>16, AddedKeyTracked
       DEF AddedKeyTracked, Registered, AbandonConfirm, EndRun
  <2>6. HistoryInv'
    BY <2>4
  <2>7. TypeInv' /\ RunInv' /\ FilesInv' /\ NewInv' /\ RecordInv'
    BY <2>2, <2>3
  <2> QED BY <2>5, <2>6, <2>7
<1>17. CASE SwapKey
  <2> USE <1>17 DEF SwapKey, Goto
  <2>1. previous'.key = live.key /\ previous'.cert = previous.cert
    BY PairUpdates
  <2>2. live'.key = None /\ live'.cert = live.cert
    BY PairUpdates
  <2> QED BY <2>1, <2>2
<1>18. CASE SwapCert
  <2> USE <1>18 DEF SwapCert, Goto
  <2>1. previous'.cert = live.cert /\ previous'.key = previous.key
    BY PairUpdates
  <2>2. live'.cert = None /\ live'.key = live.key
    BY PairUpdates
  <2> QED BY <2>1, <2>2
<1>19. CASE PutKey
  <2> USE <1>19 DEF PutKey, Goto
  <2>1. live'.key = staged.key /\ live'.cert = live.cert
    BY PairUpdates
  <2>2. staged'.key = None /\ staged'.cert = staged.cert
    BY PairUpdates
  <2> QED BY <2>1, <2>2
<1>20. CASE PutCert
  <2> USE <1>20 DEF PutCert, Goto
  <2>1. live'.cert = staged.cert /\ live'.key = live.key
    BY PairUpdates
  <2>2. staged'.cert = None /\ staged'.key = staged.key
    BY PairUpdates
  <2> QED BY <2>1, <2>2
<1>21. CASE Schedule
  <2> USE <1>21 DEF Schedule, WriteState, IsReplaced
  <2> DEFINE adopted == [mem EXCEPT !.add = None]
  <2>1. adopted \in StateRecord /\ adopted.add = None
    BY ONLY <1>typ, StateUpdates
  <2>2. [adopted EXCEPT !.rem = cur.cert].add = None
    <3>1. cur.cert \in Slot
      OBVIOUS
    <3> HIDE DEF adopted
    <3> QED BY ONLY <2>1, <3>1, StateUpdates
  <2>3. stateFile' \in {adopted, [adopted EXCEPT !.rem = cur.cert]} /\ mem' = stateFile'
    OBVIOUS
  <2>4. stateFile'.add = None
    BY ONLY <2>1, <2>2, <2>3
  <2>5. /\ stateFile.add = new /\ new \in everLive /\ pc # "record"
        /\ UNCHANGED <<app, everLive, leaked>>
    OBVIOUS
  <2>6. AddedKeyTracked'
    BY ONLY <2>5, AddedKeyTracked DEF AddedKeyTracked, Registered
  <2>7. stateFile'.rem \in {mem.rem, cur.cert}
    <3>1. adopted.rem = mem.rem
      BY ONLY <1>typ, StateUpdates
    <3>2. cur.cert \in Slot
      OBVIOUS
    <3> HIDE DEF adopted
    <3>3. [adopted EXCEPT !.rem = cur.cert].rem = cur.cert
      BY ONLY <2>1, <3>2, StateUpdates
    <3> QED BY ONLY <2>3, <3>1, <3>3
  <2> QED BY <2>3, <2>4, <2>6, <2>7
<1>22. CASE RefreshNow
  BY <1>22 DEF RefreshNow, Exit, EndRun
<1>23. CASE Die
  <2>1. leaked \subseteq leaked' /\ leaked' \subseteq used /\ used' = used
    BY ONLY <1>lost, <1>23 DEF Die, ForgetRun, EndRun
  <2>2. pc = "record" => new \in leaked'
    BY ONLY <1>23 DEF Die, ForgetRun, EndRun, LostByDeath
  <2>3. HistoryInv'
    BY <1>23, <2>1 DEF Die, ForgetRun, EndRun
  <2>4. AddedKeyTracked'
    BY <1>23, <2>1, <2>2 DEF Die, ForgetRun, EndRun
  <2>5. TypeInv' /\ RunInv' /\ NewInv' /\ RecordInv'
    BY <1>23 DEF Die, ForgetRun, EndRun
  <2>6. FilesInv'
    BY <1>23 DEF Die, ForgetRun, EndRun
  <2> QED BY <2>3, <2>4, <2>5, <2>6
<1>24. CASE RemoveReplyLost
  <2> USE <1>24 DEF RemoveReplyLost, ForgetRun, EndRun, LostByDeath
  <2>1. target \in Certs
    OBVIOUS
  <2>2. CASE Removing(target)
    <3>1. Unregistered(target)
      BY ONLY <1>typ, <2>1, <2>2 DEF Removing, Unregistered, KeyStatus
    <3> QED BY <2>1, <3>1 DEF Unregistered
  <2> QED BY <2>2
<1>25. CASE AddReplyLost
  BY <1>25 DEF AddReplyLost, EndRun
<1>26. CASE Crash
  <2>1. leaked \subseteq leaked' /\ leaked' \subseteq used /\ used' = used
    BY ONLY <1>lost, <1>26 DEF Crash, ForgetRun, EndRun
  <2>2. pc = "record" => new \in leaked'
    BY ONLY <1>26 DEF Crash, ForgetRun, EndRun, LostByDeath
  <2>3. HistoryInv'
    BY <1>26, <2>1 DEF Crash, ForgetRun, EndRun
  <2>4. AddedKeyTracked'
    BY <1>26, <2>1, <2>2 DEF Crash, ForgetRun, EndRun
  <2>5. TypeInv' /\ RunInv' /\ NewInv' /\ RecordInv'
    BY <1>26 DEF Crash, ForgetRun, EndRun
  <2>6. FilesInv'
    BY <1>26 DEF Crash, ForgetRun, EndRun
  <2> QED BY <2>3, <2>4, <2>5, <2>6
<1>27. CASE Environment
  <2> USE <1>27 DEF Environment, rotVars
  <2>1. ASSUME NEW k \in Certs \cup Foreign, Replicate(k) PROVE CoreInv'
    BY <2>1 DEF Replicate
  <2>2. ASSUME NEW c \in Certs, Ages(c) PROVE CoreInv'
    BY <2>2 DEF Ages
  <2>3. ASSUME NEW c \in Certs \cup Foreign, GraceElapses(c) PROVE CoreInv'
    BY <2>3 DEF GraceElapses
  <2>4. ASSUME NEW c \in Certs, AdminDeletes(c) PROVE CoreInv'
    BY <2>4 DEF AdminDeletes
  <2>5. CASE BootGenerates
    BY <2>5 DEF BootGenerates
  <2>6. CASE BootMints
    BY <2>6 DEF BootMints
  <2> QED BY <2>1, <2>2, <2>3, <2>4, <2>5, <2>6 DEF Boot
<1>28. CASE UNCHANGED vars
  BY <1>28 DEF vars, rotVars
<1> QED BY <1>1, <1>2, <1>3, <1>4, <1>5, <1>6, <1>7, <1>8, <1>9, <1>10, <1>11, <1>12, <1>13, <1>14, <1>15, <1>16, <1>17, <1>18, <1>19, <1>20, <1>21, <1>22, <1>23, <1>24, <1>25, <1>26, <1>27, <1>28
    DEF Next, RotationStep, Failure


-----------------------------------------------------------------------------
\* What one step may do to the registration, and to the files.

\* The four ways in which the status of a key changes.
LEMMA AppMoves ==
    ASSUME TypeInv, [Next]_vars, NEW k \in Certs \cup Foreign, app'[k] # app[k]
    PROVE  \/ app[k] = "adding" /\ app'[k] = "present"
           \/ app[k] = "removing" /\ app'[k] = "absent"
           \/ app'[k] = "adding" /\ pc = "addKey" /\ k = new
           \/ /\ app[k] # "absent" /\ app'[k] = "removing"
              /\ \/ pc \in {"cleanup", "retire"} /\ k = target
                 \/ pc = "abandon" /\ k = new
                 \/ k \in Certs \cap revoked'
<1> USE DEF TypeInv, TypeOK, WorldTypeOK, RotTypeOK
<1>1. ASSUME NEW t, Removing(t) PROVE k = t /\ app[k] # "absent" /\ app'[k] = "removing"
  BY <1>1 DEF Removing
<1>2. CASE CleanupPost \/ RetirePost \/ AbandonPost \/ RemoveReplyLost
  BY <1>1, <1>2 DEF CleanupPost, RetirePost, AbandonPost, RemoveReplyLost
<1>3. CASE AddKey \/ AddReplyLost
  BY <1>3 DEF AddKey, AddReplyLost
<1>4. ASSUME NEW j \in Certs \cup Foreign, Replicate(j)
      PROVE  \/ app[k] = "adding" /\ app'[k] = "present"
             \/ app[k] = "removing" /\ app'[k] = "absent"
  BY <1>4 DEF Replicate
<1>5. ASSUME NEW c \in Certs, AdminDeletes(c)
      PROVE  k \in Certs \cap revoked' /\ app[k] # "absent" /\ app'[k] = "removing"
  BY <1>5 DEF AdminDeletes, Registered
<1>6. CASE \/ Start \/ ResolveAddition \/ ResolveRemoval \/ CleanupConfirm \/ RetireConfirm
           \/ NotNow \/ Stage \/ RecordAddition \/ Await \/ ProveToken \/ ProveSend
           \/ AbandonConfirm
           \/ SwapKey \/ SwapCert \/ PutKey \/ PutCert \/ Schedule \/ RefreshNow
           \/ Die \/ Crash \/ Boot
           \/ \E j \in Certs \cup Foreign : GraceElapses(j) \/ Ages(j)
  BY <1>6 DEF Start, ResolveAddition, ResolveRemoval, CleanupConfirm, RetireConfirm,
      NotNow, Stage, RecordAddition, Await, ProveToken, ProveSend, AbandonConfirm,
      SwapKey, SwapCert, PutKey, PutCert, Schedule, RefreshNow, Die, Crash, Boot,
      BootGenerates, BootMints, GraceElapses, Ages, worldVars
<1>7. CASE UNCHANGED vars
  BY <1>7 DEF vars, worldVars
<1> QED BY <1>2, <1>3, <1>4, <1>5, <1>6, <1>7
    DEF Next, RotationStep, Failure, Environment

\* The relay takes a key off only when its record or its grace days say so, and
\* never the certificate that the run works with.
LEMMA OnlyGivenUp ==
    ASSUME CoreInv, [Next]_vars, NEW k \in Certs \cup Foreign,
           Registered(k), ~Registered(k)'
    PROVE  \/ k \in revoked'
           \/ pc \in BeforeSwap /\ k # cur.cert /\ k = stateFile.add
           \/ pc \in BeforeSwap /\ k \in elapsed
           \/ pc = "abandon" /\ k = new
<1>1. app'[k] # app[k] /\ app'[k] \notin {"adding", "present"}
  BY DEF Registered
<1>2. app'[k] = "removing"
  BY <1>1, AppMoves DEF CoreInv, Registered
<1>3. \/ pc \in {"cleanup", "retire"} /\ k = target
      \/ pc = "abandon" /\ k = new
      \/ k \in Certs \cap revoked'
  BY <1>1, <1>2, AppMoves DEF CoreInv
<1> QED BY <1>3 DEF CoreInv, RecordInv, BeforeSwap, PCs, SwapPCs, RemovePCs

\* Histories only grow.
LEMMA Growing ==
    ASSUME [Next]_vars
    PROVE  /\ revoked \subseteq revoked' /\ elapsed \subseteq elapsed'
           /\ everLive \subseteq everLive' /\ (torn => torn')
<1> DEFINE Grown == /\ revoked \subseteq revoked' /\ elapsed \subseteq elapsed'
                    /\ everLive \subseteq everLive' /\ (torn => torn')
<1>1. CASE RotationStep
  <2>1. UNCHANGED <<revoked, elapsed, torn>> /\ everLive \subseteq everLive'
    BY <1>1 DEF RotationStep, worldVars, Start, ResolveAddition, ResolveRemoval,
        CleanupPost, CleanupConfirm, RetirePost, RetireConfirm, NotNow, Stage, AddKey,
        RecordAddition, Await, ProveToken, ProveSend, AbandonPost, AbandonConfirm,
        SwapKey, SwapCert, PutKey, PutCert, Schedule, RefreshNow
  <2> QED BY <2>1, Zenon
<1>2. CASE Die \/ RemoveReplyLost \/ Crash
  <2>1. torn => torn'
    BY <1>2, Zenon DEF Die, RemoveReplyLost, Crash, ForgetRun, EndRun
  <2> QED BY <1>2, <2>1 DEF Die, RemoveReplyLost, Crash
<1>3. CASE AddReplyLost
  BY <1>3 DEF AddReplyLost
<1>4. CASE Environment
  BY <1>4 DEF Environment, Replicate, GraceElapses, Ages, AdminDeletes, Boot,
      BootGenerates, BootMints
<1>5. CASE UNCHANGED vars
  BY <1>5 DEF vars, worldVars
<1> QED BY <1>1, <1>2, <1>3, <1>4, <1>5 DEF Next, Failure

\* A run carries its new certificate from the addKey to the swap.
LEMMA NewCarried ==
    ASSUME CoreInv, [Next]_vars, pc' \in Proving
    PROVE  new' = new /\ (pc \in Proving \/ (pc = "addKey" /\ app'[new] = "adding"))
<1> USE DEF Proving, HasNew, SwapPCs
<1>1. CASE AddKey
  BY <1>1 DEF AddKey, Goto, Exit, EndRun, CoreInv, TypeInv, TypeOK, WorldTypeOK, HoldsOwn
<1>2. CASE RotationStep /\ ~AddKey
  BY <1>2 DEF RotationStep, Start, ResolveAddition, ResolveRemoval, CleanupPost,
      CleanupConfirm, RetirePost, RetireConfirm, NotNow, Stage, RecordAddition,
      Await, ProveToken, ProveSend, AbandonPost, AbandonConfirm, SwapKey, SwapCert,
      PutKey, PutCert, Schedule, RefreshNow, Goto, Exit, EndRun
<1>3. CASE Failure
  BY <1>3 DEF Failure, Die, RemoveReplyLost, AddReplyLost, Crash, ForgetRun, EndRun
<1>4. CASE Environment \/ UNCHANGED vars
  BY <1>4 DEF Environment, rotVars, vars
<1> QED BY <1>1, <1>2, <1>3, <1>4 DEF Next

\* Outside the renames the live certificate and its predecessor stay what they
\* were, except by the last rename, which puts the new one in place.
LEMMA LiveCarried ==
    ASSUME CoreInv, [Next]_vars, ~torn', pc' \notin SwapPCs
    PROVE  /\ ~torn
           /\ \/ pc \notin SwapPCs /\ live' = live /\ previous' = previous
              \/ /\ pc = "putCert" /\ live'.cert = new
                 /\ previous' = previous /\ UNCHANGED <<app, revoked>>
<1> USE DEF SwapPCs
<1>1. ~torn
  BY Growing
<1>2. CASE PutCert
  <2>1. live'.cert = new
    BY <1>2, PairUpdates DEF PutCert, CoreInv, TypeInv, TypeOK, WorldTypeOK,
       HoldsOwn, HasNew, RotTypeOK
  <2> QED BY <1>1, <1>2, <2>1 DEF PutCert
<1>3. CASE RotationStep /\ ~PutCert
  BY <1>1, <1>3 DEF RotationStep, worldVars, Start, ResolveAddition, ResolveRemoval,
      CleanupPost, CleanupConfirm, RetirePost, RetireConfirm, NotNow, Stage, AddKey,
      RecordAddition, Await, ProveToken, ProveSend, AbandonPost, AbandonConfirm,
      SwapKey, SwapCert, PutKey, Schedule, RefreshNow, Goto, Exit, EndRun
<1>4. CASE Failure
  BY <1>1, <1>4 DEF Failure, Die, RemoveReplyLost, AddReplyLost, Crash, ForgetRun, EndRun
<1>5. CASE Environment /\ ~Boot
  BY <1>1, <1>5 DEF Environment, rotVars, Replicate, GraceElapses, Ages, AdminDeletes
<1>6. CASE Environment /\ Boot
  <2>1. pc \notin SwapPCs /\ Complete(live)
    BY <1>1, <1>6 DEF Environment, rotVars, Boot, CoreInv, FilesInv
  <2> QED BY <1>1, <1>6, <2>1 DEF Boot, BootGenerates, BootMints
<1>7. CASE UNCHANGED vars
  BY <1>1, <1>7 DEF vars, worldVars, rotVars
<1> QED BY <1>2, <1>3, <1>4, <1>5, <1>6, <1>7 DEF Next

\* A run carries the pair it loaded through the renames.
LEMMA CurCarried ==
    ASSUME CoreInv, [Next]_vars, pc' \in SwapPCs
    PROVE  /\ cur' = cur
           /\ pc \in SwapPCs \/ (pc = "swapKey" /\ torn' = torn /\ UNCHANGED <<app, revoked>>)
<1> USE DEF SwapPCs
<1>1. CASE RotationStep
  BY <1>1 DEF RotationStep, Start, ResolveAddition, ResolveRemoval, CleanupPost,
      CleanupConfirm, RetirePost, RetireConfirm, NotNow, Stage, AddKey,
      RecordAddition, Await, ProveToken, ProveSend, AbandonPost, AbandonConfirm,
      SwapKey, SwapCert, PutKey, PutCert, Schedule, RefreshNow, Goto, Exit, EndRun
<1>2. CASE Failure
  BY <1>2 DEF Failure, Die, RemoveReplyLost, AddReplyLost, Crash, ForgetRun, EndRun
<1>3. CASE Environment \/ UNCHANGED vars
  BY <1>3 DEF Environment, rotVars, vars
<1> QED BY <1>1, <1>2, <1>3 DEF Next

-----------------------------------------------------------------------------
\* What stays registered.

\* The live certificate and the one about to replace it, whatever keys X are
\* excepted.
LEMMA GuardStep ==
    ASSUME NEW X, CoreInv, [Next]_vars, Guarded(X)
    PROVE  Guarded(X)'
<1> USE DEF Proving, HasNew, BeforeSwap, SwapPCs, PCs, RemovePCs
<1>typ. pc \in PCs /\ (pc \in HasNew => new \in Certs)
  BY DEF CoreInv, TypeInv, TypeOK, RotTypeOK, HoldsOwn
<1>1. ASSUME pc' \in Proving PROVE Registered(new)' \/ new' \in revoked' \cup X
  <2>1. CASE pc = "addKey" /\ app'[new] = "adding"
    BY <1>1, <2>1, NewCarried DEF Registered
  <2>2. CASE pc \in Proving
    <3>1. new' = new /\ new \in Certs
      BY <1>1, <1>typ, <2>2, NewCarried
    <3>2. Registered(new) \/ new \in revoked \cup X
      BY <2>2 DEF Guarded
    <3>3. ASSUME Registered(new), ~Registered(new)' PROVE new' \in revoked'
      <4>1. pc \notin {"cleanup", "retire", "abandon"}
        BY <2>2
      <4>2. app'[new] \notin {"adding", "present"} /\ app[new] \in {"adding", "present"}
        BY <3>1, <3>3 DEF Registered
      <4> QED BY <3>1, <4>1, <4>2, AppMoves DEF CoreInv
    <3> QED BY <3>1, <3>2, <3>3, Growing DEF Registered
  <2> QED BY <1>1, <2>1, <2>2, NewCarried
<1>2. ASSUME ~torn', pc' \notin SwapPCs, live'.cert \notin revoked' \cup X
      PROVE  app'[live'.cert] \in {"adding", "present"}
  <2>1. CASE pc = "putCert" /\ live'.cert = new /\ UNCHANGED <<app, revoked>>
    BY <1>2, <2>1 DEF Guarded, Registered
  <2>2. CASE pc \notin SwapPCs /\ live' = live
    <3>1. ~torn /\ live.cert \notin revoked \cup X
      BY <1>2, <2>2, Growing, LiveCarried
    <3>2. Registered(live.cert)
      BY <2>2, <3>1 DEF Guarded
    <3>3. live.cert \in Certs /\ live.cert \in everLive
      BY <2>2, <3>1, SlotValues, PairValues
         DEF CoreInv, TypeInv, TypeOK, WorldTypeOK, FilesInv, Complete
    <3>4. ASSUME ~Registered(live.cert)' PROVE FALSE
      <4>1. Registered(live.cert) /\ app'[live.cert] \notin {"adding", "present"}
        BY <2>2, <3>2, <3>4 DEF Registered
      <4>2. PICK k \in Certs \cup Foreign : k = live.cert
        BY <3>3
      <4>3. Registered(k) /\ ~Registered(k)'
        BY <4>1, <4>2 DEF Registered
      <4>4. \/ k \in revoked'
            \/ pc \in BeforeSwap /\ k # cur.cert /\ k = stateFile.add
            \/ pc \in BeforeSwap /\ k \in elapsed
            \/ pc = "abandon" /\ k = new
        BY <4>3, OnlyGivenUp
      <4>5. k \notin revoked'
        BY <1>2, <2>2, <4>2
      <4>6. pc \in BeforeSwap => k = cur.cert
        BY <4>2 DEF CoreInv, RunInv
      <4>7. k \notin elapsed
        BY <3>1, <4>2 DEF CoreInv, HistoryInv
      <4>8. pc = "abandon" => k # new
        BY <3>3, <4>2 DEF CoreInv, NewInv
      <4> QED BY <4>4, <4>5, <4>6, <4>7, <4>8
    <3> QED BY <2>2, <3>4 DEF Registered
  <2> QED BY <1>2, <2>1, <2>2, LiveCarried
<1> QED BY <1>1, <1>2 DEF Guarded, Registered

\* The way back, and during the renames the pair that becomes it.
LEMMA BackStep ==
    ASSUME CoreInv, CoreInv', [Next]_vars, LiveRegistered, BackInv
    PROVE  BackInv'
<1> DEFINE Kept(k) == Registered(k) \/ k \in revoked
<1>typ. /\ live.cert \in everLive \/ live.cert = None
        /\ cur.cert \in Slot /\ everLive \subseteq Certs
        /\ pc \in HasNew => new \notin everLive
        /\ pc # "idle" => cur.cert \in everLive
  BY PairValues DEF CoreInv, TypeInv, TypeOK, WorldTypeOK, RotTypeOK, FilesInv, NewInv, RunInv
<1>1. ASSUME NEW k \in everLive, ~torn, Registered(k), ~Registered(k)',
             k \notin revoked'
      PROVE  k \in elapsed \/ (pc \in BeforeSwap /\ k = live.cert /\ k # cur.cert)
  <2>1. k \in Certs \cup Foreign
    BY <1>1, <1>typ
  <2>2. pc = "abandon" => k # new
    BY <1>1, <1>typ DEF HasNew, SwapPCs
  <2>3. k = stateFile.add => k = live.cert
    BY <1>1 DEF CoreInv, RecordInv
  <2> QED BY <1>1, <2>1, <2>2, <2>3, OnlyGivenUp
<1>2. ASSUME pc' \in SwapPCs, ~torn' PROVE Kept(cur.cert)'
  <2>1. cur' = cur /\ ~torn
    BY <1>2, CurCarried, Growing
  <2>2. CASE pc \in SwapPCs
    <3>1. Kept(cur.cert)
      BY <2>1, <2>2 DEF BackInv
    <3>2. pc # "idle" /\ pc \notin BeforeSwap /\ pc # "abandon"
      BY <2>2 DEF SwapPCs, BeforeSwap
    <3>3. PICK k \in Certs : k = cur.cert
      BY <1>typ, <3>2
    <3>4. Registered(k) => Registered(k)' \/ k \in revoked'
      BY <3>2, OnlyGivenUp
    <3> QED BY <2>1, <3>1, <3>3, <3>4, Growing DEF Registered
  <2>3. CASE pc = "swapKey" /\ torn' = torn /\ UNCHANGED <<app, revoked>>
    <3>1. cur = live /\ pc \notin SwapPCs
      BY <2>3 DEF CoreInv, RunInv, BeforeSwap, PCs, SwapPCs
    <3> QED BY <2>1, <2>3, <3>1 DEF LiveRegistered, Registered
  <2> QED BY <1>2, <2>2, <2>3, CurCarried
<1>3. ASSUME ~torn', pc' \notin SwapPCs, previous' # NoPair
      PROVE  /\ previous'.key = previous'.cert
             /\ Registered(previous.cert)' \/ previous'.cert \in elapsed' \cup revoked'
  <2>1. ~torn /\ previous' = previous
    BY <1>3, LiveCarried
  <2>2. CASE pc \notin SwapPCs
    <3>1. /\ previous.key = previous.cert
          /\ Registered(previous.cert) \/ previous.cert \in elapsed \cup revoked
      BY <1>3, <2>1, <2>2 DEF BackInv, WayBack
    <3>2. previous.cert \in everLive
      BY <1>3, <2>1, <2>2 DEF CoreInv, HistoryInv
    <3>3. PICK k \in everLive : k = previous.cert
      BY <3>2
    <3>4. pc \in BeforeSwap => cur.cert = live.cert
      BY DEF CoreInv, RunInv
    <3>5. Registered(k) => Registered(k)' \/ k \in elapsed' \cup revoked'
      BY <1>1, <2>1, <3>4, Growing
    <3> QED BY <2>1, <3>1, <3>3, <3>5, Growing DEF Registered
  <2>3. CASE pc = "putCert" /\ UNCHANGED <<app, revoked>>
    <3>1. previous.key = cur.cert /\ previous.cert = cur.cert
      BY <2>3 DEF CoreInv, FilesInv
    <3>2. Kept(cur.cert)
      BY <2>1, <2>3 DEF BackInv, SwapPCs
    <3> QED BY <2>1, <2>3, <3>1, <3>2 DEF Registered
  <2> QED BY <1>3, <2>2, <2>3, LiveCarried
<1> QED BY <1>2, <1>3 DEF BackInv, WayBack, Registered

\* No record names another instance's key, so that none is removed.
LEMMA ForeignStep == ASSUME TypeInv, [Next]_vars, ForeignInv PROVE ForeignInv'
<1> SUFFICES ASSUME NEW k \in Foreign PROVE app'[k] = "present"
  BY DEF ForeignInv
<1>1. k \notin Slot /\ k \notin Certs /\ app[k] = "present"
  BY SlotValues, InstancesAreSeparate DEF ForeignInv
<1>2. target \in Slot /\ new \in Slot
  BY DEF TypeInv, TypeOK, RotTypeOK
<1> QED BY <1>1, <1>2, AppMoves

\* The whole invariant is inductive.
LEMMA InvStep == IInv /\ [Next]_vars => IInv'
<1> SUFFICES ASSUME IInv, [Next]_vars PROVE IInv'
  OBVIOUS
<1>1. CoreInv'
  BY TypeInvStep, CoreStep DEF IInv, CoreInv
<1>2. Guarded({})'
  BY GuardStep DEF IInv
<1>3. LiveRegistered
  BY DEF IInv, Guarded, LiveRegistered
<1>4. BackInv'
  BY <1>1, <1>3, BackStep DEF IInv
<1>5. ForeignInv'
  BY ForeignStep DEF IInv, CoreInv
<1> QED BY <1>1, <1>2, <1>4, <1>5 DEF IInv

LEMMA InvInit == Init => IInv
<1> SUFFICES ASSUME Init PROVE IInv
  OBVIOUS
<1>1. PICK c \in Certs : WorldInit!(c)
  BY DEF Init, WorldInit
<1> QED BY <1>1, TypeInvInit, SlotValues, PairValues, StateValues
    DEF Init, RotInit, IInv, CoreInv, Guarded, BackInv,
        RunInv, FilesInv, NewInv, RecordInv, HistoryInv, ForeignInv,
        AddedKeyTracked, WayBack,
        BeforeSwap, HasNew, Proving, Recorded, NothingAdded, Complete, Registered, SwapPCs

-----------------------------------------------------------------------------
\* The theorems.

\* Every value the programs of the relay store is of its type, in every state
\* of every behaviour, for any set of certificates.
THEOREM TypeCorrect == Spec => []TypeOK
<1>1. TypeInv => TypeOK
  BY DEF TypeInv
<1> QED BY <1>1, TypeInvInit, TypeInvStep, PTL DEF Spec

LEMMA Invariant == Spec => []IInv
  BY InvInit, InvStep, PTL DEF Spec

\* The relay never removes the credential it lives on (LiveRegistered), for any
\* number of certificates, rotations, deaths and deletions by an administrator.
THEOREM LiveStaysRegistered == Spec => []LiveRegistered
<1>1. IInv => LiveRegistered
  BY DEF IInv, Guarded, LiveRegistered
<1> QED BY <1>1, Invariant, PTL

\* A key added and not adopted is on record, or its run died unrecorded.
THEOREM AddedKeysAreTracked == Spec => []AddedKeyTracked
<1>1. IInv => AddedKeyTracked
  BY DEF IInv, CoreInv
<1> QED BY <1>1, Invariant, PTL

\* The previous pair stays whole and registered through its grace days.
THEOREM WayBackIsKept == Spec => []WayBack
<1>1. IInv => WayBack
  BY DEF IInv, BackInv
<1> QED BY <1>1, Invariant, PTL

\* Other instances' keys: every step keeps them at "present", which is the
\* invariant ForeignInv before the step and after it.
THEOREM ForeignKeysUntouched == Spec => ForeignUntouched
<1>1. IInv /\ IInv' => [\A k \in Foreign : app'[k] = app[k]]_vars
  BY DEF IInv, ForeignInv
<1> QED BY <1>1, Invariant, PTL DEF ForeignUntouched

\* An addKey happens only where the record is empty (NothingAdded), and then
\* AddedKeyTracked says that no other key is left over.
THEOREM OneAddition == Spec => OneAdditionAtATime
<1> DEFINE Step == \A c \in Certs : (app[c] = "absent" /\ app'[c] = "adding") =>
                        \A d \in Certs \ (everLive \cup leaked) : ~Registered(d)
<1>1. IInv /\ IInv' /\ [Next]_vars => [Step]_vars
  <2> SUFFICES ASSUME IInv, Next, NEW c \in Certs,
                      app[c] = "absent", app'[c] = "adding",
                      NEW d \in Certs \ (everLive \cup leaked)
               PROVE  ~Registered(d)
    BY DEF vars
  <2>1. pc = "addKey"
    BY AppMoves DEF IInv, CoreInv
  <2>2. pc = "addKey" /\ stateFile.add = None
    BY <2>1 DEF IInv, CoreInv, RecordInv, NothingAdded
  <2> QED BY <2>2, SlotValues DEF IInv, CoreInv, AddedKeyTracked
<1> QED BY <1>1, Invariant, PTL DEF OneAdditionAtATime, Spec

\* A scheduled retirement leaves the record when its key is going, when a later
\* rotation schedules its own, or when its key has yet to be shown everywhere.
THEOREM RetirementsAreKept == Spec => RetirementKept
<1> DEFINE Step == \A c \in Certs : (stateFile.rem = c /\ stateFile'.rem # c) =>
                        \/ ~Registered(c)
                        \/ pc = "schedule"
                        \/ pc = "retireConfirm" /\ app[c] = "adding"
<1>1. IInv /\ IInv' /\ [Next]_vars => [Step]_vars
  <2> SUFFICES ASSUME IInv, Next, NEW c \in Certs,
                      stateFile.rem = c, stateFile'.rem # c, pc # "schedule"
               PROVE  ~Registered(c) \/ (pc = "retireConfirm" /\ app[c] = "adding")
    BY DEF vars
  <2>typ. mem \in StateRecord /\ stateFile \in StateRecord /\ None \in Slot
    BY SlotValues DEF IInv, CoreInv, TypeInv, TypeOK, WorldTypeOK, RotTypeOK
  <2>1. [mem EXCEPT !.add = None].rem = mem.rem
    BY <2>typ, StateUpdates
  <2>2. [mem EXCEPT !.add = new].rem = mem.rem \/ pc # "record"
    BY <2>typ, StateUpdates, SlotValues
       DEF IInv, CoreInv, TypeInv, HoldsOwn, HasNew, SwapPCs
  <2>3. pc # "idle" => mem.rem = c
    BY DEF IInv, CoreInv, RunInv
  <2>4. CASE RetireConfirm
    BY <2>4 DEF RetireConfirm, MayBeMissed, Registered, IInv, CoreInv, RecordInv
  <2>5. CASE RotationStep /\ ~RetireConfirm
    BY <2>1, <2>2, <2>3, <2>5
       DEF RotationStep, worldVars, Start, ResolveAddition, ResolveRemoval,
           CleanupPost, CleanupConfirm, RetirePost, NotNow, Stage, AddKey,
           RecordAddition, Await, ProveToken, ProveSend, AbandonPost,
           AbandonConfirm, SwapKey, SwapCert, PutKey, PutCert, Schedule,
           RefreshNow, WriteState, Goto, Exit, EndRun
  <2>6. CASE Failure
    BY <2>6 DEF Failure, Die, Crash, RemoveReplyLost, AddReplyLost, worldVars
  <2>7. CASE Environment
    BY <2>7 DEF Environment, Replicate, Ages, GraceElapses, AdminDeletes, Boot,
                BootGenerates, BootMints
  <2> QED BY <2>4, <2>5, <2>6, <2>7 DEF Next
<1> QED BY <1>1, Invariant, PTL DEF RetirementKept, Spec

-----------------------------------------------------------------------------
\* Rotation implements KeyCustody.

LEMMA CustodyInit == Init => Custody!Init
<1> SUFFICES ASSUME Init PROVE Custody!Init
  OBVIOUS
<1>1. PICK c \in Certs : WorldInit!(c)
  BY DEF Init, WorldInit
<1>2. RegisteredKeys = {c} \cup Foreign
  BY <1>1 DEF RegisteredKeys, Registered
<1>3. Serving = c
  BY <1>1, SlotValues, PairValues DEF Serving, Init, RotInit, SwapPCs
<1> QED BY <1>1, <1>2, <1>3 DEF Custody!Init, Init, RotInit

\* Outside the renames the certificate in service is that of the live files.
LEMMA ServingLive ==
    ASSUME IInv
    PROVE  /\ pc \notin SwapPCs => Serving \in {live.cert, None}
           /\ pc \in BeforeSwap => Serving = cur.cert /\ Serving = live.cert
           /\ Complete(live) => Serving = live.cert
<1> USE SlotValues, PairValues
    DEF IInv, CoreInv, TypeInv, TypeOK, WorldTypeOK, RotTypeOK, HistoryInv, FilesInv,
        RunInv, BeforeSwap, Complete, PCs, SwapPCs, RemovePCs, Serving
<1>1. pc \notin SwapPCs => Serving \in {live.cert, None}
  OBVIOUS
<1>2. pc \in BeforeSwap => Serving = cur.cert /\ Serving = live.cert
  OBVIOUS
<1>3. Complete(live) => pc \notin SwapPCs /\ Serving = live.cert
  OBVIOUS
<1> QED BY <1>1, <1>2, <1>3

LEMMA ServingStays ==
    ASSUME live' = live, pc \notin SwapPCs, pc' \notin SwapPCs
    PROVE  Serving' = Serving
BY DEF Serving

\* Steps that concern neither the registration nor the pair.
LEMMA CustodyUnchanged ==
    ASSUME IInv, UNCHANGED <<app, live, notice, everLive, elapsed, leaked, revoked>>,
           pc \notin SwapPCs, pc' \notin SwapPCs
    PROVE  UNCHANGED Custody!custody
BY ServingStays, RegisteredStays DEF Custody!custody

\* A removeKey, confirmed or not, takes off a key that may go, or none.
LEMMA CustodyRemoving ==
    ASSUME IInv,
           UNCHANGED <<live, notice, everLive, elapsed, leaked, revoked>>,
           pc' \notin SwapPCs, NEW c \in Certs, Removing(c),
           \/ pc \in {"cleanup", "retire"} /\ c = target
           \/ pc = "abandon" /\ c = new
    PROVE  [Custody!Next]_(Custody!custody)
<1> USE DEF IInv, CoreInv
<1>1. pc \in BeforeSwap /\ pc \notin SwapPCs
  BY DEF BeforeSwap, PCs, SwapPCs, RemovePCs
<1>2. RegisteredKeys' = RegisteredKeys \ {c} \/ RegisteredKeys' = RegisteredKeys
  BY RemovingUnregisters DEF TypeInv, TypeOK
<1>3. Serving' = Serving /\ Serving = live.cert
  BY <1>1, ServingStays, ServingLive
<1>0. CASE RegisteredKeys' = RegisteredKeys
  BY <1>0, <1>3 DEF Custody!custody
<1>4. CASE pc = "retire" /\ RegisteredKeys' = RegisteredKeys \ {c}
  <2>1. c \in elapsed /\ c # Serving
    BY <1>3, <1>4 DEF RecordInv, HistoryInv
  <2>2. Custody!Retire(c)
    BY <1>3, <1>4, <2>1 DEF Custody!Retire
  <2> QED BY <2>2 DEF Custody!Next
<1>5. CASE pc \in {"cleanup", "abandon"} /\ RegisteredKeys' = RegisteredKeys \ {c}
  <2>1. c \notin everLive
    BY <1>5 DEF RecordInv, NewInv, HasNew, RunInv, BeforeSwap, PCs, SwapPCs, RemovePCs
  <2>2. Custody!GiveUp(c)
    BY <1>3, <1>5, <2>1 DEF Custody!GiveUp
  <2> QED BY <2>2 DEF Custody!Next
<1> QED BY <1>0, <1>2, <1>4, <1>5

\* An addKey that Graph has taken; what the reply brings, or that it is lost,
\* shows in leaked.
LEMMA CustodyAdding ==
    ASSUME IInv, pc = "addKey", pc' \notin SwapPCs,
           app' = [app EXCEPT ![new] = "adding"],
           leaked' \in {leaked, leaked \cup {new}},
           UNCHANGED <<live, notice, everLive, elapsed, revoked>>
    PROVE  Custody!Next
<1> USE DEF IInv, CoreInv
<1>1. new \in Certs /\ new \in used \ (everLive \cup leaked)
  BY DEF TypeInv, HoldsOwn, NewInv, HasNew
<1>2. stateFile.add = None
  BY DEF RecordInv, NothingAdded
<1>3. \A c \in Certs \ (everLive \cup leaked) : ~Registered(c)
  BY <1>2, SlotValues DEF AddedKeyTracked
<1>4. new \notin RegisteredKeys /\ Custody!Unused = {}
  BY <1>1, <1>3 DEF RegisteredKeys, Custody!Unused
<1>5. RegisteredKeys' = RegisteredKeys \cup {new}
  <2>1. app \in [Certs \cup Foreign -> KeyStatus]
    BY DEF TypeInv, TypeOK, WorldTypeOK
  <2>2. app'[new] = "adding" /\ \A j \in Certs \cup Foreign : j # new => app'[j] = app[j]
    BY <1>1, <2>1
  <2>3. new \in Certs \cup Foreign
    BY <1>1
  <2> HIDE DEF IInv
  <2> QED BY <2>2, <2>3, RegisteredMoves
<1>6. Serving' = Serving
  BY ServingStays DEF SwapPCs
<1>7. Custody!Add(new)
  BY <1>1, <1>4, <1>5, <1>6 DEF Custody!Add
<1> QED BY <1>1, <1>7 DEF Custody!Next

\* A record dropped for a key that is gone, or that is lost with it.
LEMMA CustodyDropping ==
    ASSUME IInv, pc \notin SwapPCs, pc' \notin SwapPCs, NEW c \in Certs \ everLive,
           leaked' \in {leaked, leaked \cup LostByDropping(c)},
           UNCHANGED <<app, live, notice, everLive, elapsed, revoked>>
    PROVE  [Custody!Next]_(Custody!custody)
<1>1. RegisteredKeys' = RegisteredKeys /\ Serving' = Serving
  BY RegisteredStays, ServingStays
<1>2. CASE leaked' = leaked
  BY <1>1, <1>2 DEF Custody!custody
<1>3. CASE leaked' # leaked
  <2>1. c \in RegisteredKeys /\ leaked' = leaked \cup {c}
    BY <1>3 DEF LostByDropping, RegisteredKeys, Registered
  <2>2. Custody!Lose(c)
    BY <1>1, <2>1 DEF Custody!Lose
  <2> QED BY <2>2 DEF Custody!Next
<1> QED BY <1>2, <1>3

\* The deaths that leave the registration as it is.
LEMMA CustodyDeath ==
    ASSUME IInv, ForgetRun, UNCHANGED <<app, live, notice, everLive, elapsed, revoked>>
    PROVE  [Custody!Next]_(Custody!custody)
<1> USE DEF IInv, CoreInv
<1>1. pc' = "idle" /\ pc' \notin SwapPCs /\ RegisteredKeys' = RegisteredKeys
  BY RegisteredStays DEF ForgetRun, EndRun, SwapPCs
<1>2. leaked' = leaked \cup LostByDeath
  BY DEF ForgetRun, EndRun
<1>3. CASE pc = "record"
  <2>1. new \in Certs \ everLive /\ leaked' = leaked \cup {new} /\ Serving' = Serving
    BY <1>1, <1>2, <1>3, ServingStays
       DEF LostByDeath, TypeInv, HoldsOwn, NewInv, HasNew, SwapPCs
  <2>2. new \in RegisteredKeys \cup revoked
    BY <1>3, <2>1 DEF Guarded, Proving, HasNew, RegisteredKeys
  <2>3. Custody!Lose(new)
    BY <1>1, <2>1, <2>2 DEF Custody!Lose
  <2> QED BY <2>1, <2>3 DEF Custody!Next
<1>4. CASE pc \in SwapPCs
  <2>1. leaked' = leaked /\ Serving = cur.cert /\ cur.cert # None
    <3>1. cur.cert \in everLive /\ everLive \subseteq Certs
      BY <1>4 DEF RunInv, SwapPCs, TypeInv, TypeOK, WorldTypeOK
    <3> QED BY <1>2, <1>4, <3>1, SlotValues DEF LostByDeath, SwapPCs, Serving
  <2>2. live.key = live.cert => live.cert = None
    <3>1. new # None
      BY <1>4, SlotValues DEF TypeInv, HoldsOwn, HasNew
    <3> QED BY <1>4, <2>1, <3>1 DEF FilesInv, SwapPCs
  <2>3. Serving' = None
    BY <1>1, <2>2 DEF Serving
  <2>4. Custody!Vacate
    BY <1>1, <2>1, <2>3 DEF Custody!Vacate
  <2> QED BY <2>4 DEF Custody!Next
<1>5. CASE pc \notin SwapPCs /\ pc # "record"
  BY <1>1, <1>2, <1>5, CustodyUnchanged DEF LostByDeath
<1> QED BY <1>3, <1>4, <1>5

\* Every step of a run, of a death and of the world is one of KeyCustody's.
LEMMA CustodyNext == IInv /\ IInv' /\ [Next]_vars => [Custody!Next]_(Custody!custody)
<1> SUFFICES ASSUME IInv, IInv', [Next]_vars PROVE [Custody!Next]_(Custody!custody)
  OBVIOUS
<1>typ. /\ pc \in {"cleanup", "retire"} => target \in Certs
        /\ pc \in HasNew => new \in Certs
  BY DEF IInv, CoreInv, TypeInv, TypeOK, RotTypeOK, HoldsOwn, WorldTypeOK, RecordInv,
         HistoryInv
<1>1. CASE \/ Start \/ ResolveAddition \/ ResolveRemoval
           \/ RetireConfirm \/ NotNow \/ Stage \/ RecordAddition \/ Await
           \/ ProveToken \/ ProveSend \/ Schedule \/ RefreshNow
  <2>1. UNCHANGED <<app, live, notice, everLive, elapsed, leaked, revoked>>
        /\ pc \notin SwapPCs /\ pc' \notin SwapPCs
    BY <1>1 DEF Start, ResolveAddition, ResolveRemoval, RetireConfirm,
        NotNow, Stage, RecordAddition, Await, ProveToken, ProveSend,
        Schedule, RefreshNow, worldVars, Goto, Exit, EndRun, SwapPCs
  <2> QED BY <2>1, CustodyUnchanged
<1>12. CASE CleanupConfirm
  <2>1. target \in Certs \ everLive
    BY <1>12 DEF CleanupConfirm, IInv, CoreInv, TypeInv, HoldsOwn, RecordInv, RunInv,
        BeforeSwap, PCs, SwapPCs, RemovePCs
  <2>2. /\ pc \notin SwapPCs /\ pc' \notin SwapPCs
        /\ leaked' \in {leaked, leaked \cup LostByDropping(target)}
        /\ UNCHANGED <<app, live, notice, everLive, elapsed, revoked>>
    BY <1>12 DEF CleanupConfirm, Exit, EndRun, SwapPCs
  <2> QED BY <2>1, <2>2, CustodyDropping
<1>13. CASE AbandonConfirm
  <2>1. new \in Certs \ everLive
    BY <1>13 DEF AbandonConfirm, IInv, CoreInv, TypeInv, HoldsOwn, NewInv, HasNew
  <2>2. /\ pc \notin SwapPCs /\ pc' \notin SwapPCs
        /\ leaked' \in {leaked, leaked \cup LostByDropping(new)}
        /\ UNCHANGED <<app, live, notice, everLive, elapsed, revoked>>
    BY <1>13 DEF AbandonConfirm, EndRun, SwapPCs
  <2> QED BY <2>1, <2>2, CustodyDropping
<1>2. CASE CleanupPost \/ RetirePost
  <2>1. /\ pc \in {"cleanup", "retire"} /\ pc' \notin SwapPCs
        /\ UNCHANGED <<live, notice, everLive, elapsed, leaked, revoked>>
        /\ Removing(target) \/ UNCHANGED app
    BY <1>2 DEF CleanupPost, RetirePost, Goto, Exit, EndRun, SwapPCs
  <2>2. CASE Removing(target)
    BY <1>typ, <2>1, <2>2, CustodyRemoving
  <2>3. CASE UNCHANGED app
    BY <2>1, <2>3, CustodyUnchanged DEF SwapPCs
  <2> QED BY <2>1, <2>2, <2>3
<1>3. CASE AbandonPost
  <2>1. /\ pc = "abandon" /\ pc' \notin SwapPCs
        /\ UNCHANGED <<live, notice, everLive, elapsed, leaked, revoked>>
        /\ Removing(new) \/ UNCHANGED app
    BY <1>3 DEF AbandonPost, Goto, Exit, EndRun, SwapPCs
  <2>2. CASE Removing(new)
    BY <1>typ, <2>1, <2>2, CustodyRemoving DEF HasNew
  <2>3. CASE UNCHANGED app
    BY <2>1, <2>3, CustodyUnchanged DEF SwapPCs
  <2> QED BY <2>1, <2>2, <2>3
<1>4. CASE AddKey
  <2>1. /\ pc = "addKey" /\ pc' \notin SwapPCs
        /\ UNCHANGED <<live, notice, everLive, elapsed, leaked, revoked>>
        /\ app' = [app EXCEPT ![new] = "adding"] \/ UNCHANGED app
    BY <1>4 DEF AddKey, Goto, Exit, EndRun, SwapPCs
  <2>2. CASE app' = [app EXCEPT ![new] = "adding"]
    BY <2>1, <2>2, CustodyAdding
  <2>3. CASE UNCHANGED app
    BY <2>1, <2>3, CustodyUnchanged DEF SwapPCs
  <2> QED BY <2>1, <2>2, <2>3
<1>5. CASE SwapKey \/ SwapCert \/ PutKey
  <2>1. UNCHANGED <<app, notice, everLive, elapsed, leaked, revoked>>
    BY <1>5 DEF SwapKey, SwapCert, PutKey, Goto
  <2>2. Serving = cur.cert /\ Serving' = cur.cert
    <3>1. pc \in BeforeSwap \/ pc \in SwapPCs
      BY <1>5 DEF SwapKey, SwapCert, PutKey, BeforeSwap, PCs, SwapPCs
    <3>2. cur' = cur /\ pc' \in SwapPCs
      BY <1>5 DEF SwapKey, SwapCert, PutKey, Goto, SwapPCs
    <3> QED BY <3>1, <3>2, ServingLive DEF Serving
  <2> QED BY <2>1, <2>2, RegisteredStays DEF Custody!custody
<1>6. CASE PutCert
  <2>1. /\ pc = "putCert" /\ pc' = "schedule" /\ everLive' = everLive \cup {staged.cert}
        /\ UNCHANGED <<app, notice, elapsed, leaked, revoked>>
        /\ live' = [live EXCEPT !.cert = staged.cert]
    BY <1>6 DEF PutCert, Goto
  <2>2. new \in Certs \ everLive /\ staged.cert = new /\ live.key = new
    BY <2>1 DEF IInv, CoreInv, TypeInv, HoldsOwn, HasNew, SwapPCs, FilesInv, NewInv
  <2>3. live'.cert = new /\ live'.key = new
    <3>1. live \in Pair /\ new \in Slot
      BY <2>2, SlotValues DEF IInv, CoreInv, TypeInv, TypeOK, WorldTypeOK
    <3> QED BY <2>1, <2>2, <3>1, PairUpdates
  <2>4. Serving' = new
    BY <2>1, <2>3 DEF Serving, SwapPCs
  <2>5. new \in RegisteredKeys \cup revoked
    BY <2>1, <2>2 DEF IInv, Guarded, Proving, HasNew, SwapPCs, RegisteredKeys
  <2>6. Custody!Adopt(new)
    BY <2>1, <2>2, <2>4, <2>5, RegisteredStays DEF Custody!Adopt
  <2> QED BY <2>2, <2>6 DEF Custody!Next
<1>7. CASE Die \/ Crash
  BY <1>7, CustodyDeath DEF Die, Crash
<1>8. CASE RemoveReplyLost
  <2>1. /\ pc \in {"cleanup", "retire"} /\ pc' \notin SwapPCs /\ Removing(target)
        /\ UNCHANGED <<live, notice, everLive, elapsed, revoked>>
        /\ leaked' = leaked \cup LostByDeath
    BY <1>8 DEF RemoveReplyLost, ForgetRun, EndRun, SwapPCs
  <2>2. leaked' = leaked
    BY <2>1 DEF LostByDeath
  <2> QED BY <1>typ, <2>1, <2>2, CustodyRemoving
<1>9. CASE AddReplyLost
  BY <1>9, CustodyAdding DEF AddReplyLost, EndRun, SwapPCs
<1>10. CASE Environment
  <2> USE <1>10 DEF IInv, CoreInv, rotVars
  <2>1. ASSUME NEW k \in Certs \cup Foreign, Replicate(k) PROVE UNCHANGED Custody!custody
    <3>1. UNCHANGED <<live, notice, pc, cur, everLive, elapsed, leaked, revoked>>
      BY <2>1 DEF Environment, Replicate
    <3> QED BY <2>1, <3>1, ReplicateSettles DEF TypeInv, TypeOK, Serving, Custody!custody
  <2>2. ASSUME NEW c \in Certs, Ages(c) PROVE UNCHANGED Custody!custody
    BY <2>2, RegisteredStays DEF Environment, Ages, Serving, Custody!custody
  <2>3. ASSUME NEW k \in Certs \cup Foreign, GraceElapses(k) PROVE Custody!Next
    <3>1. k \in everLive /\ k # live.cert /\ Complete(live)
      BY <2>3 DEF GraceElapses, RecordInv
    <3>2. k \in Certs /\ k # Serving
      BY <3>1, ServingLive DEF TypeInv, TypeOK, WorldTypeOK
    <3>3. elapsed' = elapsed \cup {k}
          /\ UNCHANGED <<live, notice, pc, cur, app, everLive, leaked, revoked>>
      BY <2>3 DEF Environment, GraceElapses
    <3>4. Custody!GraceEnds(k)
      BY <3>1, <3>2, <3>3, RegisteredStays DEF Custody!GraceEnds, Serving
    <3> QED BY <3>2, <3>4 DEF Custody!Next
  <2>4. ASSUME NEW c \in Certs, AdminDeletes(c) PROVE Custody!Next
    <3>1. /\ app' = [app EXCEPT ![c] = "removing"] /\ revoked' = revoked \cup {c}
          /\ UNCHANGED <<live, notice, pc, cur, everLive, elapsed, leaked>>
      BY <2>4 DEF Environment, AdminDeletes
    <3>2. app \in [Certs \cup Foreign -> KeyStatus]
      BY DEF TypeInv, TypeOK, WorldTypeOK
    <3>3. RegisteredKeys' = RegisteredKeys \ {c}
      BY ONLY <3>1, <3>2, RegisteredMoves
    <3>4. c \in RegisteredKeys
      BY <2>4 DEF AdminDeletes, RegisteredKeys
    <3>5. Custody!Delete(c)
      BY <3>1, <3>3, <3>4 DEF Custody!Delete, Serving
    <3> QED BY <3>5 DEF Custody!Next
  <2>5. CASE BootGenerates
    <3>1. PICK c \in Certs \ used :
            live' = PairOf(c) /\ notice' = c /\ everLive' = everLive \cup {c}
      BY <2>5 DEF BootGenerates
    <3>2. pc = "idle" /\ pc' = "idle" /\ ~Complete(live)
          /\ UNCHANGED <<app, elapsed, leaked, revoked>>
      BY <2>5 DEF BootGenerates, Environment, RunInv
    <3>3. Serving = None /\ Serving' = c
      BY <3>1, <3>2, SlotValues, PairValues DEF Serving, SwapPCs, Complete
    <3>4. c \notin RegisteredKeys /\ c \notin everLive
      BY <3>1 DEF HistoryInv, RegisteredKeys, Registered
    <3>5. Custody!Fill(c)
      BY <3>1, <3>2, <3>3, <3>4, RegisteredStays DEF Custody!Fill
    <3> QED BY <3>5 DEF Custody!Next
  <2>6. CASE BootMints
    <3>1. UNCHANGED <<app, live, pc, cur, everLive, elapsed, leaked, revoked>>
      BY <2>6 DEF Environment, BootMints
    <3>2. pc = "idle" /\ live.cert \in Certs /\ Serving = live.cert
      BY <2>6, SlotValues, PairValues
         DEF Environment, BootMints, MayStart, Complete, RunInv, Serving, SwapPCs,
             TypeInv, TypeOK, WorldTypeOK
    <3>3. RegisteredKeys' = RegisteredKeys /\ Serving' = Serving
      BY <3>1, RegisteredStays DEF Serving
    <3>4. CASE notice' = None
      <4>1. Custody!Withdraw
        BY <3>1, <3>3, <3>4 DEF Custody!Withdraw
      <4> QED BY <4>1 DEF Custody!Next
    <3>5. CASE notice' = live.cert
      <4>1. Custody!Ask(live.cert)
        BY <3>1, <3>2, <3>3, <3>5 DEF Custody!Ask
      <4> QED BY <3>2, <4>1 DEF Custody!Next
    <3>6. CASE notice' = notice
      BY <3>1, <3>3, <3>6 DEF Custody!custody
    <3> QED BY <2>6, <3>4, <3>5, <3>6 DEF BootMints
  <2> QED BY <2>1, <2>2, <2>3, <2>4, <2>5, <2>6 DEF Environment, Boot
<1>11. CASE UNCHANGED vars
  BY <1>11, RegisteredStays DEF vars, worldVars, rotVars, Serving, Custody!custody
<1> QED BY <1>1, <1>2, <1>3, <1>4, <1>5, <1>6, <1>7, <1>8, <1>9, <1>10, <1>11,
       <1>12, <1>13
    DEF Next, RotationStep, Failure

\* Rotations, whatever ends them, keep the custody of the keys.
THEOREM CustodyKept == Spec => KeepsCustody
<1>1. Spec => Custody!Spec
  BY CustodyInit, CustodyNext, Invariant, PTL DEF Spec, Custody!Spec
<1> QED BY <1>1 DEF KeepsCustody
=============================================================================
