------------------------------ MODULE Rotation ------------------------------
(***************************************************************************)
(* rotate-smtp-relay-cert.py as the rotation loop runs it once a day (and  *)
(* relay-admin rotate --force by hand): housekeeping of the keys earlier   *)
(* runs left behind, then stage, addKey, record, await replication, prove  *)
(* token, prove send, swap, schedule the old key's retirement, re-mint.    *)
(*                                                                         *)
(* One run is a process with its own memory (cur, mem, new); each step up  *)
(* to the next network call or file replacement is one action.  A run may  *)
(* die at any step: killed, or by an exception nobody catches (a Graph     *)
(* call that times out).  With automatic recovery and reset left out this  *)
(* module alone is the relay with MAIL_CERT_RECOVERY_ENABLED=no.           *)
(***************************************************************************)
EXTENDS CertWorld

CONSTANTS
    ForceAllowed,   \* BOOLEAN: an operator may run rotate --force
    Deaths,         \* how many runs may die (a bound; 0 for none)
    Portal          \* BOOLEAN: an administrator may delete keys at Entra

ASSUME SwitchesAreBoolean == ForceAllowed \in BOOLEAN /\ Portal \in BOOLEAN
ASSUME DeathsIsNatural == Deaths \in Nat

VARIABLES
    pc,         \* where the run stands
    cur,        \* the pair it loaded at the start
    mem,        \* its copy of the state file
    new,        \* the certificate it staged
    forced,     \* --force
    target,     \* the key remove_key is removing
    leaked,     \* history: added keys that no record names, because their run
                \* died before it wrote one, or because they were taken for
                \* gone while the directory had yet to show them
    deaths      \* runs that died so far

rotVars == <<pc, cur, mem, new, forced, target, leaked, deaths>>
vars == <<worldVars, rotVars>>

SwapPCs == {"swapCert", "putKey", "putCert"}        \* between the renames
RemovePCs == {"cleanup", "cleanupConfirm", "retire", "retireConfirm",
              "abandon", "abandonConfirm"}
PCs == {"idle", "housekeep", "pending", "check", "addKey", "record", "await",
        "proveToken", "proveSend", "swapKey", "schedule", "refresh"}
       \cup SwapPCs \cup RemovePCs

RotTypeOK ==
    /\ pc \in PCs
    /\ cur \in Pair /\ mem \in StateRecord /\ new \in Slot /\ target \in Slot
    /\ forced \in BOOLEAN /\ leaked \subseteq Certs /\ deaths \in Nat

TypeOK == WorldTypeOK /\ RotTypeOK

RotInit ==
    /\ pc = "idle"
    /\ cur = NoPair /\ mem = NoState /\ new = None /\ target = None
    /\ forced = FALSE /\ leaked = {} /\ deaths = 0

Init == WorldInit /\ RotInit

\* The end of a run, however it comes, is the end of its memory.
EndRun ==
    /\ pc' = "idle"
    /\ cur' = NoPair /\ mem' = NoState /\ new' = None /\ target' = None
    /\ forced' = FALSE

Exit == EndRun /\ UNCHANGED <<leaked, deaths>>

Goto(step) ==
    /\ pc' = step
    /\ UNCHANGED <<cur, mem, new, forced, target, leaked, deaths>>

\* write_state: the whole record goes to the file by an atomic rename.
WriteState(s) ==
    /\ mem' = s
    /\ stateFile' = s

-----------------------------------------------------------------------------
\* Housekeeping.

Start ==
    /\ pc = "idle" /\ up /\ Complete(live)
    /\ cur' = live
    /\ mem' = stateFile
    /\ forced' \in {FALSE, ForceAllowed}
    /\ pc' = "housekeep"
    /\ UNCHANGED <<new, target, leaked, deaths>>
    /\ UNCHANGED worldVars

\* Mutant: the recorded addition is not compared with the live certificate.
ResolveAdditionUnchecked ==
    /\ pc = "housekeep"
    /\ \/ /\ mem.add = None
          /\ Goto("pending")
       \/ /\ mem.add # None
          /\ target' = mem.add
          /\ pc' = "cleanup"
          /\ UNCHANGED <<cur, mem, new, forced, leaked, deaths>>
    /\ UNCHANGED worldVars

\* A recorded addition that is the live certificate was adopted; any other is
\* an abandoned key that goes before anything is added.
ResolveAddition ==
    /\ pc = "housekeep"
    /\ \/ /\ mem.add = None
          /\ Goto("pending")
          /\ UNCHANGED stateFile
       \/ /\ mem.add # None /\ mem.add = cur.cert
          /\ WriteState([mem EXCEPT !.add = None])
          /\ pc' = "pending"
          /\ UNCHANGED <<cur, new, forced, target, leaked, deaths>>
       \/ /\ mem.add # None /\ mem.add # cur.cert
          /\ target' = mem.add
          /\ pc' = "cleanup"
          /\ UNCHANGED <<cur, mem, new, forced, leaked, deaths, stateFile>>
    /\ UNCHANGED <<live, previous, staged, standby, token, notice, app, age,
                   used, up, everLive, elapsed, revoked, torn>>

\* Mutant: the grace days are not checked.
ResolveRemovalAtOnce ==
    /\ pc = "pending"
    /\ IF mem.rem # None
         THEN /\ target' = mem.rem
              /\ pc' = "retire"
              /\ UNCHANGED <<cur, mem, new, forced, leaked, deaths>>
         ELSE Goto("check")
    /\ UNCHANGED worldVars

\* A replaced key whose grace is over is removed; one still within it waits.
ResolveRemoval ==
    /\ pc = "pending"
    /\ IF mem.rem # None /\ mem.rem \in elapsed
         THEN /\ target' = mem.rem
              /\ pc' = "retire"
              /\ UNCHANGED <<cur, mem, new, forced, leaked, deaths>>
         ELSE Goto("check")
    /\ UNCHANGED worldVars

\* Mutant: a cleanup that fails does not end the run.
CleanupPostGoesOn ==
    /\ pc = "cleanup"
    /\ \/ /\ Accepted(cur)
          /\ Removing(target)
          /\ Goto("cleanupConfirm")
       \/ /\ Goto("pending")
          /\ UNCHANGED app
    /\ UNCHANGED <<live, previous, staged, standby, stateFile, token, notice,
                   age, used, up, everLive, elapsed, revoked, torn>>

\* remove_key, first half: POST removeKey, signed with the pair loaded at the
\* start.  No token, or an error reply: nothing happened.
CleanupPost ==
    /\ pc = "cleanup"
    /\ \/ /\ Accepted(cur)
          /\ Removing(target)
          /\ Goto("cleanupConfirm")
       \/ /\ Exit
          /\ UNCHANGED app
    /\ UNCHANGED <<live, previous, staged, standby, stateFile, token, notice,
                   age, used, up, everLive, elapsed, revoked, torn>>

\* A retirement that fails stays recorded, and the run goes on.
\* Mutant: a retirement that was refused is taken off the record.
RetirePostForgets ==
    /\ pc = "retire"
    /\ \/ /\ Accepted(cur)
          /\ Removing(target)
          /\ Goto("retireConfirm")
          /\ UNCHANGED stateFile
       \/ /\ pc' = "check"
          /\ WriteState([mem EXCEPT !.rem = None])
          /\ UNCHANGED <<cur, new, forced, target, leaked, deaths, app>>
    /\ UNCHANGED <<live, previous, staged, standby, token, notice,
                   age, used, up, everLive, elapsed, revoked, torn>>

RetirePost ==
    /\ pc = "retire"
    /\ \/ /\ Accepted(cur)
          /\ Removing(target)
          /\ Goto("retireConfirm")
       \/ /\ Goto("check")
          /\ UNCHANGED app
    /\ UNCHANGED <<live, previous, staged, standby, stateFile, token, notice,
                   age, used, up, everLive, elapsed, revoked, torn>>

\* An abandon drops the staging files whatever became of the key.
AbandonPost ==
    /\ pc = "abandon"
    /\ \/ /\ Accepted(cur)
          /\ Removing(new)
          /\ Goto("abandonConfirm")
          /\ UNCHANGED staged
       \/ /\ Exit
          /\ staged' = NoPair
          /\ UNCHANGED app
    /\ UNCHANGED <<live, previous, standby, stateFile, token, notice,
                   age, used, up, everLive, elapsed, revoked, torn>>

\* What is lost with the record of key k: a removal without effect and a read
\* that misses the key are no sign that a key still being added will not come.
LostByDropping(k) == IF app[k] = "adding" THEN {k} ELSE {}

\* Mutant: the record is dropped in memory and not saved.
CleanupConfirmUnsaved ==
    /\ pc = "cleanupConfirm"
    /\ \/ /\ MayBeMissed(target)
          /\ mem' = [mem EXCEPT !.add = None]
          /\ leaked' = leaked \cup LostByDropping(target)
          /\ pc' = "pending"
          /\ UNCHANGED <<cur, new, forced, target, deaths>>
       \/ Exit
    /\ UNCHANGED worldVars

\* remove_key, second half: the absence of the key in a read is the answer; the
\* record is dropped only then.
CleanupConfirm ==
    /\ pc = "cleanupConfirm"
    /\ \/ /\ MayBeMissed(target)
          /\ WriteState([mem EXCEPT !.add = None])
          /\ leaked' = leaked \cup LostByDropping(target)
          /\ pc' = "pending"
          /\ UNCHANGED <<cur, new, forced, target, deaths>>
       \/ /\ Exit
          /\ UNCHANGED stateFile
    /\ UNCHANGED <<live, previous, staged, standby, token, notice, app, age,
                   used, up, everLive, elapsed, revoked, torn>>

RetireConfirm ==
    /\ pc = "retireConfirm"
    /\ pc' = "check"
    /\ \/ /\ MayBeMissed(target)
          /\ WriteState([mem EXCEPT !.rem = None])
       \/ UNCHANGED <<mem, stateFile>>
    /\ UNCHANGED <<cur, new, forced, target, leaked, deaths>>
    /\ UNCHANGED <<live, previous, staged, standby, token, notice, app, age,
                   used, up, everLive, elapsed, revoked, torn>>

AbandonConfirm ==
    /\ pc = "abandonConfirm"
    /\ \/ /\ MayBeMissed(new)
          /\ stateFile' = [mem EXCEPT !.add = None]
          /\ leaked' = leaked \cup LostByDropping(new)
       \/ UNCHANGED <<stateFile, leaked>>
    /\ EndRun /\ UNCHANGED deaths
    /\ staged' = NoPair
    /\ UNCHANGED <<live, previous, standby, token, notice, app, age,
                   used, up, everLive, elapsed, revoked, torn>>

-----------------------------------------------------------------------------
\* The rotation itself.

\* Not due, or already expired (addKey needs a valid certificate to sign its
\* proof), or the model has no certificate left to generate.
NotNow ==
    /\ pc = "check"
    /\ \/ age[cur.cert] = "fresh" /\ ~forced
       \/ age[cur.cert] = "expired"
       \/ used = Certs
    /\ Exit
    /\ UNCHANGED worldVars

Stage ==
    /\ pc = "check"
    /\ age[cur.cert] = "due" \/ (forced /\ age[cur.cert] # "expired")
    /\ \E c \in Certs \ used :
        /\ new' = c
        /\ staged' = PairOf(c)
        /\ used' = used \cup {c}
    /\ pc' = "addKey"
    /\ UNCHANGED <<cur, mem, forced, target, leaked, deaths>>
    /\ UNCHANGED <<live, previous, standby, stateFile, token, notice, app, age,
                   up, everLive, elapsed, revoked, torn>>

\* An error reply drops the staging files; a Graph token that is refused ends
\* the run with an exception, and they stay.
AddKey ==
    /\ pc = "addKey"
    /\ \/ /\ Accepted(cur)
          /\ app' = [app EXCEPT ![new] = "adding"]
          /\ Goto("record")
          /\ UNCHANGED staged
       \/ /\ Exit
          /\ staged' \in {staged, NoPair}
          /\ UNCHANGED app
    /\ UNCHANGED <<live, previous, standby, stateFile, token, notice,
                   age, used, up, everLive, elapsed, revoked, torn>>

\* Mutant: the addition is noted in memory and not saved.
RecordAdditionUnsaved ==
    /\ pc = "record"
    /\ mem' = [mem EXCEPT !.add = new]
    /\ pc' = "await"
    /\ UNCHANGED <<cur, new, forced, target, leaked, deaths>>
    /\ UNCHANGED worldVars

RecordAddition ==
    /\ pc = "record"
    /\ WriteState([mem EXCEPT !.add = new])
    /\ pc' = "await"
    /\ UNCHANGED <<cur, new, forced, target, leaked, deaths>>
    /\ UNCHANGED <<live, previous, staged, standby, token, notice, app, age,
                   used, up, everLive, elapsed, revoked, torn>>

\* Each of the three proofs is retried for minutes and then given up.
Await ==
    /\ pc = "await"
    /\ \/ MayBeSeen(new) /\ Goto("proveToken")
       \/ Goto("abandon")
    /\ UNCHANGED worldVars

ProveToken ==
    /\ pc = "proveToken"
    /\ \/ Accepted(PairOf(new)) /\ Goto("proveSend")
       \/ Goto("abandon")
    /\ UNCHANGED worldVars

ProveSend ==
    /\ pc = "proveSend"
    /\ Goto("swapKey") \/ Goto("abandon")
    /\ UNCHANGED worldVars

\* The swap: four renames.
SwapKey ==
    /\ pc = "swapKey"
    /\ previous' = [previous EXCEPT !.key = live.key]
    /\ live' = [live EXCEPT !.key = None]
    /\ Goto("swapCert")
    /\ UNCHANGED <<staged, standby, stateFile, token, notice, app, age, used,
                   up, everLive, elapsed, revoked, torn>>

SwapCert ==
    /\ pc = "swapCert"
    /\ previous' = [previous EXCEPT !.cert = live.cert]
    /\ live' = [live EXCEPT !.cert = None]
    /\ Goto("putKey")
    /\ UNCHANGED <<staged, standby, stateFile, token, notice, app, age, used,
                   up, everLive, elapsed, revoked, torn>>

PutKey ==
    /\ pc = "putKey"
    /\ live' = [live EXCEPT !.key = staged.key]
    /\ staged' = [staged EXCEPT !.key = None]
    /\ Goto("putCert")
    /\ UNCHANGED <<previous, standby, stateFile, token, notice, app, age, used,
                   up, everLive, elapsed, revoked, torn>>

PutCert ==
    /\ pc = "putCert"
    /\ live' = [live EXCEPT !.cert = staged.cert]
    /\ staged' = [staged EXCEPT !.cert = None]
    /\ everLive' = everLive \cup {staged.cert}
    /\ Goto("schedule")
    /\ UNCHANGED <<previous, standby, stateFile, token, notice, app, age, used,
                   up, elapsed, revoked, torn>>

\* Mutant: whatever is not the new credential is the replaced one.
IsReplacedByPosition(k) == k # new

\* A credential on the registration is the replaced one by its thumbprint,
\* never by its position in the list.
IsReplaced(k) == k # new /\ k = cur.cert

\* The read may fail or miss the old key: then nothing is scheduled.
Schedule ==
    /\ pc = "schedule"
    /\ LET adopted == [mem EXCEPT !.add = None] IN
        \/ \E k \in Certs \cup Foreign :
            /\ MayBeSeen(k) /\ IsReplaced(k)
            /\ WriteState([adopted EXCEPT !.rem = k])
        \/ WriteState(adopted)
    /\ pc' = "refresh"
    /\ UNCHANGED <<cur, new, forced, target, leaked, deaths>>
    /\ UNCHANGED <<live, previous, staged, standby, token, notice, app, age,
                   used, up, everLive, elapsed, revoked, torn>>

\* refresh-smtp-token.py with no --min-remaining: mint with the pair on disk.
RefreshNow ==
    /\ pc = "refresh"
    /\ \/ /\ Accepted(live)
          /\ token' = [by |-> live.cert, life |-> "full"]
       \/ UNCHANGED token
    /\ Exit
    /\ UNCHANGED <<live, previous, staged, standby, stateFile, notice, app,
                   age, used, up, everLive, elapsed, revoked, torn>>

-----------------------------------------------------------------------------
\* Deaths.

\* What the death of a run at this step leaves for nobody to find.
LostByDeath == IF pc = "record" THEN {new} ELSE {}

ForgetRun ==
    /\ deaths < Deaths
    /\ deaths' = deaths + 1
    /\ leaked' = leaked \cup LostByDeath
    /\ torn' = (torn \/ pc \in SwapPCs)
    /\ EndRun

\* The run is killed, or an exception ends it; the loop will start another.
Die ==
    /\ pc # "idle"
    /\ ForgetRun
    /\ UNCHANGED <<live, previous, staged, standby, stateFile, token, notice,
                   app, age, used, up, everLive, elapsed, revoked>>

\* A removeKey or addKey whose effect is real and whose reply is lost: the
\* exception ends the run.  (In an abandon: AbandonPost, then Die.)
RemoveReplyLost ==
    /\ pc \in {"cleanup", "retire"} /\ Accepted(cur)
    /\ Removing(target)
    /\ ForgetRun
    /\ UNCHANGED <<live, previous, staged, standby, stateFile, token, notice,
                   age, used, up, everLive, elapsed, revoked>>

AddReplyLost ==
    /\ pc = "addKey" /\ Accepted(cur)
    /\ app' = [app EXCEPT ![new] = "adding"]
    /\ deaths < Deaths
    /\ deaths' = deaths + 1
    /\ leaked' = leaked \cup {new}
    /\ EndRun
    /\ UNCHANGED <<live, previous, staged, standby, stateFile, token, notice,
                   age, used, up, everLive, elapsed, revoked, torn>>

\* The container stops, with whatever runs in it.
Crash ==
    /\ up
    /\ up' = FALSE
    /\ LosesToken
    /\ ForgetRun
    /\ UNCHANGED <<live, previous, staged, standby, stateFile, notice, app,
                   age, used, everLive, elapsed, revoked>>

-----------------------------------------------------------------------------
RotationStep ==
    \/ Start \/ ResolveAddition \/ ResolveRemoval
    \/ CleanupPost \/ CleanupConfirm \/ RetirePost \/ RetireConfirm
    \/ NotNow \/ Stage \/ AddKey \/ RecordAddition
    \/ Await \/ ProveToken \/ ProveSend
    \/ AbandonPost \/ AbandonConfirm
    \/ SwapKey \/ SwapCert \/ PutKey \/ PutCert \/ Schedule \/ RefreshNow

Failure == Die \/ RemoveReplyLost \/ AddReplyLost \/ Crash

Environment ==
    /\ \/ \E k \in Certs \cup Foreign : Replicate(k) \/ GraceElapses(k)
       \/ \E c \in Certs : Ages(c)
       \/ Portal /\ \E c \in Certs : AdminDeletes(c)
       \/ Boot
    /\ UNCHANGED rotVars

Next == RotationStep \/ Failure \/ Environment

Spec == Init /\ [][Next]_vars

\* The loop keeps running the script, a stopped container is started again, the
\* directory converges, and a removal that is retried for ever is accepted and
\* confirmed in the end.  Nothing is assumed of the operator or the clock.
Fairness ==
    /\ WF_vars(RotationStep)
    /\ WF_vars(Boot /\ UNCHANGED rotVars)
    /\ \A k \in Certs : WF_vars(Replicate(k) /\ UNCHANGED rotVars)
    /\ SF_vars(CleanupPost /\ pc' = "cleanupConfirm")
    /\ SF_vars(CleanupConfirm /\ pc' = "pending")

FairSpec == Spec /\ Fairness

-----------------------------------------------------------------------------
\* Properties.

\* The relay never leaves itself with a credential it removed: outside the
\* renames, the certificate on disk is on the app registration, unless an
\* administrator deleted it there or a swap was torn (main, steps 3 to 7).
LiveRegistered ==
    (~torn /\ pc \notin SwapPCs /\ live.cert \notin revoked) => Registered(live.cert)

\* A key added for a rotation that never reached the swap is on record for its
\* exact-ID cleanup (pending_addition).  Two ways out there are, both in leaked:
\* a death between addKey and the record, and a removal that found nothing yet
\* and was confirmed by a read that did not show the key yet.  Whatever fails or
\* goes stale besides, the record of a key the directory has shown stays.
AddedKeyTracked ==
    \A c \in Certs \ (everLive \cup leaked) :
        Registered(c) => stateFile.add = c \/ (pc = "record" /\ new = c)

\* The way back from a rotation that turns out broken: the pair kept as
\* .previous is whole, and its key stays on the app registration until its
\* grace days are over (housekeeping runs before, never right after, a swap).
WayBack ==
    (~torn /\ pc \notin SwapPCs /\ previous # NoPair) =>
        /\ previous.key = previous.cert
        /\ Registered(previous.cert) \/ previous.cert \in elapsed \cup revoked

\* Whatever is on a shared app registration, another instance's key is never
\* touched by an automatic removal (the match by thumbprint in step 7).
ForeignUntouched == [][\A k \in Foreign : app'[k] = app[k]]_vars

\* One credential at a time: while an added key is unresolved no other key of
\* this instance is added (the early return of the housekeeping); one that no
\* record names any more (leaked) cannot hold up the next.
OneAdditionAtATime ==
    [][\A c \in Certs : (app[c] = "absent" /\ app'[c] = "adding") =>
        \A d \in Certs \ (everLive \cup leaked) : ~Registered(d)]_vars

\* Cleanup of an abandoned key is retried by every later run until the key goes,
\* or turns out to be live or to be one that was taken for gone too early, for
\* as long as the live certificate can still sign (the retry queue of one).
AdditionResolved ==
    \A c \in Certs :
        (stateFile.add = c) ~>
            \/ stateFile.add # c /\ (~Registered(c) \/ c \in everLive \cup leaked)
            \/ torn
            \/ live.cert \in Certs /\ (age[live.cert] = "expired" \/ ~Registered(live.cert))

\* CONFIGURATION.md:267 "retires the old key on the next run": a retirement
\* once scheduled stays on record until the key is going, however its removal
\* fails. The one record there is (1348) is taken over by a later rotation's,
\* and a key the directory has yet to show everywhere (no grace days) can be
\* taken for gone.
RetirementKept ==
    [][\A c \in Certs : (stateFile.rem = c /\ stateFile'.rem # c) =>
            \/ ~Registered(c)
            \/ pc = "schedule"
            \/ pc = "retireConfirm" /\ app[c] = "adding"]_vars

-----------------------------------------------------------------------------
\* What Rotation implements.

\* The certificate in service.  During the renames it is the one being
\* replaced: no other program reads the pair then.
Serving ==
    IF pc \in SwapPCs THEN cur.cert
    ELSE IF live.key = live.cert THEN live.cert ELSE None

Custody == INSTANCE KeyCustody WITH
    registered <- RegisteredKeys, serving <- Serving, asked <- notice,
    past <- everLive, over <- elapsed, lost <- leaked, deleted <- revoked

\* Rotations, however they end, change the registration and the certificate in
\* service only as KeyCustody says: one new key at a time, none given up that
\* serves or whose grace runs, no takeover by a certificate Entra has not got.
KeepsCustody == Custody!Spec
=============================================================================
