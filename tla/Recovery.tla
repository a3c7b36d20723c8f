------------------------------ MODULE Recovery ------------------------------
(***************************************************************************)
(* run_token_loop of relay-supervisor.sh and the two branches of           *)
(* rotate-smtp-relay-cert.py it calls, --reset and --recover.  One pass:   *)
(* honour the operator's reset sentinel, refresh the token, clear the      *)
(* upload notice when that succeeded, then the recovery check: is the live *)
(* certificate still good; if not, for long enough, stage a standby and    *)
(* ask the operator to upload it; once it is proven, adopt it.             *)
(*                                                                         *)
(* Every external program of a pass runs to its end before the next one    *)
(* starts, so the loop is one process with one memory.  It may die at any  *)
(* step with the container, or alone; the supervisor then starts it anew.  *)
(***************************************************************************)
EXTENDS CertWorld

CONSTANTS
    Resets,         \* how often the operator drops the reset sentinel (a bound)
    LoopDeaths,     \* how many passes may be cut short (a bound)
    Deletions       \* how many keys an administrator may delete (a bound)

ASSUME BoundsAreNatural == Resets \in Nat /\ LoopDeaths \in Nat /\ Deletions \in Nat

VARIABLES
    tpc,        \* where the pass stands
    tcur,       \* the live pair as run_recovery loaded it
    tmem,       \* its copy of the state file
    tnew,       \* the certificate a reset or a recovery has just generated
    resets,     \* sentinels consumed so far
    sound,      \* history: passes since the live certificate was last seen to
                \* work or last replaced, up to NeedWait
    cut,        \* history: a pass died between its files and its notice
    loopDeaths, \* passes cut short so far
    deletions   \* keys deleted so far

loopVars == <<tpc, tcur, tmem, tnew, resets, sound, cut, loopDeaths, deletions>>
vars == <<worldVars, loopVars>>

entra == <<app, age, revoked, deletions>>
files == <<live, previous, staged, standby>>

ResetPCs == {"resetCert", "resetPutKey", "resetPutCert", "resetState",
             "resetNotice"}
AdoptPCs == {"adoptCert", "adoptPutKey", "adoptPutCert", "adoptState",
             "adoptClear"}
StagePCs == {"stageState", "stageNotice"}
DiscardPCs == {"discardState", "discardClear"}
LoopPCs == {"top", "refresh", "clear", "recover", "testOld", "stage", "testNew",
            "proveNew", "adopt", "adoptRefresh", "discard", "sleep"}
           \cup ResetPCs \cup AdoptPCs \cup StagePCs \cup DiscardPCs

LoopTypeOK ==
    /\ tpc \in LoopPCs
    /\ tcur \in Pair /\ tmem \in StateRecord /\ tnew \in Slot
    /\ resets \in 0 .. Resets /\ sound \in 0 .. NeedWait
    /\ cut \in BOOLEAN /\ loopDeaths \in 0 .. LoopDeaths
    /\ deletions \in 0 .. Deletions

TypeOK == WorldTypeOK /\ LoopTypeOK

LoopInit ==
    /\ tpc = "top"
    /\ tcur = NoPair /\ tmem = NoState /\ tnew = None
    /\ resets = 0 /\ sound = 0 /\ cut = FALSE /\ loopDeaths = 0 /\ deletions = 0

Init == WorldInit /\ LoopInit

TGoto(step) ==
    /\ tpc' = step
    /\ UNCHANGED <<tcur, tmem, tnew, resets, sound, cut, loopDeaths>>

Save(s) == tmem' = s /\ stateFile' = s

\* What a healthy pass does to the fault streak.  The two pops are joined by
\* "or": the second runs only when the first found nothing.
ClearStreak(s) ==
    IF s.streak # 0 THEN [s EXCEPT !.streak = 0] ELSE [s EXCEPT !.since = NoStamp]

ForgetFault(s) == [s EXCEPT !.rec = None, !.streak = 0, !.since = NoStamp]

-----------------------------------------------------------------------------
\* The reset sentinel, consumed before anything else happens.

\* The outgoing pair is kept, when there is a whole one.
ResetKey ==
    /\ tpc = "top" /\ up /\ resets < Resets
    /\ \E c \in Certs \ used :
        /\ tnew' = c
        /\ used' = used \cup {c}
    /\ resets' = resets + 1
    /\ IF Complete(live)
         THEN /\ previous' = [previous EXCEPT !.key = live.key]
              /\ live' = [live EXCEPT !.key = None]
              /\ tpc' = "resetCert"
         ELSE /\ tpc' = "resetPutKey"
              /\ UNCHANGED <<live, previous>>
    /\ UNCHANGED <<tcur, tmem, sound, cut, loopDeaths, staged, standby,
                   stateFile, token, notice, up, everLive, elapsed, torn, entra>>

ResetCert ==
    /\ tpc = "resetCert"
    /\ previous' = [previous EXCEPT !.cert = live.cert]
    /\ live' = [live EXCEPT !.cert = None]
    /\ TGoto("resetPutKey")
    /\ UNCHANGED <<staged, standby, stateFile, token, notice, used, up,
                   everLive, elapsed, torn, entra>>

ResetPutKey ==
    /\ tpc = "resetPutKey"
    /\ live' = [live EXCEPT !.key = tnew]
    /\ TGoto("resetPutCert")
    /\ UNCHANGED <<previous, staged, standby, stateFile, token, notice, used,
                   up, everLive, elapsed, torn, entra>>

ResetPutCert ==
    /\ tpc = "resetPutCert"
    /\ live' = [live EXCEPT !.cert = tnew]
    /\ everLive' = everLive \cup {tnew}
    /\ sound' = 0
    /\ tpc' = "resetState"
    /\ UNCHANGED <<tcur, tmem, tnew, resets, cut, loopDeaths, previous, staged,
                   standby, stateFile, token, notice, used, up, elapsed, torn,
                   entra>>

\* The bookkeeping of what the old credentials were in goes; the fault streak
\* and the staging files of a standby stay.
ResetState ==
    /\ tpc = "resetState"
    /\ stateFile' = [stateFile EXCEPT !.add = None, !.rem = None, !.rec = None]
    /\ TGoto("resetNotice")
    /\ UNCHANGED <<files, token, notice, used, up, everLive, elapsed, torn, entra>>

ResetNotice ==
    /\ tpc = "resetNotice"
    /\ notice' = tnew
    /\ tnew' = None
    /\ tpc' = "refresh"
    /\ UNCHANGED <<tcur, tmem, resets, sound, cut, loopDeaths, files, stateFile,
                   token, used, up, everLive, elapsed, torn, entra>>

-----------------------------------------------------------------------------
\* refresh-smtp-token.py --min-remaining 1800, and what follows its exit code.

NoSentinel ==
    /\ tpc = "top" /\ up
    /\ TGoto("refresh")
    /\ UNCHANGED <<worldVars, deletions>>

\* A token with enough life left is not minted again, and that is a success.
SkipMint ==
    /\ tpc = "refresh" /\ token.life = "full"
    /\ TGoto("clear")
    /\ UNCHANGED <<worldVars, deletions>>

Mint ==
    /\ tpc = "refresh" /\ token.life # "full"
    /\ Accepted(live)
    /\ token' = [by |-> live.cert, life |-> "full"]
    /\ TGoto("clear")
    /\ UNCHANGED <<files, stateFile, notice, used, up, everLive, elapsed, torn, entra>>

MintFails ==
    /\ tpc = "refresh" /\ token.life # "full"
    /\ TGoto("recover")
    /\ UNCHANGED <<worldVars, deletions>>

ClearNotice ==
    /\ tpc = "clear"
    /\ notice' = None
    /\ TGoto("recover")
    /\ UNCHANGED <<files, stateFile, token, used, up, everLive, elapsed, torn, entra>>

-----------------------------------------------------------------------------
\* run_recovery.

TokenIsFresh == token.life # "dead"

\* Nothing in flight and a fresh token: the live certificate plainly works.
HealthyShortcut ==
    /\ tpc = "recover"
    /\ stateFile.rec = None /\ TokenIsFresh
    /\ stateFile' = ClearStreak(stateFile)
    /\ sound' = IF token.by = live.cert THEN 0 ELSE sound
    /\ tpc' = "sleep"
    /\ UNCHANGED <<tcur, tmem, tnew, resets, cut, loopDeaths, files, token,
                   notice, used, up, everLive, elapsed, torn, entra>>

\* A live pair that is missing a half is the entrypoint's to replace.
LoadLive ==
    /\ tpc = "recover"
    /\ stateFile.rec # None \/ ~TokenIsFresh
    /\ IF Complete(live)
         THEN /\ tcur' = live /\ tmem' = stateFile
              /\ tpc' = "testOld"
         ELSE /\ tpc' = "sleep"
              /\ UNCHANGED <<tcur, tmem>>
    /\ UNCHANGED <<tnew, resets, sound, cut, loopDeaths>>
    /\ UNCHANGED <<worldVars, deletions>>

\* The old certificate is tested first, and wins if it works.
OldWorks ==
    /\ tpc = "testOld" /\ Accepted(tcur)
    /\ sound' = 0
    /\ IF tmem.rec # None
         THEN /\ tpc' = "discard"
              /\ UNCHANGED <<tmem, stateFile>>
         ELSE /\ IF ClearStreak(tmem) # tmem
                   THEN Save(ClearStreak(tmem))
                   ELSE UNCHANGED <<tmem, stateFile>>
              /\ tpc' = "sleep"
    /\ UNCHANGED <<tcur, tnew, resets, cut, loopDeaths, files, token, notice,
                   used, up, everLive, elapsed, torn, entra>>

\* No network, no role, or a refusal nobody recognises: hold.  A certificate
\* that has expired locally is a definitive fault whatever the answer was.
OldFailsUnclearly ==
    /\ tpc = "testOld" /\ age[tcur.cert] # "expired"
    /\ TGoto("sleep")
    /\ UNCHANGED <<worldVars, deletions>>

\* Mutant: a fault counts although a standby is already in flight.
CountFaultAgain ==
    /\ tpc = "testOld" /\ CertFault(tcur)
    /\ LET streak == IF tmem.streak < NeedStreak THEN tmem.streak + 1 ELSE tmem.streak
           since  == IF tmem.since = NoStamp THEN 0 ELSE tmem.since
       IN  /\ Save([tmem EXCEPT !.streak = streak, !.since = since])
           /\ tpc' = IF streak < NeedStreak \/ since < NeedWait THEN "sleep" ELSE "stage"
    /\ UNCHANGED <<tcur, tnew, resets, sound, cut, loopDeaths, files, token,
                   notice, used, up, everLive, elapsed, torn, entra>>

\* A definitive fault with no standby yet counts, until it has lasted.
CountFault ==
    /\ tpc = "testOld" /\ CertFault(tcur) /\ tmem.rec = None
    /\ LET streak == IF tmem.streak < NeedStreak THEN tmem.streak + 1 ELSE tmem.streak
           since  == IF tmem.since = NoStamp THEN 0 ELSE tmem.since
       IN  /\ Save([tmem EXCEPT !.streak = streak, !.since = since])
           /\ tpc' = IF streak < NeedStreak \/ since < NeedWait THEN "sleep" ELSE "stage"
    /\ UNCHANGED <<tcur, tnew, resets, sound, cut, loopDeaths, files, token,
                   notice, used, up, everLive, elapsed, torn, entra>>

\* _generate_standby: the two files, the record (of a state read anew), the
\* request to the operator.
StageStandby ==
    /\ tpc = "stage"
    /\ \E c \in Certs \ used :
        /\ tnew' = c
        /\ standby' = PairOf(c)
        /\ used' = used \cup {c}
    /\ tpc' = "stageState"
    /\ UNCHANGED <<tcur, tmem, resets, sound, cut, loopDeaths, live, previous,
                   staged, stateFile, token, notice, up, everLive, elapsed, torn,
                   entra>>

\* The model has no certificate left to generate.
NothingToStage ==
    /\ tpc = "stage" /\ used = Certs
    /\ TGoto("sleep")
    /\ UNCHANGED <<worldVars, deletions>>

StageState ==
    /\ tpc = "stageState"
    /\ stateFile' = [stateFile EXCEPT !.rec = tnew]
    /\ TGoto("stageNotice")
    /\ UNCHANGED <<files, token, notice, used, up, everLive, elapsed, torn, entra>>

StageNotice ==
    /\ tpc = "stageNotice"
    /\ notice' = tnew
    /\ tnew' = None
    /\ tpc' = "sleep"
    /\ UNCHANGED <<tcur, tmem, resets, sound, cut, loopDeaths, files, stateFile,
                   token, used, up, everLive, elapsed, torn, entra>>

\* A definitive fault with a standby in flight: is the standby trusted yet?
TryStandby ==
    /\ tpc = "testOld" /\ CertFault(tcur) /\ tmem.rec # None
    /\ IF Complete(standby)
         THEN TGoto("testNew") /\ UNCHANGED stateFile
         ELSE /\ Save([tmem EXCEPT !.rec = None])
              /\ tpc' = "sleep"
              /\ UNCHANGED <<tcur, tnew, resets, sound, cut, loopDeaths>>
    /\ UNCHANGED <<files, token, notice, used, up, everLive, elapsed, torn, entra>>

\* "remind" prints the banner of a notice that is up; it raises none.
StandbyRefused ==
    /\ tpc \in {"testNew", "proveNew"}
    /\ TGoto("sleep")
    /\ UNCHANGED <<worldVars, deletions>>

\* Mutant: a standby that loads is taken for one that is trusted.
StandbyTrustedUnproven ==
    /\ tpc = "testNew"
    /\ TGoto("proveNew")
    /\ UNCHANGED <<worldVars, deletions>>

\* Mutant: the proof is signed with the live pair.
StandbyTrustedByOld ==
    /\ tpc = "testNew" /\ Accepted(tcur)
    /\ TGoto("proveNew")
    /\ UNCHANGED <<worldVars, deletions>>

StandbyTrusted ==
    /\ tpc = "testNew" /\ Accepted(standby)
    /\ TGoto("proveNew")
    /\ UNCHANGED <<worldVars, deletions>>

\* The proof message went out, or there is no recipient to send one to.
StandbySends ==
    /\ tpc = "proveNew"
    /\ TGoto("adopt")
    /\ UNCHANGED <<worldVars, deletions>>

-----------------------------------------------------------------------------
\* _adopt_standby: the four renames, the state, the notice, a new token.

AdoptKey ==
    /\ tpc = "adopt"
    /\ previous' = [previous EXCEPT !.key = live.key]
    /\ live' = [live EXCEPT !.key = None]
    /\ TGoto("adoptCert")
    /\ UNCHANGED <<staged, standby, stateFile, token, notice, used, up,
                   everLive, elapsed, torn, entra>>

AdoptCert ==
    /\ tpc = "adoptCert"
    /\ previous' = [previous EXCEPT !.cert = live.cert]
    /\ live' = [live EXCEPT !.cert = None]
    /\ TGoto("adoptPutKey")
    /\ UNCHANGED <<staged, standby, stateFile, token, notice, used, up,
                   everLive, elapsed, torn, entra>>

AdoptPutKey ==
    /\ tpc = "adoptPutKey"
    /\ live' = [live EXCEPT !.key = standby.key]
    /\ standby' = [standby EXCEPT !.key = None]
    /\ TGoto("adoptPutCert")
    /\ UNCHANGED <<previous, staged, stateFile, token, notice, used, up,
                   everLive, elapsed, torn, entra>>

AdoptPutCert ==
    /\ tpc = "adoptPutCert"
    /\ live' = [live EXCEPT !.cert = standby.cert]
    /\ standby' = [standby EXCEPT !.cert = None]
    /\ everLive' = everLive \cup ({standby.cert} \ {None})
    /\ sound' = 0
    /\ tpc' = "adoptState"
    /\ UNCHANGED <<tcur, tmem, tnew, resets, cut, loopDeaths, previous, staged,
                   stateFile, token, notice, used, up, elapsed, torn, entra>>

\* Mutant: whatever is not the new credential is the outgoing one.
IsOutgoingByPosition(k) == k # live.cert

IsOutgoing(k) == k = tcur.cert

\* The old key, if a read still shows it, is scheduled for retirement.
AdoptState ==
    /\ tpc = "adoptState"
    /\ \/ Save(ForgetFault(tmem))
       \/ \E k \in Certs \cup Foreign :
            /\ Accepted(live) /\ MayBeSeen(k) /\ IsOutgoing(k)
            /\ Save([ForgetFault(tmem) EXCEPT !.rem = k])
    /\ tpc' = "adoptClear"
    /\ UNCHANGED <<tcur, tnew, resets, sound, cut, loopDeaths, files, token,
                   notice, used, up, everLive, elapsed, torn, entra>>

AdoptClear ==
    /\ tpc = "adoptClear"
    /\ notice' = None
    /\ TGoto("adoptRefresh")
    /\ UNCHANGED <<files, stateFile, token, used, up, everLive, elapsed, torn, entra>>

AdoptRefresh ==
    /\ tpc = "adoptRefresh"
    /\ \/ /\ Accepted(live)
          /\ token' = [by |-> live.cert, life |-> "full"]
       \/ UNCHANGED token
    /\ TGoto("sleep")
    /\ UNCHANGED <<files, stateFile, notice, used, up, everLive, elapsed, torn, entra>>

-----------------------------------------------------------------------------
\* The original works again: files, state, notice.

DiscardFiles ==
    /\ tpc = "discard"
    /\ standby' = NoPair
    /\ TGoto("discardState")
    /\ UNCHANGED <<live, previous, staged, stateFile, token, notice, used, up,
                   everLive, elapsed, torn, entra>>

DiscardState ==
    /\ tpc = "discardState"
    /\ Save(ForgetFault(tmem))
    /\ tpc' = "discardClear"
    /\ UNCHANGED <<tcur, tnew, resets, sound, cut, loopDeaths, files, token,
                   notice, used, up, everLive, elapsed, torn, entra>>

\* Mutant: the request to upload the discarded standby stays up.
DiscardClearForgotten ==
    /\ tpc = "discardClear"
    /\ TGoto("sleep")
    /\ UNCHANGED <<worldVars, deletions>>

DiscardClear ==
    /\ tpc = "discardClear"
    /\ notice' = None
    /\ TGoto("sleep")
    /\ UNCHANGED <<files, stateFile, token, used, up, everLive, elapsed, torn, entra>>

-----------------------------------------------------------------------------
\* Five minutes of sleep: the fault stamp and the token grow older.
Older(s) ==
    [s EXCEPT !.since = IF @ # NoStamp /\ @ < NeedWait THEN @ + 1 ELSE @]

Sleep ==
    /\ tpc = "sleep"
    /\ tpc' = "top"
    /\ tcur' = NoPair /\ tmem' = NoState /\ tnew' = None
    /\ stateFile' = Older(stateFile)
    /\ sound' = IF sound < NeedWait THEN sound + 1 ELSE sound
    /\ \/ UNCHANGED token
       \/ token.life = "full" /\ token' = [token EXCEPT !.life = "low"]
       \/ token.life = "low" /\ token' = [token EXCEPT !.life = "dead"]
    /\ UNCHANGED <<resets, cut, loopDeaths, files, notice, used, up, everLive,
                   elapsed, torn, entra>>

\* The pass is cut short and a later one starts from the top.
ForgetPass ==
    /\ loopDeaths < LoopDeaths
    /\ loopDeaths' = loopDeaths + 1
    /\ cut' = (cut \/ tpc \in ResetPCs \cup AdoptPCs \cup StagePCs \cup DiscardPCs)
    /\ tpc' = "top"
    /\ tcur' = NoPair /\ tmem' = NoState /\ tnew' = None
    /\ UNCHANGED <<resets, sound>>

LoopDies ==
    /\ tpc \notin {"top", "sleep"} /\ up
    /\ ForgetPass
    /\ UNCHANGED <<worldVars, deletions>>

ContainerStops ==
    /\ up /\ up' = FALSE
    /\ LosesToken
    /\ ForgetPass
    /\ UNCHANGED <<files, stateFile, notice, used, everLive, elapsed, torn, entra>>

-----------------------------------------------------------------------------
ResetStep == ResetKey \/ ResetCert \/ ResetPutKey \/ ResetPutCert \/ ResetState \/ ResetNotice
AdoptStep == AdoptKey \/ AdoptCert \/ AdoptPutKey \/ AdoptPutCert \/ AdoptState
             \/ AdoptClear \/ AdoptRefresh
DiscardStep == DiscardFiles \/ DiscardState \/ DiscardClear
LoopStep ==
    \/ ResetStep
    \/ NoSentinel \/ SkipMint \/ Mint \/ MintFails \/ ClearNotice
    \/ HealthyShortcut \/ LoadLive \/ OldWorks \/ OldFailsUnclearly \/ CountFault
    \/ StageStandby \/ NothingToStage \/ StageState \/ StageNotice
    \/ TryStandby \/ StandbyRefused \/ StandbyTrusted \/ StandbySends
    \/ AdoptStep \/ DiscardStep \/ Sleep

\* Only the end of the validity matters here, not the renewal threshold.
Expires(c) ==
    /\ c \in used /\ age[c] # "expired"
    /\ age' = [age EXCEPT ![c] = "expired"]
    /\ UNCHANGED <<live, previous, staged, standby, stateFile, token, notice,
                   app, used, up, everLive, elapsed, revoked, torn>>

\* Somebody puts a deleted key back.
AdminRestores(c) ==
    /\ c \in revoked /\ app[c] = "absent"
    /\ app' = [app EXCEPT ![c] = "adding"]
    /\ revoked' = revoked \ {c}
    /\ UNCHANGED <<live, previous, staged, standby, stateFile, token, notice,
                   age, used, up, everLive, elapsed, torn>>

World ==
    /\ \/ /\ \E c \in Certs : Replicate(c) \/ Expires(c) \/ OperatorUploads(c)
                              \/ AdminRestores(c)
          /\ UNCHANGED deletions
       \/ /\ Boot
          /\ UNCHANGED deletions
       \/ /\ deletions < Deletions
          /\ \E c \in Certs : AdminDeletes(c)
          /\ deletions' = deletions + 1
    /\ UNCHANGED <<tpc, tcur, tmem, tnew, resets, sound, cut, loopDeaths>>

Next == LoopStep \/ LoopDies \/ ContainerStops \/ World

Spec == Init /\ [][Next]_vars

\* The supervisor keeps the loop going and the orchestrator the container, the
\* directory converges, the operator uploads what the notice asks for, and
\* neither a certificate that works nor a definitive fault is masked for ever
\* by failures of the network.
Fairness ==
    /\ WF_vars(LoopStep)
    /\ WF_vars(Boot /\ UNCHANGED loopVars)
    /\ \A c \in Certs : /\ WF_vars(Replicate(c) /\ UNCHANGED loopVars)
                       /\ WF_vars(OperatorUploads(c) /\ UNCHANGED loopVars)
    /\ SF_vars(Mint) /\ SF_vars(OldWorks)
    /\ SF_vars(TryStandby) /\ SF_vars(StandbyTrusted) /\ SF_vars(StandbySends)

FairSpec == Spec /\ Fairness

-----------------------------------------------------------------------------
\* Properties.

Between == ResetPCs \cup AdoptPCs \cup StagePCs \cup DiscardPCs

\* The operator is never asked to upload a certificate whose private key the
\* relay no longer has: the notice names the live pair or the standby on
\* record, unless a pass died between its files and its notice (cert-action.sh
\* require and clear, against every place that moves the files).
NoticeHasKey ==
    (~cut /\ tpc \notin Between /\ notice # None) =>
        \/ live = PairOf(notice)
        \/ stateFile.rec = notice /\ standby = PairOf(notice)

\* "the relay stages one standby": while one is on record, awaiting its upload,
\* no other takes its place (run_recovery, the branch on recovery).
OneStandby ==
    [][\A c, d \in Certs :
        (stateFile.rec = c /\ standby.cert = c /\ c # d) => standby'.cert # d]_vars

\* A standby becomes the live certificate only once Entra has accepted it.
AdoptsOnlyTrusted ==
    [][\A c \in Certs :
        (standby.cert = c /\ live'.cert = c /\ live.cert # c) =>
            Registered(c) \/ c \in revoked]_vars

\* A relay that is down a credential asks for help and gets out of it: an
\* upload the operator was asked for and made takes effect, and the notice goes
\* or moves on to another certificate.
UploadAnswered ==
    \A c \in Certs :
        (notice = c) ~>
            \/ notice # c \/ cut \/ age[c] = "expired"
            \/ ~up /\ live.cert # None /\ age[live.cert] = "expired"

\* relay-supervisor.sh:40-41 "A minted token proves the live certificate is
\* trusted, so any outstanding certificate-upload notice has been satisfied":
\* the request to upload the live certificate stands until Entra knows it.
NoticeUntilTrusted ==
    [][\A c \in Certs :
        (notice = c /\ live = PairOf(c) /\ notice' = None) => app[c] # "absent"]_vars

\* CONFIGURATION.md:261 "6h sustained fault before a standby is generated".
StandbyAfterSustainedFault ==
    [][(standby' # standby /\ standby'.key # None) => sound >= NeedWait]_vars

-----------------------------------------------------------------------------
\* What Recovery implements.

\* The certificate of a pair of files, when they are a pair.
Whole(p) == IF p.key = p.cert THEN p.cert ELSE None

\* The certificate in service; that of the outgoing pair during an adoption.
Serving == IF tpc \in {"adoptCert", "adoptPutKey", "adoptPutCert"} THEN Whole(tcur)
           ELSE Whole(live)

Custody == INSTANCE KeyCustody WITH
    registered <- RegisteredKeys, serving <- Serving, asked <- notice,
    past <- everLive, over <- elapsed, lost <- {}, deleted <- revoked

\* Recovery and reset, wherever a pass is cut, give up no key, and change the
\* certificate in service only as KeyCustody says: a takeover is by one that
\* Entra has, and a certificate it has not got only fills an empty place.
KeepsCustody == Custody!Spec
=============================================================================
