# postfix-m365-relay: specifications, model checking and proofs

The relay is a container: Postfix with the sasl-xoauth2 plugin, a bash PID 1
and a handful of Python and bash programs that keep one thing alive, an OAuth
certificate registered with Microsoft Entra and the access token minted with
it. Mail is queued while the token is missing and lost to its users while the
certificate is. This directory holds TLA+ modules of the programs that manage
that certificate, of the loops that run them and of the alerting they use, TLC
configurations that check them on small instances, and proofs of their safety
for every instance. Line numbers below refer to the source files under `src/`.

## The system

| Component | State it keeps | Operations | What makes it hard |
|---|---|---|---|
| Certificate rotation, `scripts/rotate-smtp-relay-cert.py` | the live pair, `.pem.new`, `.pem.previous`, `cert-rotation-state.json`; outside, the app registration's keys | daily run: clean up, retire, stage, addKey, await, prove, swap, schedule, refresh | Graph is eventually consistent and its replies can be lost; the run may die at any step; the app registration may be shared; nothing locks out a second run |
| Recovery and reset, the same file, `--recover` and `--reset` | `.pem.recovery`, the fault streak and stamp, the record of a standby | classify a failed mint, count, stage one standby, ask for its upload, prove it, adopt it, or discard it when the original returns | people and Entra act at any time; files, record and notice are changed one after another |
| Token refresh, `scripts/refresh-smtp-token.py` | the token file on a tmpfs | skip, mint, fail | "success" means two different things |
| Upload notice, `cert-action.sh` | one file naming the certificate to upload, and its exported copy | require, remind, pointer, clear | four programs raise and clear it |
| Bootstrap, `entrypoint.sh` | none of its own | validate, import or generate the pair, first mint | a bad pair is fatal at every boot |
| Supervisor, `relay-supervisor.sh` | the PIDs of its roles | the token loop (300 s), the rotation loop (daily), the verifier (hourly), respawn, shutdown | a loop can be killed inside any program it runs, several roles can die at once, and a stop can come at any point |
| Alerts, `scripts/alert-event.py` | open incidents, an outbox file per notification, a lock file | open, recover, notify, retry | many callers at once; two channels that fail independently; kills |
| Verifier, `verify-relay.sh` | its last banner, alert categories shared with the loops | hourly checks | it reads first and reports minutes later, into incidents that others write too |
| Inbound TLS, `rotate-inbound-tls.sh` | the SMTP server's certificate | daily renewal | the file is replaced while Postfix runs or starts, and the reload may fail |
| Administration, `relay-admin`, `relay-users`, `export-cert`, `--remove-key` | none of their own | the same programs, by hand | they run beside the loops, without a lock |
| Configuration, `render-config.sh` | Postfix's tables | rendered at start | validation and text |

They interact through files and process exit codes. The token loop runs
refresh, then `cert-action.sh clear` or `pointer`, then recovery; the rotation
loop runs the inbound TLS renewal and the rotation; each of these opens and
recovers alert incidents. The rotation and the recovery share the live pair and
`cert-rotation-state.json` though they run in different loops. Everything
starts again from the disk when the container does, except the token, which is
on a tmpfs.

What makes the components correct:

* rotation: the live certificate is always one Entra has; a key added and not
  used is on record until it is gone; one such key at a time; the replaced pair
  stays usable for its grace days; nobody else's key is touched;
* recovery: one standby at a time, adopted only when Entra accepts it; the
  operator is asked for the right certificate, and an answered request ends;
* supervisor: no role lost, none run twice, Postfix's death ends the container,
  a stop ends everything;
* alerts: one page per outage, no notification lost, none repeated without
  cause, no channel held up by the other;
* the loops that report: a page before the last token dies, an incident closed
  when its cause is gone and standing while it lasts, whoever writes it;
* inbound TLS: what was renewed is what is served;
* removal by hand: never the live certificate, and another instance's only by a
  deliberate override.

## Modules

**`CertWorld`** is what the certificate programs share: the four pairs of files
(`live`, `previous`, `staged`, `standby`, each a key and a certificate that are
moved separately), the state file, the token, the notice, the app registration
and the clock. A certificate, its key and its Graph keyId are one value, since
every key the relay adds carries a fresh certificate. A key of the registration
is `absent`, `adding`, `present` or `removing`; in the two middle states
replicas disagree, so a read may show or miss it and a token request may be
accepted or refused (`MayBeSeen`, `MayBeMissed`, `Accepted`, `CertFault`).
`Replicate` settles it. A removal (`Removing`) makes a key go; but a replica that
does not know yet a key being added answers "No credentials found", which the
script counts as success (118-144, 973-974), and the key may come all the same. The module has the environment's actions and the
entrypoint's boot.

**`Rotation`** is one automatic run of the rotation script as a process with its
own memory: `cur`, the pair it loaded; `mem`, its copy of the state file; `new`,
the certificate it staged. Each network call and each rename is an action:

| Action | Source |
|---|---|
| `Start`, `ResolveAddition`, `CleanupPost`, `CleanupConfirm` | main 940-944, 1099-1140; `remove_key` 946-982 |
| `ResolveRemoval`, `RetirePost`, `RetireConfirm` | main 1141-1158 |
| `NotNow`, `Stage`, `AddKey`, `RecordAddition` | main 1160-1239 |
| `Await`, `ProveToken`, `ProveSend` | main 1265-1311 |
| `AbandonPost`, `AbandonConfirm` | `abandon` 1241-1263 |
| `SwapKey`, `SwapCert`, `PutKey`, `PutCert` | the four renames, 1316-1319 |
| `Schedule`, `RefreshNow` | main 1322-1377 |
| `Die`, `RemoveReplyLost`, `AddReplyLost`, `Crash` | a kill, or an exception nobody catches |

`remove_key` is split in a POST and a confirmation because between the two
everything else can happen. `leaked` remembers the added keys that no record
names: those of a run that died before it wrote one (`LostByDeath`), and those
that were still being added when a removal without effect and a read that missed
them dropped the record (`LostByDropping`). Recovery and reset are left out of this module,
which is then the relay with `MAIL_CERT_RECOVERY_ENABLED=no`.

**`TwoRotations`** is two instances of `Rotation` over the one world: the run of
the loop and the one `relay-admin rotate` starts.

**`KeyAdmin`** extends `Rotation` with `--remove-key` by hand (main 1051-1092) as a
second process: `HandStart` loads the live pair, `HandClassify` reads the
registration and the state file and passes the ownership gate (`Classify`,
`Refused`; `SameCertificate` and `StampedByThis` stand for the thumbprint and
the `inst:` stamp), `HandRemove` is the removal. Everything the rotation does can
fall between the three. `identified` says whether the configuration pins
`MAIL_INSTANCE_ID`. The generated one is exported to PID 1's children only
(entrypoint.sh 249-250), so without the pin a command by hand has none: it can
compare no stamp (`Comparable`, 225-230), every key that is neither live nor
retiring is unmonitored to it, and a rotation by hand adds a key without a stamp
(`RunStamps`, 197-201; a forced run is an operator's, any other may be). `overrides` is what the operator typed, chosen where the
gate looks at it; `crossed` remembers the removals that overlapped a run.

**`Recovery`** is the token loop of the supervisor, one pass after another: the
reset sentinel (`Reset...`, main 886-932), the refresh and what its exit code
does to the notice (`SkipMint`, `Mint`, `MintFails`, `ClearNotice`), then
`run_recovery` (704-785) with `_generate_standby` (`Stage...`),
`_advance_pending_standby` (`TryStandby`, `StandbyTrusted`, `StandbySends`),
`_adopt_standby` (`Adopt...`) and the discard (`Discard...`), one action per
file, record or notice they change, but for the two files of a new standby
(592-601), which no record names before both are there and which the next
staging writes anew. `Sleep` ages the token and the fault stamp.

**`KeyCustody`** is the abstract specification of both: which keys are registered,
which certificate serves, and which one people are asked to upload. One key is
added at a time; a key is given up only if it never served or its grace days are
over, and never while it serves; a certificate takes over once, when Entra has
it, or fills a place that is empty; people are asked for one that serves or has
yet to. It knows no files, no state record and no protocol with Graph.
`Rotation!Custody` and `Recovery!Custody` are its two instances. What is registered
and not going is `registered`, the notice is `asked`, and the history variables
`everLive`, `elapsed`, `leaked` and `revoked` are `past`, `over`, `lost` and
`deleted`. `serving` is the live pair when its files are a pair; while the renames
of a swap are under way it is the pair being replaced, so that a takeover is one
abstract step, the last rename, and a death among the renames leaves the place empty.

**`AlertEvent`** is `alert-event.py`: callers that wait for the lock, retry each
outbox file channel by channel (`ReadRecord`, `Skips`, `Delivers`, `Fails`,
`ReplyLost`, `Save`), then carry out their command (`Open`, `Recover`, `Notify`,
`NothingNew`), queue and try at once. History variables remember which
notifications were made, delivered, delivered again, and which a kill or a lost
answer excuses.

**`IncidentBook`** is the abstract specification of that: an event has at most one
open incident, a reference is given once, an end is announced only for the
reference that is open, and what arrives was announced. No lock, no outbox, no
retries, no callers. `AlertEvent!Book` is its instance under a refinement mapping:
the incident files are `open`, `refEvent` is `given`, `made` and `sent` are
what was announced and what arrived; every other step of `AlertEvent` is a stutter.

**`Watch`** is who pages the administrator: the token loop (refresh, the counter of
failures, the report; 12-63), the rotation loop (64-88) with
`rotate-inbound-tls.sh` inside it step by step (`Tls...`) and the OAuth rotation
as something that works or fails, and `verify-relay.sh` (`VerifyFiles`,
`VerifyInbound`, `VerifyLog`, then `VerifyReport` for each category it shares
with the loops). An alert call is one step on the set of open incidents, which is
what `IncidentBook` promises of it. The life of the token is a number that
each pass lowers; Entra, Graph and the certificate generator fail and mend;
the loops die, Postfix starts, and the container is recreated.

**`Supervisor`** is PID 1, `relay-supervisor.sh`: the boot loop and `spawn`
(`BootSpawn`, `Fork`, `Register`), the main loop (`WaitAny`, `Scan`,
`PostfixGone`, `KillGroup`, `BackoffEnds`, `Respawn`), the trap (`Trap`,
`TrapAgain`, `StopChildren`) and the last loop (`WaitLast`, `Exit`). A role is a
process that is forked, then leads its own group as the script read anew
(`Setsid`), then has its own trap or has become its program and runs its loop
(`EntersLoop`). Before that it may have PID 1's trap (170-177), and a TERM makes
it run `shutdown` and go on (`Swallows`). In its group it
runs a program or a sleep (its helper); a helper whose leader was replaced is a
stray. `unheard` counts the deaths `wait -n` has still to report, and `Forgets`
is what bash may do to one of a process ended by a signal while the script runs
another command. It shares no variables with the modules of the programs, in
which `Die`, `LoopDies` and `Crash` are what this one does to them.

**`RotationProofs`**, **`RecoveryProofs`**, **`KeyAdminProofs`**,
**`AlertEventProofs`**, **`WatchProofs`** and **`SupervisorProofs`** hold the
theorems about the module they are named for; `CertWorldProofs` has the lemmas
that the first two share. The `MC` modules add symmetry sets, the list of roles
and, in `KeyAdminMC`, which of the certificates is the first and one
case of stamps for a command that cannot compare them.
A definition commented `Mutant:` is a variant of the action after it, with a
plausible bug that the property it belongs to must notice.

## What the runs show

| Run | Question | Bounds |
|---|---|---|
| `rotation` | Do the invariants of the rotation hold with deaths, stale reads, lost replies and an administrator who deletes keys, and does it implement `KeyCustody`? | 3 certificates, 1 foreign key, 1 death |
| `rotation_live` | Do the live key and other instances' keys survive removals by hand beside the rotation, and does the record of an abandoned key leave in the end, and for a good reason? | `KeyAdmin`: 2 certificates, 1 foreign key, 1 command, identity pinned or not, no deaths, `--force` |
| `two_rotations` | Is an unmatched record always an abandoned key, as main 1109-1110 says? No. | 2 certificates, no deaths |
| `recovery` | Does the notice name a certificate the relay has; one standby; adopted only when accepted; is `KeyCustody` implemented? | 3 certificates, 1 foreign key, 1 reset, 1 death, 1 deletion, both thresholds 1 |
| `recovery_live` | Does an answered upload end the outage? | 2 certificates, 1 death, 1 deletion, no reset |
| `recovery_notice` | Does a cleared notice mean the certificate was accepted, as the supervisor's comment says? No. | 1 reset |
| `recovery_sustained` | Does a standby need a sustained fault, as CONFIGURATION 261 says? No. | streak 2, wait 3 passes, no deaths |
| `alert` | Is the book of incidents kept; one page per outage, nothing lost, nothing repeated without cause? | 2 callers, 1 category, 2 references, 2 channels, 1 kill or lost answer |
| `alert_live` | Is the webhook served while the mail channel is down for good? | 1 reference |
| `supervisor` | Is no role lost or run twice, does an unasked end fail, does a stop that finds every role in its loop end? | 3 roles, 3 deaths, 1 stop |
| `supervisor_postfix` | Does Postfix's death always stop the relay, as RUNBOOK 202 says? No. | 2 deaths |
| `watch` | Is the page out before the last token dies, what was renewed served, what is over closed, what lasts on record? | a token of 4 passes, margin 4, comfort 1, threshold 2, 2 faults |

Why the bounds are enough: three certificates give a live one, its successor
and an abandoned or third one, so a record can name each of the three roles;
one foreign key is enough to be touched; one death at any of the steps,
followed by complete runs, shows whether what it leaves is repaired. Two
callers and two references give an incident, its recovery and a second
incident of the same category, with the two calls interleaved at every step.
The thresholds of the recovery are 1 where a property does not depend on them
and 2 and 3 in `recovery_sustained`, which needs a streak and a stamp that
differ. Of the supervisor's roles, one before Postfix in the boot order, Postfix
and one after it are enough, since the others take the same branches; three
deaths let a role die while another is in its backoff and again after it. In
`KeyAdmin` the second certificate is at the same time the addition of a run and
the target of the command; deaths are left to `rotation`, because with one the
liveness property alone takes longer than a run may. In `watch` the margin, the threshold and the comfort
keep the order they have in the scripts (1800 s, three passes of 300 s, 900 s),
so that the page of the loop, the closing by the verifier and the end of the
token fall in every order; the theorems are for all values. Two faults are a
failure and a death, a recreation or a failed reload during it, or the two ages
of the inbound certificate. The constants `Commands`, `Deaths`, `LoopDeaths`, `MaxDeaths`, `Resets`, `Deletions` and `Faults`
are bounds; so is a finite `Certs`, and the actions `NotNow`, `NothingToStage` and
`OutOfRefs` say what a program does when the model has no value left.

Deadlock is not checked in any run: an expired or mismatched live pair keeps
the entrypoint from starting (190 and 365), which is a real dead end, and the
alert model stops when its last reference is spent and everybody has left. In
`Watch` a loop always has a step, so a deadlock cannot occur.

### Disagreements found

* **Two runs at once remove the live certificate** (`two_rotations`). The second
  run loaded the old certificate, finds the first run's `pending_addition`,
  takes it for abandoned and removes it after the first has swapped it in.
* **The notice of a reset is cleared at once** (`recovery_notice`). The refresh
  succeeds without minting while the old token has 1800 s left.
* **A fault stamp outlives the fault** (`recovery_sustained`). The pops of the
  streak and of the stamp are joined by `or` (714, 741).
* **Postfix can die unnoticed** (`supervisor_postfix`). `wait -n` does not return
  for a background job that a signal ended while the script ran another command,
  and the scan runs only after `wait -n`. The real script does this with bash
  5.2: token killed, Postfix killed within the backoff, token restarted, and the
  container goes on without Postfix until another role dies.

* **A record is dropped while its key is still on its way** (no run of its own:
  `LostByDropping` is the step, `leaked` what it leaves). The comment at 1229-1233
  says the record "survives a crash, restart, or stale read and is cleared only
  after confirmed removal or local adoption". An abandon after `Await` (1279)
  posts its removal exactly while replicas do not know the key; a 400 "No
  credentials found" counts as success (973-974), one read that misses the key
  confirms it (980), and the record goes (1253). The key then replicates and
  nothing names it. No process has died.
* **Ownership is not proved by hand** (no run of its own: a case of
  `ForeignNeedsOverride`). The comment at 1047-1049 wants a "deliberate,
  purpose-named override" for crossing an ownership boundary, and CONFIGURATION
  290-297 says that `relay-admin keys` labels each key from its stamp. Without a
  pinned `MAIL_INSTANCE_ID` a command by hand has no identity: every stamped key
  is UNMONITORED to it, and a plain `--yes` given to the script removes another
  instance's. `relay-admin remove-key` passes no override, so it refuses them
  all, this instance's superseded ones too. tests/test_runtime_python.py 732-736
  asserts the label.
* **A role can swallow its TERM** (no run of its own: `Swallows`). The comment at
  172-174 says that "group signalling still reaches the foreground sleep or
  helper, so the role cannot remain behind". A role's bash has `trap shutdown
  TERM` from 170 to 177; a TERM there runs `shutdown` in the role and then its
  endless loop, and PID 1 waits for it (215) until the container is killed.

These gaps have no run of their own:

* The swap is four `os.replace` calls (1316-1319), where RUNBOOK 62-63 says "swap
  files atomically". A run killed between them leaves no live pair, and the
  next boot generates one that nobody has uploaded instead of finishing or
  undoing the swap (`torn`).
* A second rotation within the grace days overwrites the retirement of the first
  (1348), the exception in `RetirementKept`.
* A standby can lose its banner: one good mint clears the notice, and if the old
  certificate fails again before the recovery check, the standby stays in
  flight and nothing asks for its upload.
* A stop that comes during the boot loop (or between a fork and its setsid) does
  not reach the roles started after it, and the last loop waits for them until
  the container is killed; `StopEnds` is about the stops that find every process
  signalled and in its loop.
* With `--grace-days 0` a retirement can meet a key that replicas still do not
  know everywhere, and its record is dropped in the same way: an exception in
  `RetirementKept`.
* "This instance's own live certificate must be equally undeletable by hand"
  (1047) fails when a rotation runs between the load of the pair (942) and the
  removal (1089): the key it was adding counts as superseded, passes the gate
  without an override, and may be live by then (`crossed`). `--list-keys` prints
  a key that a run is just proving as "safe to remove" (1025).
* The verifier and the loops do compete for incidents that verify-relay.sh 245-247
  says they share: with a `MAIL_TOKEN_ALERT_AFTER` of 1 or 2 the loop opens
  `token-health` while the token has more than 900 s and the verifier closes it
  (`hasty` is the worst case, a reading that is no longer true). The verifier
  closes `oauth-rotation-health` when the log ends with the note of an abandon
  (1262) or with a line of `--recover`, which writes to the same log, and the
  loop opens it again the next day: `SickIsPaged` claims only that it comes back.
  `inbound-tls-expiring` of a mounted certificate is opened inside 365 days by one
  and closed outside 30 days by the other.
* A reload of Postfix that fails ends the renewal after the rename. The next
  day's run finds the certificate not due and closes `inbound-tls-health`,
  though Postfix was never told (`cut` in `Watch`).
* `reset_replaced` (925) is written and never read.

## Fairness

Safety runs use `Spec`, with none. `Rotation!FairSpec` assumes that the loop
keeps running the script (`while :` in `run_rotation_loop`, every network call
has a timeout), that a stopped container is started again (the compose files
set a restart policy), that the directory converges, and that a removal retried
for ever is accepted and confirmed in the end: strong fairness of the two
outcomes, without which Entra could refuse the relay for ever. `Recovery!FairSpec`
adds that an operator uploads what the notice asks for, which is what the
property is about, and that neither a mint that can succeed nor a definitive
fault is hidden by network failures in every pass. `AlertEvent!FairSpec` assumes
that each call runs to its end and that the webhook is not in failure or backoff
at every attempt; of the mail channel it assumes nothing. `Supervisor!FairSpec`
assumes that PID 1 goes on, that a forked role reaches setsid and its loop, and
that a process sent TERM ends if it has not swallowed it: it dies of it before it
has a trap and exits by its own trap after, and none of the programs ignores it.
Nothing is assumed of one that is only starting, for which both may happen. `KeyAdmin!FairAdminSpec` is the fairness of the rotation; the
operator owes nothing. `Watch!FairSpec` assumes that each of the three loops goes
on (`while :`, respawned by the supervisor, every call bounded by a timeout) and
that Postfix reaches running; nothing of their order, of Entra or of the clock. No fairness is given to deaths, deletions, the clock, or the abandonment of a rotation.

## What is proved

Every theorem holds for all values of the constants that satisfy the named
assumptions of its modules: `None` is not a value, this instance's certificates
are not foreign, switches are Booleans, bounds and thresholds naturals, and in
`Watch` the order of the lives and `AlertAfter < MinRemaining` (3 passes of 300 s
against 1800 s by default; with a `MAIL_TOKEN_ALERT_AFTER` of six or more the
page can come after the token is dead). The argument is the same throughout: an inductive invariant
`IInv` from named parts, a lemma or a step for each action that shows the parts
preserved, and PTL at the end.

`RotationProofs` proves, for every set of certificates, of foreign keys and any
bound on deaths:

* `TypeCorrect`: `Spec => []TypeOK`;
* `LiveStaysRegistered`: no run removes the key of the live certificate;
* `AddedKeysAreTracked`: an added key that never became live is on record,
  unless a death fell between the addition and its record or the record was
  dropped while the key was still being added (`leaked`);
* `WayBackIsKept`: the `.previous` pair is whole and registered until its grace
  days are over;
* `ForeignKeysUntouched`, `OneAddition` and `RetirementsAreKept`: the action
  properties;
* `CustodyKept`: `Spec => Custody!Spec`, the refinement of `KeyCustody`.

None of the three invariants is inductive. What they need is `RotationProofs!IInv`,
in four parts that are preserved by lemmas of their own. `CoreInv` (`CoreStep`) does
not depend on which keys are registered staying so, and holds under removals by
hand too. `Guarded(X)` (`GuardStep`) says that the live key, and the new one from its
proof on, are registered unless an administrator deleted them or they are in
`X`; `X` is empty for the rotation alone and is what crossed a run in `KeyAdmin`.
`BackInv` is the way back, during the renames as well, and `ForeignInv` says that
other instances' keys stay present. `CoreInv` consists of:

* `RunInv`: a run is the only writer of the state file, so its memory is the
  file; before the swap, the pair it loaded is the live pair and is whole; the
  key it cleans up was never live, and the one it retires is past its grace
  days and not live;
* `FilesInv`: where the halves of the live, staged and previous pairs are at
  each step of the swap;
* `NewInv`: the certificate it staged was never live until the last rename, and
  its key is not among the lost ones;
* `RecordInv`: `pending_addition` is the new certificate while the run has
  one recorded, and names a certificate that has been live only if that one is
  the whole live pair (a death between the renames and the record);
  `pending_removal` has been live; a key being cleaned up or retired is the one
  on record, and stays so until a read has missed it. Whether it is going is
  another matter: the answer says nothing about a key that is still being added,
  and `AddedKeyTracked` holds because what is dropped then is in `leaked`;
* `HistoryInv`: how `used`, `everLive`, `leaked`, `elapsed` and `torn` relate to the
  above; the live certificate's grace days have not begun.

`InvInit` and `InvStep` show `Init => IInv` and `IInv /\ [Next]_vars => IInv'`,
with a step for each action and one below it for each part it can disturb; the
theorems follow with PTL. The lemmas before them say what updates of pairs,
records and the registration do and keep. For the refinement, `CustodyNext` maps
each step: an accepted `addKey` is `Add`, a removal is `GiveUp` or `Retire`
(`CustodyRemoving`), or a stutter when it had no effect; the last rename is `Adopt`,
a death among the renames is `Vacate`, one after `addKey` and a record dropped too
early are `Lose` (`CustodyDeath`, `CustodyDropping`), and the rest is a stutter. That
a cleanup is a `GiveUp` needs `RecordInv`: the key on record never served. The
argument rests on there being one run at a time, and `two_rotations` shows what
happens without it.

`SupervisorProofs` proves, for every list of distinct roles that has Postfix in
it and any number of deaths, `TypeCorrect`, `GroupsApart` (`NoStray`),
`UnaskedExitIsFailure`, `Pid1IsLast` (`NothingOutlivesPid1`) and `EveryDeathReported`
(`EveryRoleWatched`). Its `IInv` adds five parts: `GroupInv` (a role that is restarted is dead and its group empty
since before the backoff; roles later in the boot order have no process yet),
`EndInv` (only a stop or a nonzero exit code leads to the last loop) and
`ReapInv` (whoever runs is in the tables or about to be, and the last loop has
dropped only the dead); `TableInv` (every role that was started is in the tables
or in the loop's hand) and `ReportInv`. That one counts: the dead the loop has not
taken up yet (`Waiting`) are no more than the deaths `wait -n` has still to report,
and the one it has just reported (`Reports`). Each has its own step lemma.

`RecoveryProofs` proves `TypeCorrect`, `NoticeIsUsable` (`NoticeHasKey`),
`StandbyStands` (`OneStandby`), `AdoptionIsTrusted` (`AdoptsOnlyTrusted`) and
`CustodyKept`, the refinement of `KeyCustody`.
`NoticeHasKey` speaks of the moments when no files are being moved and is not
inductive: `NoticeInv` adds what each step of a reset and of a staging has already
put on disk, and that the record names the pair in `.recovery`; `MemInv` that
the check works on the state file as it is, since it is the file's only writer
here; `TrustInv` that a standby on its way to the live files was accepted, and
that an accepted key disappears only when somebody deletes it. The refinement
takes two more: `FreshInv`, that a certificate being generated, and a standby,
never served, and that the former is in no notice and not registered; and `SwapInv`,
where the halves of the standby and of the live pair are between the renames of an
adoption. An adoption is `Adopt` at its last rename, a reset is `Vacate` and, when
its second file is written, `Fill`, as is a boot that finds no pair.

`KeyAdminProofs` proves, for any number of commands, `AdminTypeCorrect`,
`ForeignIsOverridden` (`ForeignNeedsOverride`, for a command with an identity and
one without), `LiveIsUndeletable`
(`LiveSurvivesHand`) and `TrackedUnderHand`, that `AddedKeyTracked` holds under
removals by hand as well. The rotation's steps are the lemmas of `RotationProofs`,
with `Guarded(crossed)` in the place of `Guarded({})`; `GateInv` carries what the gate
decided over everything that happens until the removal, `GateBeside` past the keys
that runs stamp or do not stamp meanwhile.

`AlertEventProofs` proves `PagedOnce`, `NothingDropped`, `DeliveredOnce`, and
`BookKept`: `Spec => Book!Spec`, the refinement of `IncidentBook`, each step mapped
to a step of the book or a stutter. `LockInv` says that the calls between their
lock and their end are its holder; from it follow `CallInv` (the incident a call
has read is the one on disk), `RecordInv` (the outbox record in its memory is the
file less what this attempt has delivered) and `OnceInv` (what is both pending and
delivered is doubtful, unless the attempt that delivered it is still under
way). `BookInv` ties references to incidents: open until closed, never given twice.

`WatchProofs` proves `TypeCorrect`, `PagedInTime` (`PagedBeforeDead`) and
`RenewalIsServed` (`RenewedIsServed`). `CountInv` relates the counter to the life of the
token: one failure for every unit spent below the margin, so the threshold is
reached first. `OpenInv` is about the race with the verifier: past the
threshold, each pass that has reported leaves the incident open once the
verifier can no longer find the token comfortable. `ServedInv` is the renewal's.

Only model-checked are the liveness properties (fairness and `ENABLED` are outside
the prover's reach): `AdditionResolved`, `UploadAnswered`, `ComesBack`, `StopEnds`,
`WebhookDelivered`, `HealedIsQuiet` and `SickIsPaged`. So are the disagreements, which
are counterexamples. Every invariant and every action property of the other runs,
and both refinements, are theorems.

## Not modelled, and why

* A retirement's or an abandon's wording, logs, banners, exported copies: they
  decide nothing.
* `--list-keys` and `--dry-run` change nothing; the exits for an unsafe window or
  a missing proof recipient come before any change.
* Recovery together with rotation. Both rewrite the state file, and a reset can
  fall between a rotation's proof and its swap. Composed over one world with the
  three certificates this takes, TLC had more than 6.7 million distinct states
  after five minutes and was still finding new ones; with two certificates
  there is none left for the second program. The two stay apart, each with the
  other switched off, and the hazards at 407 and 886 are not covered.
* A state file that cannot be read: the program replaces it by a rename, so only
  something else can spoil it.
* Boot by files: generation in two writes, the import of a mounted pair, the
  first inbound certificate. What a torn pair leads to is in `MayStart`: the
  entrypoint refuses it, at every boot.
* A reset sentinel that cannot be removed (a read-only `/config`): every pass
  resets again, which the two lines (23-27) say as plainly as a model would.
* Of the verifier, the checks whose incidents nobody else writes, the push
  monitors and the banner.
* The renewal of a mounted inbound certificate by its owner: in `Watch` only the
  managed renewal makes a certificate young again.
* Whether the token's life is told right: refresh adds `expires_in` to the time it
  writes the file, a little after the token was issued.
* What is in a token, an assertion or a proof; JWT and X.509 contents.
* Redaction and guidance of alerts; the order of outbox files, which no
  document promises. `tried` over-approximates a backoff: a channel that failed
  before may be due or not.
* `render-config.sh`, `syslog-bridge.py`, the PowerShell setup, the probes
  (`probe-smtp-xoauth2.py`, `qualify-relay.py`), the image build and the vendored
  plugin: sequential, without state that outlives a call, or not part of the
  running relay.

Where a history variable excuses a case, the case is real. A death between
addKey and its record leaks a key, and so does a record dropped while the key is
still being added (`leaked`); a death in a swap is the first gap
above (`torn`); a recovery killed between its files and its notice
(`cut`) leaves a standby nobody is asked for, which a later definitive fault
replaces by another or waits on; an alert killed between the incident file and
the queue is never announced (`unqueued`), because the next call sees an open
incident and only counts it. A token loop that was restarted in the outage has
lost its count (`restarted`), and a verifier may report a reading of a token that
has died since (`hasty`).

## Where it stands

The modules were written in this order, each with its runs and then its theorems:
`CertWorld` and `Rotation`, `TwoRotations`, `Recovery`, `AlertEvent`, `Supervisor`;
then `IncidentBook` and the refinement, `Watch` (the verifier, the inbound renewal
and the loops' reports), `KeyAdmin`, and the proofs about `Recovery`, `AlertEvent`,
`Watch` and `KeyAdmin`. The last additions are `KeyCustody` with its two
refinements and the proofs of `LiveSurvivesHand` and `EveryRoleWatched`. What could
still be added: what does hold of two rotations at once (no death in a swap is
needed to lose the live key, but other instances' keys stay untouched), the
composition of rotation and recovery with an abstraction of one of the two
small enough to check, for which `KeyCustody` is a candidate, and the boot by
files.
