----------------------------- MODULE AlertEvent -----------------------------
(***************************************************************************)
(* alert-event.py: durable incidents and an outbox with two independent    *)
(* channels.  The loops of the supervisor, the programs they run and an    *)
(* operator's commands all call it, each call a process of its own; a file *)
(* lock keeps them apart.  Under the lock a call first retries what the    *)
(* outbox holds, then opens, recovers or only notifies, and tries the new  *)
(* notification at once.                                                   *)
(*                                                                         *)
(* A notification is named by its reference and its status, as its outbox  *)
(* file is.  The order of the files, which is that of clock readings taken *)
(* before the lock, is left open: no property here depends on it.          *)
(***************************************************************************)
EXTENDS FiniteSets, Naturals

CONSTANTS
    Callers,        \* processes that may be in the program at once
    Events,         \* alert categories
    Refs,           \* PMR references, one per incident (a bound)
    Channels,       \* the channels configured, of "email" and "webhook"
    Faults,         \* how many calls may be killed or lose a reply (a bound)
    None

ASSUME CallersAreSeparate == None \notin Callers \cup Events \cup Refs
ASSUME ChannelsKnown == Channels \subseteq {"email", "webhook"}
ASSUME FaultsNatural == Faults \in Nat

VARIABLES
    lock,       \* the holder of alerts/.lock
    incident,   \* incidents/EVENT.json: the reference of the open incident
    outbox,     \* outbox/*.json: per notification, the channels still pending
    tried,      \* <<notification, channel>> with a next_attempt_epoch: it has
                \* failed before, and may or may not be due again
    pc,         \* where each call stands
    job,        \* its command and event, until it is carried out
    todo,       \* outbox files its retry pass has yet to read
    file,       \* the notification it is attempting
    rec,        \* the pending channels of that record in its memory
    seen,       \* the incident of its event as it read it
    refEvent,   \* history: the event each used reference was made for
    made,       \* history: notifications a call decided to send
    sent,       \* history: <<notification, channel>> delivered
    again,      \* history: those delivered more than once
    unqueued,   \* history: notifications that died before the outbox
    doubtful,   \* history: deliveries whose success was never recorded
    faults      \* calls killed and replies lost so far

disk == <<incident, outbox, tried>>
calls == <<pc, job, todo, file, rec, seen>>
history == <<refEvent, made, sent, again, unqueued, doubtful, faults>>
vars == <<lock, disk, calls, history>>

Status == {"open", "recovered", "notification"}
Notices == Refs \X Status
Deliveries == Notices \X Channels
Command == {"open", "recover", "notify"}
Job == [cmd : Command, ev : Events] \cup {None}
PCs == {"idle", "wait", "retry", "email", "webhook", "save", "decide", "queue"}

TypeOK ==
    /\ lock \in Callers \cup {None}
    /\ incident \in [Events -> Refs \cup {None}]
    /\ outbox \in [Notices -> SUBSET Channels]
    /\ tried \subseteq Deliveries
    /\ pc \in [Callers -> PCs] /\ job \in [Callers -> Job]
    /\ todo \in [Callers -> SUBSET Notices]
    /\ file \in [Callers -> Notices \cup {None}]
    /\ rec \in [Callers -> SUBSET Channels]
    /\ seen \in [Callers -> Refs \cup {None}]
    /\ refEvent \in [Refs -> Events \cup {None}]
    /\ made \subseteq Notices /\ sent \subseteq Deliveries /\ again \subseteq sent
    /\ unqueued \subseteq Notices /\ doubtful \subseteq sent
    /\ faults \in 0 .. Faults

Init ==
    /\ lock = None
    /\ incident = [e \in Events |-> None]
    /\ outbox = [n \in Notices |-> {}] /\ tried = {}
    /\ pc = [p \in Callers |-> "idle"] /\ job = [p \in Callers |-> None]
    /\ todo = [p \in Callers |-> {}] /\ file = [p \in Callers |-> None]
    /\ rec = [p \in Callers |-> {}] /\ seen = [p \in Callers |-> None]
    /\ refEvent = [r \in Refs |-> None] /\ made = {}
    /\ sent = {} /\ again = {} /\ unqueued = {} /\ doubtful = {} /\ faults = 0

Files == {n \in Notices : outbox[n] # {}}
FreshRefs == {r \in Refs : refEvent[r] = None}

-----------------------------------------------------------------------------
\* A call arrives, waits for the lock, and takes it.

Call(p) ==
    /\ pc[p] = "idle"
    /\ pc' = [pc EXCEPT ![p] = "wait"]
    /\ UNCHANGED <<lock, disk, job, todo, file, rec, seen, history>>

\* What a call is about matters only once it has the lock, and is chosen there.
Enter(p) ==
    /\ lock' = p
    /\ \E j \in Job \ {None} : job' = [job EXCEPT ![p] = j]
    /\ todo' = [todo EXCEPT ![p] = Files]
    /\ pc' = [pc EXCEPT ![p] = "retry"]
    /\ UNCHANGED <<disk, file, rec, seen, history>>

\* Mutant: the lock is opened and not taken.
AcquireShared(p) == pc[p] = "wait" /\ Enter(p)

Acquire(p) == pc[p] = "wait" /\ lock = None /\ Enter(p)

\* The end of a call releases the lock.
Leave(p) ==
    /\ lock' = IF lock = p THEN None ELSE lock
    /\ pc' = [pc EXCEPT ![p] = "idle"] /\ job' = [job EXCEPT ![p] = None]
    /\ todo' = [todo EXCEPT ![p] = {}] /\ file' = [file EXCEPT ![p] = None]
    /\ rec' = [rec EXCEPT ![p] = {}] /\ seen' = [seen EXCEPT ![p] = None]

Step(p, next) ==
    /\ pc' = [pc EXCEPT ![p] = next]
    /\ UNCHANGED <<lock, job, todo, file, seen>>

-----------------------------------------------------------------------------
\* attempt_outbox, for each file of the retry pass and for the new one.

ReadRecord(p) ==
    /\ pc[p] = "retry"
    /\ \E n \in todo[p] :
        /\ todo' = [todo EXCEPT ![p] = @ \ {n}]
        /\ file' = [file EXCEPT ![p] = n]
        /\ rec' = [rec EXCEPT ![p] = outbox[n]]
    /\ pc' = [pc EXCEPT ![p] = "email"]
    /\ UNCHANGED <<lock, disk, job, seen, history>>

\* The outbox is done; the incident is read.
RetryDone(p) ==
    /\ pc[p] = "retry" /\ todo[p] = {}
    /\ seen' = [seen EXCEPT ![p] = incident[job[p].ev]]
    /\ pc' = [pc EXCEPT ![p] = "decide"]
    /\ UNCHANGED <<lock, disk, job, todo, file, rec, history>>

\* What comes after a channel.
After(channel) == IF channel = "email" THEN "webhook" ELSE "save"

\* Not pending, or not yet due again.
Skips(p, channel) ==
    /\ pc[p] = channel
    /\ channel \notin rec[p] \/ <<file[p], channel>> \in tried
    /\ Step(p, After(channel))
    /\ UNCHANGED <<disk, rec, history>>

Delivers(p, channel) ==
    /\ pc[p] = channel
    /\ channel \in rec[p]
    /\ LET d == <<file[p], channel>> IN
        /\ again' = IF d \in sent THEN again \cup {d} ELSE again
        /\ sent' = sent \cup {d}
        /\ tried' = tried \ {d}
    /\ rec' = [rec EXCEPT ![p] = @ \ {channel}]
    /\ Step(p, After(channel))
    /\ UNCHANGED <<incident, outbox, refEvent, made, unqueued, doubtful, faults>>

\* The far end took it and the answer never came: to the code, a failure.
ReplyLost(p, channel) ==
    /\ pc[p] = channel
    /\ channel \in rec[p]
    /\ faults < Faults
    /\ faults' = faults + 1
    /\ LET d == <<file[p], channel>> IN
        /\ again' = IF d \in sent THEN again \cup {d} ELSE again
        /\ sent' = sent \cup {d}
        /\ doubtful' = doubtful \cup {d}
        /\ tried' = tried \cup {d}
    /\ Step(p, After(channel))
    /\ UNCHANGED <<incident, outbox, rec, refEvent, made, unqueued>>

\* Mutant: a channel that fails ends the attempt.
FailsAndStops(p, channel) ==
    /\ pc[p] = channel
    /\ channel \in rec[p]
    /\ tried' = tried \cup {<<file[p], channel>>}
    /\ Step(p, "save")
    /\ UNCHANGED <<incident, outbox, rec, history>>

\* A failure puts the next attempt off; the other channel is tried all the same.
Fails(p, channel) ==
    /\ pc[p] = channel
    /\ channel \in rec[p]
    /\ tried' = tried \cup {<<file[p], channel>>}
    /\ Step(p, After(channel))
    /\ UNCHANGED <<incident, outbox, rec, history>>

\* Mutant: what one channel has taken is not written back while another waits.
SaveOnlyWhenDone(p) ==
    /\ pc[p] = "save"
    /\ outbox' = [outbox EXCEPT ![file[p]] = IF rec[p] = {} THEN {} ELSE @]
    /\ IF job[p] = None
         THEN Leave(p)
         ELSE Step(p, "retry") /\ UNCHANGED rec
    /\ UNCHANGED <<incident, tried, history>>

\* Mutant: one channel that is done completes the notification.
SaveWhenAnyDone(p) ==
    /\ pc[p] = "save"
    /\ outbox' = [outbox EXCEPT ![file[p]] = IF rec[p] # @ THEN {} ELSE rec[p]]
    /\ IF job[p] = None
         THEN Leave(p)
         ELSE Step(p, "retry") /\ UNCHANGED rec
    /\ UNCHANGED <<incident, tried, history>>

\* The record is written back, or the file removed when nothing is pending.  A
\* call that has carried out its command is over.
Save(p) ==
    /\ pc[p] = "save"
    /\ outbox' = [outbox EXCEPT ![file[p]] = rec[p]]
    /\ IF job[p] = None
         THEN Leave(p)
         ELSE Step(p, "retry") /\ UNCHANGED rec
    /\ UNCHANGED <<incident, tried, history>>

-----------------------------------------------------------------------------
\* The command itself.

\* An open incident is only counted again; there is none to recover.
NothingNew(p) ==
    /\ pc[p] = "decide"
    /\ \/ /\ job[p].cmd = "open" /\ seen[p] # None
          /\ incident' = [incident EXCEPT ![job[p].ev] = seen[p]]
       \/ /\ job[p].cmd = "recover" /\ seen[p] = None
          /\ UNCHANGED incident
    /\ Leave(p)
    /\ UNCHANGED <<outbox, tried, history>>

\* The model has no reference left.
OutOfRefs(p) ==
    /\ pc[p] = "decide" /\ FreshRefs = {}
    /\ job[p].cmd = "notify" \/ (job[p].cmd = "open" /\ seen[p] = None)
    /\ Leave(p)
    /\ UNCHANGED <<disk, history>>

Announce(p, notice) ==
    /\ made' = made \cup {notice}
    /\ file' = [file EXCEPT ![p] = notice]
    /\ pc' = [pc EXCEPT ![p] = "queue"]
    /\ UNCHANGED <<lock, job, todo, rec, seen, outbox, tried>>
    /\ UNCHANGED <<sent, again, unqueued, doubtful, faults>>

Open(p) ==
    /\ pc[p] = "decide" /\ job[p].cmd = "open" /\ seen[p] = None
    /\ \E r \in FreshRefs :
        /\ incident' = [incident EXCEPT ![job[p].ev] = r]
        /\ refEvent' = [refEvent EXCEPT ![r] = job[p].ev]
        /\ Announce(p, <<r, "open">>)

\* Mutant: a recovery does not ask whether an incident is open.
RecoverUnopened(p) ==
    /\ pc[p] = "decide" /\ job[p].cmd = "recover"
    /\ incident' = [incident EXCEPT ![job[p].ev] = None]
    /\ Announce(p, <<seen[p], "recovered">>)
    /\ UNCHANGED refEvent

Recover(p) ==
    /\ pc[p] = "decide" /\ job[p].cmd = "recover" /\ seen[p] # None
    /\ incident' = [incident EXCEPT ![job[p].ev] = None]
    /\ Announce(p, <<seen[p], "recovered">>)
    /\ UNCHANGED refEvent

Notify(p) ==
    /\ pc[p] = "decide" /\ job[p].cmd = "notify"
    /\ \E r \in FreshRefs :
        /\ refEvent' = [refEvent EXCEPT ![r] = job[p].ev]
        /\ Announce(p, <<r, "notification">>)
    /\ UNCHANGED incident

\* queue_notification; attempt_outbox then reads the record back.
Queue(p) ==
    /\ pc[p] = "queue"
    /\ outbox' = [outbox EXCEPT ![file[p]] = Channels]
    /\ rec' = [rec EXCEPT ![p] = Channels]
    /\ job' = [job EXCEPT ![p] = None]
    /\ pc' = [pc EXCEPT ![p] = "email"]
    /\ UNCHANGED <<lock, incident, tried, todo, file, seen, history>>

-----------------------------------------------------------------------------
\* A call is killed, with its container or alone; the kernel drops its lock.
Die(p) ==
    /\ pc[p] # "idle" /\ faults < Faults
    /\ faults' = faults + 1
    /\ unqueued' = unqueued \cup (IF pc[p] = "queue" THEN {file[p]} ELSE {})
    /\ doubtful' = doubtful \cup
         (IF pc[p] \in {"webhook", "save"} THEN {file[p]} \X (outbox[file[p]] \ rec[p]) ELSE {})
    /\ Leave(p)
    /\ UNCHANGED <<disk, refEvent, made, sent, again>>

Work(p) ==
    \/ Call(p) \/ Acquire(p) \/ ReadRecord(p) \/ RetryDone(p)
    \/ \E ch \in {"email", "webhook"} : Skips(p, ch) \/ Delivers(p, ch)
                                       \/ Fails(p, ch) \/ ReplyLost(p, ch)
    \/ Save(p) \/ NothingNew(p) \/ OutOfRefs(p)
    \/ Open(p) \/ Recover(p) \/ Notify(p) \/ Queue(p)

Next == \E p \in Callers : Work(p) \/ Die(p)

Spec == Init /\ [][Next]_vars

\* The loops keep calling, a call comes to its end (every network call has a
\* timeout), and the webhook is neither out of order nor in backoff at every
\* attempt for ever.  The mail channel may be.
Fairness ==
    /\ \A p \in Callers : WF_vars(Work(p))
    /\ \A n \in Notices :
        SF_vars(\E p \in Callers : file[p] = n /\ Delivers(p, "webhook"))

FairSpec == Spec /\ Fairness

-----------------------------------------------------------------------------
\* Properties.

Closed(r) == <<r, "recovered">> \in made \/ <<r, "notification">> \in made

\* An outage is paged once: of the references made for an event, at most one
\* belongs to an incident that has not been closed (read_json of the incident
\* and its creation, under the lock).
OnePagePerOutage ==
    \A r, s \in Refs :
        /\ refEvent[r] # None /\ refEvent[r] = refEvent[s]
        /\ ~Closed(r) /\ ~Closed(s)
        => r = s

Kept(n) == \A ch \in Channels : ch \in outbox[n] \/ <<n, ch>> \in sent

\* A notification stays with the relay until each channel has taken it, unless
\* its call died before it reached the outbox (attempt_outbox removes a file
\* that both channels share).
NoticeKept ==
    \A n \in made \ unqueued :
        Kept(n) \/ \E p \in Callers : pc[p] = "queue" /\ file[p] = n

\* A channel is handed a notification twice only when the program could not
\* know of the first time: the attempt was killed between the delivery and its
\* record, or the answer was lost.
OnceUnlessDoubtful == again \subseteq doubtful

Book == INSTANCE IncidentBook WITH
    open <- incident, given <- refEvent, announced <- made, arrived <- sent

\* Whatever the interleaving, the kills and the lost answers, the incident files
\* and the deliveries behave as IncidentBook says: one incident per outage,
\* closed under its own reference, and nothing arrives that was not announced.
KeepsTheBook == Book!Spec

\* The channels are independent: what waits for the webhook is delivered to it,
\* whatever becomes of the mail.
WebhookDelivered ==
    \A n \in Notices :
        "webhook" \in outbox[n] ~> <<n, "webhook">> \in sent
=============================================================================
