----------------------------- MODULE Supervisor -----------------------------
(***************************************************************************)
(* PID 1 of the container, relay-supervisor.sh: a bash process that starts *)
(* Postfix and the other roles, waits for one to die, restarts it after a  *)
(* backoff or, when it is Postfix, ends the container, and on TERM stops   *)
(* them all. Each role but Postfix is a shell (its leader) in a process    *)
(* group of its own, in which it runs one program or sleep at a time (a    *)
(* helper). What those programs do is in Rotation, Recovery and            *)
(* AlertEvent; here they only run, end and are killed.                     *)
(***************************************************************************)
EXTENDS Naturals, Sequences, FiniteSets

CONSTANTS
  Order,      \* the roles, in the order they are started
  Postfix,    \* the one whose death ends the container
  MaxDeaths   \* a bound: the roles that die unasked in one behaviour

Roles == {Order[i] : i \in 1..Len(Order)}

ASSUME OrderAssumption ==
  /\ Order \in Seq(Roles) /\ Postfix \in Roles
  /\ \A i, j \in 1..Len(Order) : Order[i] = Order[j] => i = j
ASSUME DeathsAssumption == MaxDeaths \in Nat

VARIABLES
  pc,        \* where the supervisor is
  next,      \* the place in Order of the next role to start at boot
  role,      \* the role being started or restarted
  known,     \* role_by_pid: the roles whose present process it knows
  status,    \* the exit status of the last wait
  exitCode,
  stopping,
  term,      \* the TERM of docker stop: not sent, pending, or its trap has run
  left,      \* the roles the last loop has still to wait for
  leader,    \* each role's process: not yet started, forked, starting in its
             \* group, up, dead
  helper,    \* each role's helpers: of its own group, of one it no longer leads
  termed,    \* the roles whose process has been sent TERM
  unheard,   \* the deaths that `wait -n` has still to report, by kind
  forgot,    \* history: bash forgot a death instead of reporting it
  cut,       \* history: the trap interrupted the last loop
  deaths

shell == <<pc, next, role, known, status, exitCode, stopping, left>>
processes == <<leader, helper, termed>>
vars == <<shell, term, processes, unheard, forgot, cut, deaths>>

Kinds == {"clean", "failed", "killed"}
Locations == {"boot", "forked", "wait", "scan", "reap", "backoff", "respawn",
              "final", "exited"}

Alive == {r \in Roles : leader[r] \in {"forked", "starting", "up"}}
Dead == {r \in known : leader[r] = "dead"}

\* `status` as the shell sees it: zero, or not.
StatusOf(kind) == IF kind = "clean" THEN 0 ELSE 1

Init ==
  /\ pc = "boot" /\ next = 1 /\ role = Postfix
  /\ known = {} /\ left = {}
  /\ status = 0 /\ exitCode = 0 /\ stopping = FALSE
  /\ term = "none"
  /\ leader = [r \in Roles |-> "none"]
  /\ helper = [r \in Roles |-> {}]
  /\ termed = {}
  /\ unheard = [k \in Kinds |-> 0]
  /\ forgot = FALSE /\ cut = FALSE /\ deaths = 0

-----------------------------------------------------------------------------
(* The roles' processes.                                                   *)

\* `setsid` has run: the process now leads a group that can be signalled, and
\* is the script once more, read from its first line. Postfix is just there.
Setsid(r) ==
  /\ leader[r] = "forked"
  /\ leader' = [leader EXCEPT ![r] = IF r = Postfix THEN "up" ELSE "starting"]
  /\ UNCHANGED <<shell, term, helper, termed, unheard, forgot, cut, deaths>>

\* The role has set its own trap, or has become its program, and runs its loop.
EntersLoop(r) ==
  /\ leader[r] = "starting"
  /\ leader' = [leader EXCEPT ![r] = "up"]
  /\ UNCHANGED <<shell, term, helper, termed, unheard, forgot, cut, deaths>>

\* The role's loop starts a program, or the sleep between two passes.
RunsHelper(r) ==
  /\ r # Postfix /\ leader[r] = "up" /\ r \notin termed
  /\ helper' = [helper EXCEPT ![r] = @ \cup {"own"}]
  /\ UNCHANGED <<shell, term, leader, termed, unheard, forgot, cut, deaths>>

HelperEnds(r) ==
  /\ \E h \in helper[r] : helper' = [helper EXCEPT ![r] = @ \ {h}]
  /\ UNCHANGED <<shell, term, leader, termed, unheard, forgot, cut, deaths>>

\* The leader ends; what it was running goes on without it.
Ends(r, kind) ==
  /\ leader' = [leader EXCEPT ![r] = "dead"]
  /\ unheard' = [unheard EXCEPT ![kind] = @ + 1]
  /\ UNCHANGED <<shell, term, helper, termed, forgot, cut>>

Dies(r) ==
  /\ r \in Alive \ termed /\ deaths < MaxDeaths
  /\ deaths' = deaths + 1
  /\ \E kind \in Kinds : Ends(r, kind)

\* A TERM that comes while the role still has PID 1's trap (170) makes it run
\* `shutdown`, which finds no roles, and then go on to its endless loop.
Swallows(r) ==
  /\ leader[r] = "starting" /\ r \in termed
  /\ termed' = termed \ {r}
  /\ UNCHANGED <<shell, term, leader, helper, unheard, forgot, cut, deaths>>

\* The TERM it was sent takes effect: through its trap, or before it has one.
TermEnds(r) ==
  /\ r \in Alive \cap termed
  /\ \E kind \in {"clean", "killed"} : Ends(r, kind)
  /\ UNCHANGED deaths

\* A script's bash may put a background job that a signal ended on its list of
\* reported jobs when it runs any other command, and `wait -n` then skips it.
Forgets ==
  /\ pc \notin {"wait", "final", "exited"} /\ unheard["killed"] > 0
  /\ unheard' = [unheard EXCEPT !["killed"] = @ - 1]
  /\ forgot' = TRUE
  /\ UNCHANGED <<shell, term, processes, cut, deaths>>

-----------------------------------------------------------------------------
(* The supervisor.                                                         *)

\* The `&` of spawn. A helper the last group left behind is now nobody's.
Fork(r) ==
  /\ role' = r /\ pc' = "forked"
  /\ leader' = [leader EXCEPT ![r] = "forked"]
  /\ helper' = [helper EXCEPT ![r] = IF @ = {} THEN {} ELSE {"stray"}]
  /\ termed' = termed \ {r}
  /\ UNCHANGED <<known, status, exitCode, stopping, left, term, unheard, forgot,
                 cut, deaths>>

BootSpawn ==
  /\ pc = "boot" /\ next <= Len(Order)
  /\ next' = next + 1
  /\ Fork(Order[next])

\* The rest of spawn: the process is entered in the tables.
Register ==
  /\ pc = "forked"
  /\ known' = known \cup {role}
  /\ pc' = IF next <= Len(Order) THEN "boot" ELSE "wait"
  /\ UNCHANGED <<next, role, status, exitCode, stopping, left, term, processes,
                 unheard, forgot, cut, deaths>>

\* The main loop's condition, read by every step that comes back to it.
Leave == pc' = "final" /\ left' = known

StoppedAtTop ==
  /\ pc = "wait" /\ stopping
  /\ Leave
  /\ UNCHANGED <<next, role, known, status, exitCode, stopping, term, processes,
                 unheard, forgot, cut, deaths>>

\* Mutant: a wait that returns though no child has died.
WaitAnything ==
  /\ pc = "wait" /\ ~stopping
  /\ \E kind \in Kinds :
       /\ unheard' = [unheard EXCEPT ![kind] = @ - 1]
       /\ status' = StatusOf(kind)
  /\ pc' = "scan"
  /\ UNCHANGED <<next, role, known, exitCode, stopping, left, term, processes,
                 forgot, cut, deaths>>

WaitAny ==
  /\ pc = "wait" /\ ~stopping
  /\ \E kind \in Kinds :
       /\ unheard[kind] > 0
       /\ unheard' = [unheard EXCEPT ![kind] = @ - 1]
       /\ status' = StatusOf(kind)
  /\ pc' = "scan"
  /\ UNCHANGED <<next, role, known, exitCode, stopping, left, term, processes,
                 forgot, cut, deaths>>

\* Mutant: every dead role leaves the tables, though only one is restarted.
ScanDropsAll ==
  /\ pc = "scan" /\ ~stopping
  /\ IF Dead = {} THEN pc' = "wait" /\ UNCHANGED <<role, known>>
     ELSE /\ role' \in Dead
          /\ known' = known \ Dead
          /\ pc' = "reap"
  /\ UNCHANGED <<next, status, exitCode, stopping, left, term, processes,
                 unheard, forgot, cut, deaths>>

\* Any dead role the tables hold, not the one whose death was reported.
Scan ==
  /\ pc = "scan" /\ ~stopping
  /\ IF Dead = {} THEN pc' = "wait" /\ UNCHANGED <<role, known>>
     ELSE /\ role' \in Dead
          /\ known' = known \ {role'}
          /\ pc' = "reap"
  /\ UNCHANGED <<next, status, exitCode, stopping, left, term, processes,
                 unheard, forgot, cut, deaths>>

StoppedAtScan ==
  /\ pc = "scan" /\ stopping
  /\ Leave
  /\ UNCHANGED <<next, role, known, status, exitCode, stopping, term, processes,
                 unheard, forgot, cut, deaths>>

\* Mutant: only the shell of a role is signalled, not its group.
StopLeaders ==
  /\ stopping' = TRUE
  /\ termed' = termed \cup {r \in known : r = Postfix \/ leader[r] \in {"starting", "up"}}
  /\ UNCHANGED helper

\* Postfix is sent TERM by its pid; another role by its group, which exists
\* once it has run setsid, and whose helpers get the signal too.
StopChildren ==
  /\ stopping' = TRUE
  /\ termed' = termed \cup {r \in known : r = Postfix \/ leader[r] \in {"starting", "up"}}
  /\ helper' = [r \in Roles |-> IF r \in known \ {Postfix}
                                THEN helper[r] \ {"own"} ELSE helper[r]]

\* Mutant: the container exits with whatever status the last wait returned.
PostfixGoneAsIs ==
  /\ pc = "reap" /\ role = Postfix
  /\ exitCode' = status
  /\ IF stopping THEN UNCHANGED <<stopping, termed, helper>> ELSE StopChildren
  /\ Leave
  /\ UNCHANGED <<next, role, known, status, term, leader, unheard, forgot, cut,
                 deaths>>

\* Postfix is gone: the container exits with its status, or 1.
PostfixGone ==
  /\ pc = "reap" /\ role = Postfix
  /\ exitCode' = IF status # 0 THEN status ELSE 1
  /\ IF stopping THEN UNCHANGED <<stopping, termed, helper>> ELSE StopChildren
  /\ Leave
  /\ UNCHANGED <<next, role, known, status, term, leader, unheard, forgot, cut,
                 deaths>>

\* Mutant: the replacement is created beside what the dead role left running.
KeepGroup ==
  /\ pc = "reap" /\ role # Postfix
  /\ pc' = "backoff"
  /\ UNCHANGED <<next, role, known, status, exitCode, stopping, left, term,
                 leader, helper, termed, unheard, forgot, cut, deaths>>

\* Mutant: a role that ended with status 0 is taken to be finished.
RestartFailed ==
  /\ pc = "reap" /\ role # Postfix
  /\ helper' = [helper EXCEPT ![role] = @ \ {"own"}]
  /\ pc' = IF status = 0 THEN "wait" ELSE "backoff"
  /\ UNCHANGED <<next, role, known, status, exitCode, stopping, left, term,
                 leader, termed, unheard, forgot, cut, deaths>>

\* What is left of the dead role's group is killed before it is replaced.
KillGroup ==
  /\ pc = "reap" /\ role # Postfix
  /\ helper' = [helper EXCEPT ![role] = @ \ {"own"}]
  /\ pc' = "backoff"
  /\ UNCHANGED <<next, role, known, status, exitCode, stopping, left, term,
                 leader, termed, unheard, forgot, cut, deaths>>

\* Mutant: the role is restarted whether or not a stop came in the backoff.
BackoffIgnoresStop ==
  /\ pc = "backoff"
  /\ pc' = "respawn"
  /\ UNCHANGED <<next, role, known, status, exitCode, stopping, left, term,
                 processes, unheard, forgot, cut, deaths>>

\* The backoff is over, or TERM has interrupted it.
BackoffEnds ==
  /\ pc = "backoff"
  /\ IF stopping THEN Leave ELSE pc' = "respawn" /\ UNCHANGED left
  /\ UNCHANGED <<next, role, known, status, exitCode, stopping, term, processes,
                 unheard, forgot, cut, deaths>>

Respawn ==
  /\ pc = "respawn"
  /\ Fork(role)
  /\ UNCHANGED next

\* The trap, between two commands or in a wait, which it ends: the steps above
\* read `stopping` next. The instant between the loop's test and its wait is
\* taken to belong to the wait.
Trap ==
  /\ term = "pending" /\ ~stopping /\ pc # "exited"
  /\ term' = "handled"
  /\ StopChildren
  /\ UNCHANGED <<pc, next, role, known, status, exitCode, left, leader, unheard,
                 forgot, cut, deaths>>

\* Already stopping: the trap returns at once, but it has ended one wait.
TrapAgain ==
  /\ term = "pending" /\ stopping /\ pc # "exited"
  /\ term' = "handled"
  /\ IF pc = "final" /\ left # {}
     THEN /\ \E r \in left : left' = left \ {r}
          /\ cut' = TRUE
     ELSE UNCHANGED <<left, cut>>
  /\ UNCHANGED <<pc, next, role, known, status, exitCode, stopping, processes,
                 unheard, forgot, deaths>>

\* The last loop waits for one role after another, without a limit.
WaitLast ==
  /\ pc = "final"
  /\ \E r \in left : leader[r] = "dead" /\ left' = left \ {r}
  /\ UNCHANGED <<pc, next, role, known, status, exitCode, stopping, term,
                 processes, unheard, forgot, cut, deaths>>

Exit ==
  /\ pc = "final" /\ left = {}
  /\ pc' = "exited"
  /\ UNCHANGED <<next, role, known, status, exitCode, stopping, left, term,
                 processes, unheard, forgot, cut, deaths>>

-----------------------------------------------------------------------------
\* docker stop.
SendTerm ==
  /\ term = "none" /\ pc # "exited"
  /\ term' = "pending"
  /\ UNCHANGED <<shell, processes, unheard, forgot, cut, deaths>>

Supervise ==
  \/ BootSpawn \/ Register \/ StoppedAtTop \/ WaitAny \/ Scan \/ StoppedAtScan
  \/ PostfixGone \/ KillGroup \/ BackoffEnds \/ Respawn
  \/ Trap \/ TrapAgain \/ WaitLast \/ Exit

Next ==
  \/ Supervise
  \/ SendTerm
  \/ Forgets
  \/ \E r \in Roles : \/ Setsid(r) \/ EntersLoop(r) \/ RunsHelper(r)
                      \/ HelperEnds(r) \/ Dies(r) \/ Swallows(r) \/ TermEnds(r)

Spec == Init /\ [][Next]_vars

(* The supervisor goes on; a new process reaches setsid and its loop, and one
   that was sent TERM and has not swallowed it ends (bash by its trap, Postfix
   by stopping). Nothing makes a role die, a helper end or a TERM come. *)
FairSpec ==
  /\ Spec
  /\ WF_vars(Supervise) /\ WF_vars(Trap) /\ WF_vars(TrapAgain)
  /\ \A r \in Roles : WF_vars(Setsid(r)) /\ WF_vars(EntersLoop(r)) /\ WF_vars(TermEnds(r))

-----------------------------------------------------------------------------
(* Properties.                                                             *)

\* The tables, the processes and the counters have their shapes.
TypeOK ==
  /\ pc \in Locations /\ next \in 1..Len(Order) + 1
  /\ role \in Roles /\ known \subseteq Roles /\ left \subseteq Roles
  /\ status \in {0, 1} /\ exitCode \in {0, 1}
  /\ stopping \in BOOLEAN /\ forgot \in BOOLEAN /\ cut \in BOOLEAN
  /\ term \in {"none", "pending", "handled"}
  /\ leader \in [Roles -> {"none", "forked", "starting", "up", "dead"}]
  /\ helper \in [Roles -> SUBSET {"own", "stray"}]
  /\ termed \subseteq Roles
  /\ unheard \in [Kinds -> Nat]
  /\ deaths \in 0..MaxDeaths

\* No program of a dead role's group still runs when the role is started again
\* (lines 203-206): two rotations, or two sleeps, never run side by side.
NoStray == \A r \in Roles : "stray" \notin helper[r]

\* While the supervisor waits and bash has forgotten nothing, every role is in
\* its tables and every dead one has a death left for `wait -n` to report, even
\* though the scan (192-195) restarts any dead role and not the one reported.
EveryRoleWatched ==
  pc = "wait" /\ ~stopping /\ ~forgot =>
    /\ known = Roles
    /\ Cardinality(Dead) <= unheard["clean"] + unheard["failed"] + unheard["killed"]

\* A container that ends without being stopped exits nonzero, whatever status
\* the wait returned (200), so that a restart policy starts it again.
UnaskedExitFails == pc = "exited" /\ term = "none" => exitCode # 0

\* PID 1 exits after every role's process, and leaves nothing of the groups it
\* has signalled (166), unless a TERM came while it already waited for the end
\* (215). A role that the signal missed, forked but not yet in its group, or
\* that swallowed it, is waited for; what it runs is not covered.
NothingOutlivesPid1 ==
  pc = "exited" /\ ~cut => Alive = {} /\ \A r \in termed : helper[r] = {}

\* A role whose death bash does not forget is started again, unless the relay
\* is stopping (186-213).
ComesBack ==
  \A r \in Roles :
    (leader[r] = "dead") ~> (leader[r] # "dead" \/ stopping \/ forgot)

\* A stop that finds every process signalled and in its loop ends the container,
\* also when it comes while a role is about to be restarted (208-212). A role
\* that is only starting may swallow its TERM (170-177), and PID 1 then waits
\* for it for ever (215).
StopEnds ==
  (/\ stopping /\ pc \in {"reap", "backoff", "final"}
   /\ \A r \in Alive : r \in termed /\ leader[r] = "up") ~> (pc = "exited")

\* RUNBOOK.md:202: when Postfix is killed the container exits; the comment at
\* 188-189 says why it must.
PostfixDeathStopsRelay == (leader[Postfix] = "dead") ~> stopping

=============================================================================
