------------------------------- MODULE Watch -------------------------------
(***************************************************************************)
(* Who pages the administrator.  Three loops of relay-supervisor.sh open   *)
(* and close the same incidents from what each of them sees: the token     *)
(* loop every five minutes, the rotation loop once a day (it also renews   *)
(* the inbound STARTTLS certificate, rotate-inbound-tls.sh), and           *)
(* verify-relay.sh once an hour, which first reads everything and reports  *)
(* at the end, minutes later.  The incidents that only the verifier writes *)
(* (the listener, the OAuth certificate's expiry, the age of the CA        *)
(* bundle, the queue, the probes) are left out.                            *)
(*                                                                         *)
(* A call of alert.sh opens an incident that is not open or closes one     *)
(* that is, as IncidentBook says, and changes nothing otherwise.  Time is  *)
(* counted in passes of the token loop: each takes one unit of the life of *)
(* the token.                                                              *)
(***************************************************************************)
EXTENDS Integers

CONSTANTS
    Lifetime,       \* the life of a new token
    MinRemaining,   \* --min-remaining 1800 of the token loop
    Comfort,        \* the 900 s of verify-relay.sh
    AlertAfter,     \* MAIL_TOKEN_ALERT_AFTER
    Faults          \* what may go wrong in all (a bound)

ASSUME LivesOrdered ==
    /\ Lifetime \in Nat /\ MinRemaining \in Nat /\ Comfort \in Nat
    /\ 0 < Comfort /\ Comfort < MinRemaining /\ MinRemaining <= Lifetime
ASSUME AlertsInTime == AlertAfter \in Nat /\ 0 < AlertAfter /\ AlertAfter < MinRemaining
ASSUME FaultsAreNatural == Faults \in Nat

VARIABLES
    entra,      \* Entra mints tokens
    graph,      \* a rotation run would succeed
    generator,  \* a certificate can be generated and written
    tls,        \* MAIL_INBOUND_TLS: off, a mounted certificate, or a managed one
    inbound,    \* the inbound certificate: "far" from expiry, in the renewal
                \* "window" (365 days), "near" expiry (30 days), or "renewed"
    postfix,    \* "starting" or "running"
    served,     \* the inbound certificate Postfix was last told to read
    tpc, life, failures,    \* the token loop, its token, its local counter
    rpc, last,              \* the rotation loop; the last line of its log
    vpc, bad,               \* the verifier; the categories it found failing
    open,       \* incidents/*.json
    faults,     \* faults so far
    restarted,  \* history: the counter was lost in the present outage
    hasty,      \* history: the verifier closed token-health on an old reading
    cut         \* history: a renewal died, or failed, before it told Postfix

world == <<entra, graph, generator, tls>>
server == <<inbound, postfix, served, cut>>
token == <<tpc, life, failures, restarted>>
rotation == <<rpc, last>>
verifier == <<vpc, bad>>
vars == <<world, server, token, rotation, verifier, open, faults, hasty>>

Categories == {"token", "rotation"}
category_event == [token |-> "token-health", rotation |-> "oauth-rotation-health"]
Events == {category_event[c] : c \in Categories}
          \cup {"inbound-tls-health", "inbound-tls-expiring"}
RotationPCs == {"tls", "swap", "status", "renewed", "tlsFailed", "tlsDone",
                "oauth", "oauthFailed", "oauthDone"}
\* verify-relay.sh, in the order of the script.
After == [files |-> "inbound", inbound |-> "log", log |-> "token",
          token |-> "rotation", rotation |-> "files"]

TypeOK ==
    /\ entra \in BOOLEAN /\ graph \in BOOLEAN /\ generator \in BOOLEAN
    /\ tls \in {"off", "byo", "managed"}
    /\ inbound \in {"far", "window", "near", "renewed"}
    /\ postfix \in {"starting", "running"} /\ served \in {"none", "old", "new"}
    /\ tpc \in {"refresh", "good", "bad", "check"}
    /\ life \in 0 .. Lifetime /\ failures \in 0 .. AlertAfter + 1
    /\ rpc \in RotationPCs /\ last \in {"FAILED", "other"}
    /\ vpc \in DOMAIN After /\ bad \subseteq Categories
    /\ open \subseteq Events /\ faults \in 0 .. Faults
    /\ restarted \in BOOLEAN /\ hasty \in BOOLEAN /\ cut \in BOOLEAN

\* A relay that has just started, with a token, and no incident.
Init ==
    /\ entra = TRUE /\ graph = TRUE /\ generator = TRUE
    /\ tls \in {"off", "byo", "managed"} /\ inbound = "far"
    /\ postfix = "starting" /\ served = "none"
    /\ tpc = "refresh" /\ life = Lifetime /\ failures = 0
    /\ rpc = "tls" /\ last = "other"
    /\ vpc = "files" /\ bad = {}
    /\ open = {} /\ faults = 0
    /\ restarted = FALSE /\ hasty = FALSE /\ cut = FALSE

Alert(event, sick) == open' = IF sick THEN open \cup {event} ELSE open \ {event}

-----------------------------------------------------------------------------
\* run_token_loop.

TokenStep(next) == tpc' = next /\ UNCHANGED <<world, server, rotation, verifier, faults>>

\* A token with enough life is not minted again.
RefreshWorks ==
    /\ tpc = "refresh" /\ (life >= MinRemaining \/ entra)
    /\ life' = IF life >= MinRemaining THEN life ELSE Lifetime
    /\ restarted' = (restarted /\ life >= MinRemaining)
    /\ failures' = 0
    /\ TokenStep("good")
    /\ UNCHANGED <<open, hasty>>

RefreshFails ==
    /\ tpc = "refresh" /\ life < MinRemaining /\ ~entra
    /\ failures' = IF failures <= AlertAfter THEN failures + 1 ELSE failures
    /\ TokenStep("bad")
    /\ UNCHANGED <<life, restarted, open, hasty>>

ReportGood ==
    /\ tpc = "good"
    /\ Alert("token-health", FALSE)
    /\ hasty' = FALSE
    /\ TokenStep("check")
    /\ UNCHANGED <<life, failures, restarted>>

\* Mutant: the threshold is compared for equality.
ReportBadOnce ==
    /\ tpc = "bad"
    /\ IF failures = AlertAfter
         THEN Alert("token-health", TRUE) /\ hasty' = FALSE
         ELSE UNCHANGED <<open, hasty>>
    /\ TokenStep("check")
    /\ UNCHANGED <<life, failures, restarted>>

ReportBad ==
    /\ tpc = "bad"
    /\ IF failures >= AlertAfter
         THEN Alert("token-health", TRUE) /\ hasty' = FALSE
         ELSE UNCHANGED <<open, hasty>>
    /\ TokenStep("check")
    /\ UNCHANGED <<life, failures, restarted>>

\* Mutant: the life of a token goes on falling after its end.
AgePastZero == IF life = 0 THEN Lifetime + 1 ELSE life - 1

Age == IF life = 0 THEN 0 ELSE life - 1

\* --recover, and the sleep.  While the token is not fresh the check may write to
\* the log of the rotation, and never a failure.
PassEnds ==
    /\ tpc = "check"
    /\ last' \in IF life > Comfort THEN {last} ELSE {last, "other"}
    /\ life' = Age
    /\ tpc' = "refresh"
    /\ UNCHANGED <<world, server, failures, restarted, rpc, verifier, open, faults, hasty>>

-----------------------------------------------------------------------------
\* run_rotation_loop, first rotate-inbound-tls.sh.

RotationStep(next) == rpc' = next /\ UNCHANGED <<world, token, verifier, faults, hasty>>

Due == inbound \in {"window", "near"}

TlsOff ==
    /\ rpc = "tls" /\ tls = "off"
    /\ RotationStep("tlsDone")
    /\ UNCHANGED <<server, last, open>>

TlsNotDue ==
    /\ rpc = "tls" /\ tls # "off" /\ ~Due
    /\ Alert("inbound-tls-expiring", FALSE)
    /\ RotationStep("tlsDone")
    /\ UNCHANGED <<server, last>>

\* A mounted certificate is its owner's to renew.
TlsOthers ==
    /\ rpc = "tls" /\ tls = "byo" /\ Due
    /\ Alert("inbound-tls-expiring", TRUE)
    /\ RotationStep("tlsDone")
    /\ UNCHANGED <<server, last>>

\* The new certificate, with the old key, is staged and validated beside it.
TlsStage ==
    /\ rpc = "tls" /\ tls = "managed" /\ Due
    /\ RotationStep(IF generator THEN "swap" ELSE "tlsFailed")
    /\ UNCHANGED <<server, last, open>>

TlsSwap ==
    /\ rpc = "swap"
    /\ inbound' = "renewed"
    /\ RotationStep("status")
    /\ UNCHANGED <<postfix, served, cut, last, open>>

\* Mutant: Postfix is told of a certificate that is not there yet.
TlsReloadBefore ==
    /\ rpc = "status"
    /\ RotationStep("renewed")
    /\ UNCHANGED <<server, last, open>>

\* A Postfix that is not running yet will read the new file when it starts.
TlsReload ==
    /\ rpc = "status"
    /\ served' = IF postfix = "running" THEN "new" ELSE served
    /\ RotationStep("renewed")
    /\ UNCHANGED <<inbound, postfix, cut, last, open>>

\* set -e: the certificate stays, and the run counts as failed.
TlsReloadFails ==
    /\ rpc = "status" /\ postfix = "running" /\ faults < Faults
    /\ faults' = faults + 1 /\ cut' = TRUE /\ rpc' = "tlsFailed"
    /\ UNCHANGED <<world, inbound, postfix, served, token, last, verifier, open, hasty>>

TlsRenewed ==
    /\ rpc = "renewed"
    /\ Alert("inbound-tls-expiring", FALSE)
    /\ RotationStep("tlsDone")
    /\ UNCHANGED <<server, last>>

ReportTls ==
    /\ rpc \in {"tlsFailed", "tlsDone"}
    /\ Alert("inbound-tls-health", rpc = "tlsFailed")
    /\ RotationStep("oauth")
    /\ UNCHANGED <<server, last>>

\* rotate-smtp-relay-cert.py.  A run that is not due, or does its work, ends
\* with "ok"; one that fails may end with "FAILED", with a note after it (an
\* abandon), or with an exception and no line at all.
RotateWorks ==
    /\ rpc = "oauth" /\ graph
    /\ last' = "other"
    /\ RotationStep("oauthDone")
    /\ UNCHANGED <<server, open>>

RotateFails ==
    /\ rpc = "oauth" /\ ~graph
    /\ last' \in {last, "FAILED", "other"}
    /\ RotationStep("oauthFailed")
    /\ UNCHANGED <<server, open>>

ReportRotation ==
    /\ rpc \in {"oauthFailed", "oauthDone"}
    /\ Alert("oauth-rotation-health", rpc = "oauthFailed")
    /\ RotationStep("tls")
    /\ UNCHANGED <<server, last>>

-----------------------------------------------------------------------------
\* verify-relay.sh.

Verify(step) ==
    /\ vpc = step /\ vpc' = After[step]
    /\ UNCHANGED <<world, server, token, rotation, faults>>

VerifyFiles ==
    /\ Verify("files")
    /\ bad' = IF life <= Comfort THEN {"token"} ELSE {}
    /\ UNCHANGED <<open, hasty>>

\* Mutant: nothing is done for an inbound TLS that is off.
VerifyInboundOn ==
    /\ Verify("inbound")
    /\ IF tls = "off" THEN UNCHANGED open ELSE Alert("inbound-tls-expiring", inbound = "near")
    /\ UNCHANGED <<bad, hasty>>

\* Mutant: the window of the renewal, asked the wrong way round.
VerifyInboundFar ==
    /\ Verify("inbound")
    /\ Alert("inbound-tls-expiring", tls # "off" /\ inbound = "window")
    /\ UNCHANGED <<bad, hasty>>

\* Reported at once; what inbound TLS warned of is over when it is off.
VerifyInbound ==
    /\ Verify("inbound")
    /\ Alert("inbound-tls-expiring", tls # "off" /\ inbound = "near")
    /\ UNCHANGED <<bad, hasty>>

VerifyLog ==
    /\ Verify("log")
    /\ bad' = IF last = "FAILED" THEN bad \cup {"rotation"} ELSE bad
    /\ UNCHANGED <<open, hasty>>

\* What was read is reported after the probes, one category after the other.
VerifyReport(category) ==
    /\ Verify(category)
    /\ Alert(category_event[category], category \in bad)
    /\ hasty' = IF category = "token"
                  THEN category \notin bad /\ (hasty \/ life <= Comfort)
                  ELSE hasty
    /\ bad' = IF category = "rotation" THEN {} ELSE bad

-----------------------------------------------------------------------------
\* The world.

Fault == faults < Faults /\ faults' = faults + 1

EntraFails ==
    /\ entra /\ Fault /\ entra' = FALSE
    /\ UNCHANGED <<graph, generator, tls, server, token, rotation, verifier, open, hasty>>

GraphFails ==
    /\ graph /\ Fault /\ graph' = FALSE
    /\ UNCHANGED <<entra, generator, tls, server, token, rotation, verifier, open, hasty>>

GeneratorFails ==
    /\ generator /\ Fault /\ generator' = FALSE
    /\ UNCHANGED <<entra, graph, tls, server, token, rotation, verifier, open, hasty>>

\* What fails may work again.
Mends ==
    /\ \/ entra' = TRUE /\ UNCHANGED <<graph, generator>>
       \/ graph' = TRUE /\ UNCHANGED <<entra, generator>>
       \/ generator' = TRUE /\ UNCHANGED <<entra, graph>>
    /\ UNCHANGED <<tls, server, token, rotation, verifier, open, faults, hasty>>

InboundAges ==
    /\ inbound \in {"far", "window"} /\ tls # "off" /\ Fault
    /\ inbound' = IF inbound = "far" THEN "window" ELSE "near"
    /\ UNCHANGED <<world, postfix, served, cut, token, rotation, verifier, open, hasty>>

PostfixStarts ==
    /\ postfix = "starting" /\ postfix' = "running"
    /\ served' = IF inbound = "renewed" THEN "new" ELSE "old"
    /\ UNCHANGED <<world, inbound, cut, token, rotation, verifier, open, faults, hasty>>

\* The supervisor restarts a role; what its process knew is gone.
TokenDies ==
    /\ Fault
    /\ tpc' = "refresh" /\ failures' = 0 /\ restarted' = TRUE
    /\ UNCHANGED <<world, server, life, rotation, verifier, open, hasty>>

RotationDies ==
    /\ Fault
    /\ rpc' = "tls" /\ cut' = (cut \/ rpc = "status")
    /\ UNCHANGED <<world, inbound, postfix, served, token, last, verifier, open, hasty>>

VerifierDies ==
    /\ Fault
    /\ vpc' = "files" /\ bad' = {}
    /\ UNCHANGED <<world, server, token, rotation, open, hasty>>

\* The container is recreated, perhaps with inbound TLS switched off.  /run is a
\* tmpfs: the entrypoint mints a token first, if it can.
Restarts ==
    /\ Fault
    /\ tls' \in {tls, "off"}
    /\ postfix' = "starting" /\ served' = "none" /\ cut' = FALSE
    /\ life' = IF entra THEN Lifetime ELSE 0
    /\ tpc' = "refresh" /\ failures' = 0 /\ restarted' = TRUE
    /\ rpc' = "tls" /\ vpc' = "files" /\ bad' = {}
    /\ UNCHANGED <<entra, graph, generator, inbound, last, open, hasty>>

-----------------------------------------------------------------------------
TokenLoop == RefreshWorks \/ RefreshFails \/ ReportGood \/ ReportBad \/ PassEnds
RotationLoop ==
    \/ TlsOff \/ TlsNotDue \/ TlsOthers \/ TlsStage \/ TlsSwap \/ TlsReload
    \/ TlsReloadFails \/ TlsRenewed \/ ReportTls \/ RotateWorks \/ RotateFails \/ ReportRotation
VerifyLoop ==
    \/ VerifyFiles \/ VerifyInbound \/ VerifyLog
    \/ \E category \in Categories : VerifyReport(category)
World ==
    \/ EntraFails \/ GraphFails \/ GeneratorFails \/ Mends \/ InboundAges
    \/ PostfixStarts \/ TokenDies \/ RotationDies \/ VerifierDies \/ Restarts

Next == TokenLoop \/ RotationLoop \/ VerifyLoop \/ World

Spec == Init /\ [][Next]_vars

\* The supervisor keeps the loops going and Postfix starts.  Nothing is assumed
\* of Entra, of the certificates, or of the order of the loops.
Fairness ==
    /\ WF_vars(TokenLoop) /\ WF_vars(RotationLoop) /\ WF_vars(VerifyLoop)
    /\ WF_vars(PostfixStarts)

FairSpec == Spec /\ Fairness

-----------------------------------------------------------------------------
\* Properties.

\* The administrator is paged before the last token dies: the refreshes that
\* fail on the way reach MAIL_TOKEN_ALERT_AFTER, and what the verifier closes
\* while the token still looks fine is opened again (run_token_loop against
\* verify-relay.sh:66), unless the loop lost its count in this outage or the
\* verifier reported a reading that was no longer true.
PagedBeforeDead ==
    (life = 0 /\ tpc = "refresh") => "token-health" \in open \/ restarted \/ hasty

\* A renewal that is over is what devices are served, whether Postfix was
\* running or starting meanwhile (rotate-inbound-tls.sh:61-71), unless it died
\* between the rename and the reload or the reload failed.
RenewedIsServed ==
    (postfix = "running" /\ rpc # "status" /\ ~cut) =>
        (served = "new" <=> inbound = "renewed")

Well(event) ==
    CASE event = "token-health" -> entra
      [] event = "oauth-rotation-health" -> graph
      [] event = "inbound-tls-health" -> generator \/ tls # "managed" \/ ~Due
      [] event = "inbound-tls-expiring" -> tls = "off" \/ ~Due

\* Whatever opened an incident, the others' stale readings and the restarts
\* included, once its cause is gone for good it is closed and stays closed.
HealedIsQuiet ==
    \A event \in Events : <>[]Well(event) => <>[](event \notin open)

\* A trouble that lasts is on record for good.  The rotation's is opened again
\* and again: the verifier closes it when the last line of the log is a note.
SickIsPaged ==
    /\ <>[]~entra => <>[]("token-health" \in open)
    /\ <>[](tls = "byo" /\ inbound = "near") => <>[]("inbound-tls-expiring" \in open)
    /\ <>[](tls = "managed" /\ Due /\ ~generator) => <>[]("inbound-tls-health" \in open)
    /\ <>[]~graph => []<>("oauth-rotation-health" \in open)
=============================================================================
