------------------------------ MODULE KeyAdmin ------------------------------
(***************************************************************************)
(* rotate-smtp-relay-cert.py --remove-key, which an operator runs by hand  *)
(* beside the rotation loop: it loads the live pair, classifies the key    *)
(* from one directory read and the state file, refuses what is not this    *)
(* instance's to remove, and removes the rest.  No lock keeps it apart     *)
(* from a rotation run.                                                    *)
(*                                                                         *)
(* The entrypoint gives a relay without MAIL_INSTANCE_ID a generated one,  *)
(* and exports it to the loops; what an operator runs by hand knows the    *)
(* identity only if the configuration pins it.                             *)
(***************************************************************************)
EXTENDS Rotation

CONSTANT Commands   \* how many keys an operator removes by hand (a bound)

ASSUME CommandsIsNatural == Commands \in Nat

VARIABLES
    identified, \* BOOLEAN: the configuration pins MAIL_INSTANCE_ID
    unstamped,  \* keys with no inst: stamp in their displayName
    hpc,        \* where the command stands
    hpair,      \* the pair it loaded
    hkey,       \* the key it was given, and --yes or
    overrides,  \* --yes-remove-another-instances-cert (chosen when first used)
    commands,   \* commands so far
    crossed     \* history: keys a command removed while a rotation run was
                \* under way, or had swapped, since it loaded the pair

commandVars == <<identified, hpc, hkey, hpair, overrides, commands, crossed>>
handVars == <<unstamped, commandVars>>
adminVars == <<vars, handVars>>

Keys == Certs \cup Foreign
Overrides == {"none", "yes", "another"}     \* with both, --yes adds nothing

HandTypeOK ==
    /\ TypeOK
    /\ identified \in BOOLEAN /\ unstamped \subseteq Keys
    /\ hpc \in {"idle", "classify", "remove"}
    /\ hkey \in Keys \cup {None} /\ hpair \in Pair
    /\ overrides \in Overrides
    /\ commands \in 0 .. Commands /\ crossed \subseteq Keys

\* The first certificate was uploaded by hand, and perhaps another instance's
\* too.
HandInit ==
    /\ Init
    /\ identified \in BOOLEAN
    /\ unstamped \in {{live.cert}, {live.cert} \cup Foreign}
    /\ hpc = "idle" /\ hkey = None /\ hpair = NoPair /\ overrides = "none"
    /\ commands = 0 /\ crossed = {}

\* Mutant: an encoding of the thumbprint nobody expected.
SameCertificateNever(k, pair) == FALSE

\* credential_thumbprint, whatever encoding Graph used.
SameCertificate(k, pair) == k = pair.cert

\* The stamp says whose a key is, to a command that knows who it is itself.
Comparable(k) == identified /\ k \notin unstamped

StampedByThis(k) == k \in Certs

\* classify_credential.
Classify(k) ==
    IF SameCertificate(k, hpair) THEN "live"
    ELSE IF k = stateFile.rem THEN "retiring"
    ELSE IF ~Comparable(k) THEN "unmonitored"
    ELSE IF StampedByThis(k) THEN "superseded" ELSE "foreign"

\* Mutant: any override will do.
RefusedWithout(owner, given) ==
    \/ owner = "live"
    \/ owner \in {"foreign", "unmonitored"} /\ given = "none"

Refused(owner, given) ==
    \/ owner = "live"
    \/ owner = "foreign" /\ given # "another"
    \/ owner = "unmonitored" /\ given = "none"

HandDone ==
    /\ hpc' = "idle" /\ hkey' = None /\ hpair' = NoPair /\ overrides' = "none"
    /\ UNCHANGED <<identified, unstamped, commands>>

HandStart ==
    /\ hpc = "idle" /\ up /\ Complete(live) /\ commands < Commands
    /\ commands' = commands + 1
    /\ hpair' = live
    /\ hpc' = "classify"
    /\ UNCHANGED <<vars, identified, unstamped, hkey, overrides, crossed>>

\* Without a token, a reply or the key in it there is nothing to do.
HandClassify ==
    /\ hpc = "classify"
    /\ \/ \E k \in Keys, given \in Overrides :
          /\ Accepted(hpair) /\ MayBeSeen(k) /\ ~Refused(Classify(k), given)
          /\ hpc' = "remove" /\ hkey' = k /\ overrides' = given
          /\ UNCHANGED <<identified, unstamped, hpair, commands>>
       \/ HandDone
    /\ UNCHANGED <<vars, crossed>>

\* remove_key; the reads that confirm it only decide what is reported.
HandRemove ==
    /\ hpc = "remove"
    /\ \/ /\ Accepted(hpair) /\ Removing(hkey)
          /\ crossed' = IF pc = "idle" /\ live = hpair THEN crossed ELSE crossed \cup {hkey}
       \/ UNCHANGED <<app, crossed>>
    /\ HandDone
    /\ UNCHANGED <<live, previous, staged, standby, stateFile, token, notice,
                   age, used, up, everLive, elapsed, revoked, torn, rotVars>>

\* A stopped container takes the command with it.
HandStops == hpc # "idle" /\ HandDone /\ UNCHANGED <<vars, crossed>>

Hand == HandStart \/ HandClassify \/ HandRemove \/ HandStops

\* rotation_display_name: a run stamps the key it adds with the identity it
\* knows.  A forced run is an operator's; any other may be.
RunStamps ==
    LET added == {k \in Certs : app[k] = "absent" /\ app'[k] = "adding"}
    IN \/ ~identified /\ unstamped' = unstamped \cup added
       \/ (forced => identified \/ added = {}) /\ UNCHANGED unstamped

Beside == RunStamps /\ UNCHANGED commandVars

AdminNext == Hand \/ (Next /\ Beside)

AdminSpec == HandInit /\ [][AdminNext]_adminVars

\* The fairness of Rotation; the operator owes nothing.
AdminFairness ==
    /\ WF_adminVars(RotationStep /\ Beside)
    /\ WF_adminVars(Boot /\ UNCHANGED rotVars /\ Beside)
    /\ \A k \in Certs : WF_adminVars(Replicate(k) /\ UNCHANGED rotVars /\ Beside)
    /\ SF_adminVars(CleanupPost /\ pc' = "cleanupConfirm" /\ Beside)
    /\ SF_adminVars(CleanupConfirm /\ pc' = "pending" /\ Beside)

FairAdminSpec == AdminSpec /\ AdminFairness

-----------------------------------------------------------------------------
\* Properties.

\* "This instance's own live certificate must be equally undeletable by hand"
\* (rotate-smtp-relay-cert.py:1047): outside the renames it is registered,
\* however keys are removed, unless the command crossed a rotation run.
LiveSurvivesHand ==
    (~torn /\ pc \notin SwapPCs /\ live.cert \notin revoked \cup crossed) =>
        Registered(live.cert)

\* Another instance's key goes only by the override named for it, and by --yes
\* only where ownership cannot be proved: the key has no stamp, or the command
\* no identity to compare it with (tests/test_runtime_python.py:732-736),
\* whatever the rotation does to the registration and the state file meanwhile.
ForeignNeedsOverride ==
    [][\A k \in Foreign : app'[k] = "removing" /\ app[k] # "removing" =>
        /\ hpc = "remove" /\ hkey = k
        /\ \/ overrides = "another"
           \/ overrides = "yes" /\ (k \in unstamped \/ ~identified)]_adminVars
=============================================================================
