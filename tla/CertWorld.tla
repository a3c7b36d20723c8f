----------------------------- MODULE CertWorld -----------------------------
(***************************************************************************)
(* What the certificate programs of the relay share: the secrets directory *)
(* with the live OAuth pair and its neighbours, cert-rotation-state.json,  *)
(* the token file, the upload notice kept by cert-action.sh, and, outside  *)
(* the relay, the Entra app registration that decides which certificates   *)
(* can mint a token.                                                       *)
(*                                                                         *)
(* A certificate, its private key and the keyId Graph gives it are one     *)
(* value: every key the relay adds carries a fresh certificate, and every  *)
(* comparison the code makes (by thumbprint or by keyId) is an equality of *)
(* these values.                                                           *)
(*                                                                         *)
(* The app registration is eventually consistent.  A key is "adding" or    *)
(* "removing" while replicas still disagree about it, and a read or a      *)
(* token request then goes either way; Replicate settles it.               *)
(***************************************************************************)
EXTENDS Integers, FiniteSets

CONSTANTS
    Certs,          \* certificates this instance may generate (a bound)
    Foreign,        \* keys of other instances on the same app registration
    None,           \* no certificate, an absent file, an absent JSON field
    NeedStreak,     \* MAIL_CERT_RECOVERY_FAULT_STREAK
    NeedWait        \* MAIL_CERT_RECOVERY_AFTER_SECONDS, in token-loop passes

ASSUME NoneIsNoCert == None \notin Certs \cup Foreign
ASSUME InstancesAreSeparate == Certs \cap Foreign = {}
ASSUME ThresholdsPositive == NeedStreak \in Nat \ {0} /\ NeedWait \in Nat \ {0}

VARIABLES
    live,       \* the live key and certificate files
    previous,   \* their .pem.previous copies
    staged,     \* their .pem.new staging copies
    standby,    \* their .pem.recovery staging copies
    stateFile,  \* cert-rotation-state.json
    token,      \* the token file: which certificate minted it, what life is left
    notice,     \* the certificate cert-action.sh asks the operator to upload
    app,        \* the app registration, per key
    age,        \* where each certificate stands in its validity
    used,       \* certificates generated so far
    up,         \* the container runs
    everLive,   \* history: certificates that have been the live pair
    elapsed,    \* history: replaced certificates whose grace days are over
    revoked,    \* history: keys an administrator deleted at Entra
    torn        \* history: a process died between the renames of a swap

worldVars == <<live, previous, staged, standby, stateFile, token, notice, app,
               age, used, up, everLive, elapsed, revoked, torn>>

Slot == Certs \cup {None}
Pair == [key : Slot, cert : Slot]
NoPair == [key |-> None, cert |-> None]
PairOf(c) == [key |-> c, cert |-> c]
Complete(p) == p.key # None /\ p.cert # None

\* cert_fault_since is kept as the age of the stamp, up to the threshold it is
\* compared with; NoStamp stands for an absent field.
NoStamp == -1
StateRecord ==
    [add    : Slot,                         \* pending_addition
     rem    : Slot,                         \* pending_removal
     rec    : Slot,                         \* recovery
     streak : 0 .. NeedStreak,              \* cert_fault_streak
     since  : {NoStamp} \cup 0 .. NeedWait]   \* cert_fault_since
NoState == [add |-> None, rem |-> None, rec |-> None, streak |-> 0, since |-> NoStamp]

KeyStatus == {"absent", "adding", "present", "removing"}
Age == {"fresh", "due", "expired"}
\* "full": at least 1800 s left, so the token loop does not mint; "low": still
\* comfortable for the recovery check (300 s); "dead": less than that.
Life == {"full", "low", "dead"}
Token == [by : Slot, life : Life]

WorldTypeOK ==
    /\ live \in Pair /\ previous \in Pair /\ staged \in Pair /\ standby \in Pair
    /\ stateFile \in StateRecord
    /\ token \in Token
    /\ notice \in Slot
    /\ app \in [Certs \cup Foreign -> KeyStatus]
    /\ age \in [Certs -> Age]
    /\ used \subseteq Certs /\ everLive \subseteq Certs
    /\ elapsed \subseteq Certs /\ revoked \subseteq Certs
    /\ up \in BOOLEAN /\ torn \in BOOLEAN

\* The relay after its bootstrap: the operator has uploaded the first
\* certificate and a token was minted with it; other instances' keys are there.
WorldInit ==
    \E c \in Certs :
        /\ live = PairOf(c)
        /\ previous = NoPair /\ staged = NoPair /\ standby = NoPair
        /\ stateFile = NoState
        /\ token = [by |-> c, life |-> "full"]
        /\ notice = None
        /\ app = [k \in Certs \cup Foreign |->
                    IF k = c \/ k \in Foreign THEN "present" ELSE "absent"]
        /\ age = [k \in Certs |-> "fresh"]
        /\ used = {c} /\ everLive = {c}
        /\ elapsed = {} /\ revoked = {}
        /\ up = TRUE /\ torn = FALSE

-----------------------------------------------------------------------------
\* What Entra answers.

Registered(k) == app[k] \in {"adding", "present"}
RegisteredKeys == {k \in Certs \cup Foreign : Registered(k)}

\* A token request or a Graph call signed with pair p may be accepted.
Accepted(p) ==
    /\ Complete(p) /\ p.key = p.cert
    /\ app[p.cert] # "absent"
    /\ age[p.cert] # "expired"

\* Entra may refuse pair p for a reason that is the certificate's own (the
\* classification "cert-fault"): no replica is obliged to know the key, or the
\* certificate is past its validity.
CertFault(p) ==
    \/ p.key # p.cert
    \/ app[p.cert] # "present"
    \/ age[p.cert] = "expired"

\* A directory read may show key k, or may miss it.
MayBeSeen(k) == app[k] # "absent"
MayBeMissed(k) == app[k] # "present"

\* removeKey, answered with success or with "No credentials found", which the
\* code counts as success.  A key on the registration starts to go; a replica
\* that does not know yet a key being added has nothing to remove, and the key
\* comes all the same.
Removing(k) ==
    \/ app' = [app EXCEPT ![k] = IF app[k] = "absent" THEN "absent" ELSE "removing"]
    \/ app[k] = "adding" /\ UNCHANGED app

Replicate(k) ==
    /\ app[k] \in {"adding", "removing"}
    /\ app' = [app EXCEPT ![k] = IF app[k] = "adding" THEN "present" ELSE "absent"]
    /\ UNCHANGED <<live, previous, staged, standby, stateFile, token, notice,
                   age, used, up, everLive, elapsed, revoked, torn>>

-----------------------------------------------------------------------------
\* Time and people.

\* A certificate in use reaches its renewal threshold, then its expiry.
Ages(c) ==
    /\ c \in used /\ age[c] # "expired"
    /\ age' = [age EXCEPT ![c] = IF age[c] = "fresh" THEN "due" ELSE "expired"]
    /\ UNCHANGED <<live, previous, staged, standby, stateFile, token, notice,
                   app, used, up, everLive, elapsed, revoked, torn>>

\* The grace days of a replaced certificate, or of whatever key is recorded for
\* retirement, are over.
GraceElapses(c) ==
    /\ c \in (everLive \cup {stateFile.rem}) \ (elapsed \cup {live.cert, None})
    /\ Complete(live)
    /\ elapsed' = elapsed \cup {c}
    /\ UNCHANGED <<live, previous, staged, standby, stateFile, token, notice,
                   app, age, used, up, everLive, revoked, torn>>

\* Somebody deletes a key of this instance in the Entra portal.
AdminDeletes(c) ==
    /\ c \in Certs /\ Registered(c)
    /\ app' = [app EXCEPT ![c] = "removing"]
    /\ revoked' = revoked \cup {c}
    /\ UNCHANGED <<live, previous, staged, standby, stateFile, token, notice,
                   age, used, up, everLive, elapsed, torn>>

\* The operator uploads the certificate the notice asks for.
OperatorUploads(c) ==
    /\ notice = c /\ c # None
    /\ app[c] = "absent"
    /\ app' = [app EXCEPT ![c] = "adding"]
    /\ revoked' = revoked \ {c}
    /\ UNCHANGED <<live, previous, staged, standby, stateFile, token, notice,
                   age, used, up, everLive, elapsed, torn>>

\* /run is a tmpfs: a stopped container loses its token.
LosesToken == token' = [by |-> None, life |-> "dead"]

-----------------------------------------------------------------------------
\* entrypoint.sh, the part that concerns the OAuth pair.  validate_pair is
\* fatal for a mismatched or expired pair, and the container stays down.

MayStart(p) == p.key = p.cert /\ age[p.cert] # "expired"

\* A missing half makes the entrypoint generate a new pair and ask for its
\* upload; the startup mint then fails, and the notice is already up.
BootGenerates ==
    /\ ~up /\ ~Complete(live)
    /\ \E c \in Certs \ used :
        /\ live' = PairOf(c)
        /\ notice' = c
        /\ used' = used \cup {c}
        /\ everLive' = everLive \cup {c}
    /\ up' = TRUE
    /\ UNCHANGED <<previous, staged, standby, stateFile, token, app, age,
                   elapsed, revoked, torn>>

\* A startup mint that succeeds clears the notice; one that fails raises it for
\* the live certificate unless one is up already.
BootMints ==
    /\ ~up /\ Complete(live) /\ MayStart(live)
    /\ up' = TRUE
    /\ \/ /\ Accepted(live)
          /\ token' = [by |-> live.cert, life |-> "full"]
          /\ notice' = None
       \/ /\ notice' = IF notice = None THEN live.cert ELSE notice
          /\ UNCHANGED token
    /\ UNCHANGED <<live, previous, staged, standby, stateFile, app, age, used,
                   everLive, elapsed, revoked, torn>>

Boot == BootGenerates \/ BootMints
=============================================================================
