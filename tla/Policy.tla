------------------------------- MODULE Policy -------------------------------
(***************************************************************************)
(* The policy enforcement point (src/auth/policy.rs), the revocation       *)
(* ledger it owns (src/auth/revocation.rs) and the audit log it writes.    *)
(*                                                                         *)
(* A capability is a record [target, rights, generation, nonce]; a token,  *)
(* for replay and revocation, is the pair of its generation and nonce.     *)
(* Capabilities are inputs: any member of Caps may be presented at any     *)
(* time, any number of times.                                              *)
(***************************************************************************)
EXTENDS AuditLog

CONSTANTS
    Caps,             \* the capabilities callers may present
    Nonces,           \* the nonces callers may revoke
    Rights,           \* the operation rights (CapabilitySet flags)
    NonceWindow,      \* NONCE_WINDOW, capacity of used_nonces
    MaxRevocations,   \* MAX_REVOCATIONS, capacity of the revocation set
    GenMax,           \* u64::MAX, where the generation counter saturates
    EpochMax          \* u64::MAX, where the revocation epoch saturates

ASSUME PolicyConstants ==
    /\ NonceWindow \in Nat
    /\ MaxRevocations \in Nat
    /\ GenMax \in Nat
    /\ EpochMax \in Nat
    /\ \A c \in Caps : /\ c.generation \in Nat
                       /\ c.nonce \in Nonces
                       /\ c.rights \subseteq Rights

VARIABLES
    current_generation,
    used_nonces,      \* nonces consumed in the current generation
    revoked,          \* nonces revoked in the current generation
    epoch,            \* the revocation ledger's epoch counter
    result            \* what the last call returned: "Ok" or an error

policyVars == <<current_generation, used_nonces, revoked, epoch>>

Token(cap) == <<cap.generation, cap.nonce>>

-----------------------------------------------------------------------------

PolicyInit ==
    /\ current_generation = 0
    /\ used_nonces = {}
    /\ revoked = {}
    /\ epoch = 0
    /\ result = "Ok"

\* Mutant: the ">=" comparison that policy.rs line 7 still documents.
AuthorisesFuture(cap, right) ==
    cap.generation >= current_generation /\ right \in cap.rights

Authorises(cap, right) ==
    cap.generation = current_generation /\ right \in cap.rights

\* Mutant: the revocation set is not consulted.
CheckInnerNoRevocation(cap, right) ==
    IF ~Authorises(cap, right)                      THEN "Expired"
    ELSE IF cap.nonce \in used_nonces               THEN "Replayed"
    ELSE IF Cardinality(used_nonces) >= NonceWindow THEN "WindowExhausted"
    ELSE "Ok"

\* Mutant: the capacity of the replay window is not looked at.
CheckInnerUnboundedWindow(cap, right) ==
    IF ~Authorises(cap, right)                      THEN "Expired"
    ELSE IF cap.nonce \in revoked                   THEN "Revoked"
    ELSE IF cap.nonce \in used_nonces               THEN "Replayed"
    ELSE "Ok"

\* The verdict of Policy::check_inner, its four steps in order.  The nonce
\* is recorded exactly when the verdict is "Ok".
CheckInner(cap, right) ==
    IF ~Authorises(cap, right)                      THEN "Expired"
    ELSE IF cap.nonce \in revoked                   THEN "Revoked"
    ELSE IF cap.nonce \in used_nonces               THEN "Replayed"
    ELSE IF Cardinality(used_nonces) >= NonceWindow THEN "WindowExhausted"
    ELSE "Ok"

\* Mutant: a permitted check that cannot be logged is permitted all the same.
CheckResultUnlogged(cap, right) == CheckInner(cap, right)

\* What Policy::check returns: a full log turns "Ok" into AuditFull and leaves
\* every other verdict as it is.
CheckResult(cap, right) ==
    LET verdict == CheckInner(cap, right)
    IN  IF IsFull /\ verdict = "Ok" THEN "AuditFull" ELSE verdict

\* The state changes of Policy::check.  The nonce is consumed by the verdict,
\* before the append is tried.
CheckStep(cap, right) ==
    LET verdict == CheckInner(cap, right)
    IN  /\ used_nonces' = IF verdict = "Ok" THEN used_nonces \cup {cap.nonce}
                                            ELSE used_nonces
        /\ AppendEvent("CapabilityCheck", cap.target, verdict,
                       CheckResult(cap, right), Token(cap))
        /\ UNCHANGED <<current_generation, revoked, epoch>>

Check(cap, right) ==
    /\ CheckStep(cap, right)
    /\ result' = CheckResult(cap, right)

SatInc(n, max) == IF n < max THEN n + 1 ELSE max

\* Policy::revoke_capability.  Inserting a nonce that is already in the set
\* succeeds even when the set is full, and bumps the epoch again.  No audit
\* event is written.
RevokeCapability(nonce) ==
    LET ok == nonce \in revoked \/ Cardinality(revoked) < MaxRevocations
    IN  /\ revoked' = IF ok THEN revoked \cup {nonce} ELSE revoked
        /\ epoch' = IF ok THEN SatInc(epoch, EpochMax) ELSE epoch
        /\ result' = IF ok THEN "RevokeDone" ELSE "RevocationFull"
        /\ UNCHANGED <<current_generation, used_nonces>>
        /\ UNCHANGED auditVars


\* Policy::rotate_generation.  It also succeeds at the saturated counter,
\* where it empties both sets without moving to a new generation.
RotateGeneration ==
    /\ current_generation' = SatInc(current_generation, GenMax)
    /\ used_nonces' = {}
    /\ revoked' = {}
    /\ epoch' = 0
    /\ result' = "Rotated"
    /\ UNCHANGED auditVars

-----------------------------------------------------------------------------

gateVars == <<auditVars, policyVars, result>>

GateInit == AuditInit /\ PolicyInit

GateNext ==
    \/ \E cap \in Caps, right \in Rights : Check(cap, right)
    \/ \E nonce \in Nonces : RevokeCapability(nonce)
    \/ RotateGeneration

GateSpec == GateInit /\ [][GateNext]_gateVars

-----------------------------------------------------------------------------
(* Properties *)

Results == {"Ok", "Expired", "Revoked", "Replayed", "WindowExhausted",
            "AuditFull", "RevokeDone", "RevocationFull", "Rotated"}
Verdicts == {"Ok", "Expired", "Revoked", "Replayed", "WindowExhausted"}

\* Every variable of the gate stays in its range; the three bounded stores
\* never exceed their capacity and the counters never pass saturation.
GateTypeOK ==
    /\ Len(audit.events) <= MaxAuditEvents
    /\ \A i \in 1 .. Len(audit.events) : audit.events[i].outcome \in Verdicts
    /\ audit.next_seq \in 0 .. MaxAuditEvents
    /\ current_generation \in 0 .. GenMax
    /\ used_nonces \subseteq Nonces
    /\ Cardinality(used_nonces) <= NonceWindow
    /\ revoked \subseteq Nonces
    /\ Cardinality(revoked) <= MaxRevocations
    /\ epoch \in 0 .. EpochMax
    /\ result \in Results

\* No unlogged permission: the capability checks that returned Ok and the
\* permitted CapabilityCheck events are in one-to-one correspondence, also
\* when the log fills up between calls (policy.rs check, lines 79-86).
ChecksAccountable == AccountableFor({"CapabilityCheck"})

\* A token (generation and nonce) is authorised at most once, over any
\* sequence of checks, revocations and rotations that clear the window.
\* Tokens of the saturated generation are excepted: rotation there clears
\* the window without leaving the generation (policy.rs lines 136-140).
NoReplay ==
    \A p, q \in permits :
        /\ p.kind = "CapabilityCheck"
        /\ q.kind = "CapabilityCheck"
        /\ p.about = q.about
        /\ p.about[1] < GenMax
        => p = q

\* The log only grows, one event at a time, and past events never change
\* (audit/mod.rs, "append-only"): no operation rewrites or drains it.
AppendOnly ==
    [][/\ Len(audit'.events) - Len(audit.events) \in {0, 1}
       /\ SubSeq(audit'.events, 1, Len(audit.events)) = audit.events]_gateVars

Tokens == (0 .. GenMax - 1) \X Nonces

Uses == 0 .. MaxAuditEvents

\* Refinement mapping: a token below the saturated generation is spent when
\* a check returned Ok for it, and dead when its generation is over or its
\* nonce is in the current revocation set.
Spent ==
    {<<p.about, p.seq>> : p \in {q \in permits : /\ q.kind = "CapabilityCheck"
                                                /\ q.about[1] < GenMax}}

Dead ==
    {t \in Tokens : \/ t[1] < current_generation
                    \/ t[1] = current_generation /\ t[2] \in revoked}

Abstract == INSTANCE OneShotTokens WITH spent <- Spent, dead <- Dead

\* The gate implements one-shot tokens: clearing the nonce window and the
\* revocation set on rotation never revives a spent, revoked or expired
\* token (policy.rs rotate_generation, check_inner).
ImplementsOneShot == Abstract!Spec
=============================================================================
