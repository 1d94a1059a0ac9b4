------------------------- MODULE ProbeCertificates -------------------------
(***************************************************************************)
(* Client certificates of probes: the issuer (auth/probe_issuer.go), the   *)
(* registry (auth/probe_certificates.go), the handshake's decision         *)
(* (auth/probe_authenticator.go) and the API (server/probe_mtls.go).       *)
(*                                                                         *)
(* The registry is a map in memory; the certificates are with the probes.  *)
(* A certificate is [probe, from, until, ca, boot]: ca is whether it       *)
(* verifies against the configured client CA, boot which run of the server *)
(* issued it.  Revoke has no caller and is left out.  API keys are those   *)
(* of module Fleet; here a key is right or wrong.                          *)
(***************************************************************************)
EXTENDS Integers, FiniteSets

CONSTANTS
    Probes,
    Mode,          \* "off", "optional" or "required"
    Requested,     \* valid_for values of the API; 0 when it is not given
    DefaultTTL, MaxTTL,
    Skew,          \* NotBefore lies this far in the past
    Foreign,       \* certificates made elsewhere that may be registered
    MaxTime, MaxRestarts

VARIABLES
    now,
    fleet,         \* probes that are registered
    registry,      \* probe -> set of registered certificates
    issued,        \* certificates handed out by the API
    handshake,     \* the last decision
    restarts

certificateVars == <<now, fleet, registry, issued, handshake, restarts>>

NoHandshake == [step |-> "none"]

\* Issue: the requested lifetime, else the default, at most MaxTTL.
ValidFor(d) ==
    LET wanted == IF d <= 0 THEN DefaultTTL ELSE d
    IN IF wanted > MaxTTL THEN MaxTTL ELSE wanted

Issue(p, d) == [probe |-> p, from |-> now - Skew, until |-> now + ValidFor(d), ca |-> TRUE, boot |-> restarts]

\* Record.Active and x509's own check of the validity period agree.
Active(cert) == cert.from <= now /\ now <= cert.until

\* Verifier.Verify.
Verify(cert) == cert.ca /\ Active(cert)


\* Registry.Register: one more record, or the same one refreshed.
Register(reg, p, cert) == [reg EXCEPT ![p] = @ \cup {cert}]

Match(p, cert) == cert \in registry[p] /\ Active(cert)

\* ProbeAuthenticator.Authenticate, for a handshake with the certificates certs
\* (none or one) and a key that is right or wrong.
Authenticate(p, certs, key) ==
    IF Mode # "off" /\ certs # {}
    THEN \A cert \in certs : Verify(cert) /\ Match(p, cert)
    ELSE Mode # "required" /\ key /\ p \in fleet

-----------------------------------------------------------------------------
RegisterProbe(p) ==
    /\ p \notin fleet
    /\ fleet' = fleet \cup {p}
    /\ UNCHANGED <<now, registry, issued, handshake, restarts>>

DeleteProbe(p) ==
    /\ p \in fleet
    /\ fleet' = fleet \ {p}
    /\ UNCHANGED <<now, registry, issued, handshake, restarts>>

\* handleIssueProbeCertificate.
IssueCertificate(p, d) ==
    /\ p \in fleet
    /\ issued' = issued \cup {Issue(p, d)}
    /\ registry' = Register(registry, p, Issue(p, d))
    /\ UNCHANGED <<now, fleet, handshake, restarts>>

\* handleRegisterProbeCertificate verifies unless the mode is off.
RegisterCertificate(p, cert) ==
    /\ p \in fleet /\ (Mode = "off" \/ Verify(cert))
    /\ registry' = Register(registry, p, cert)
    /\ UNCHANGED <<now, fleet, issued, handshake, restarts>>

\* probeHandshakeAuthorizer.
Handshake(p, certs, key) ==
    /\ handshake' = [step |-> "done", probe |-> p, certs |-> certs, key |-> key, at |-> now,
                     allowed |-> Authenticate(p, certs, key)]
    /\ UNCHANGED <<now, fleet, registry, issued, restarts>>

\* initProbeAuthentication makes an empty registry; the fleet is on disk.
Restart ==
    /\ restarts < MaxRestarts
    /\ restarts' = restarts + 1
    /\ registry' = [p \in Probes |-> {}]
    /\ handshake' = NoHandshake
    /\ UNCHANGED <<now, fleet, issued>>

Tick ==
    /\ now < MaxTime
    /\ now' = now + 1
    /\ UNCHANGED <<fleet, registry, issued, handshake, restarts>>

Init ==
    /\ now = 0
    /\ fleet = {}
    /\ registry = [p \in Probes |-> {}]
    /\ issued = {}
    /\ handshake = NoHandshake
    /\ restarts = 0

Next ==
    \/ \E p \in Probes : RegisterProbe(p) \/ DeleteProbe(p)
    \/ \E p \in Probes, d \in Requested : IssueCertificate(p, d)
    \/ \E p \in Probes, cert \in Foreign : RegisterCertificate(p, cert)
    \/ \E p \in Probes, key \in BOOLEAN : Handshake(p, {}, key)
    \/ \E p \in Probes, key \in BOOLEAN, cert \in issued \cup Foreign : Handshake(p, {cert}, key)
    \/ Restart
    \/ Tick

Spec == Init /\ [][Next]_certificateVars

-----------------------------------------------------------------------------
\* Certificates overlap: one that the API issued is accepted from its probe
\* for as long as it is valid and the server runs, whatever is issued or
\* registered after it.  A restart forgets the registry, and with it every
\* certificate, against the notice of handleIssueProbeCertificate: "existing active
\* certificates remain valid until expiry/revocation".
IssuedCertificatesRemainValid ==
    Mode # "off" /\ handshake.step = "done" =>
        \A cert \in handshake.certs \cap issued :
            handshake.probe = cert.probe /\ cert.boot = restarts
                /\ cert.from <= handshake.at /\ handshake.at <= cert.until
            => handshake.allowed
=============================================================================
