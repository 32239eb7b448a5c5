--------------------------- MODULE GatewayService ---------------------------
(***************************************************************************)
(* The pipeline implements WriteService, where every write is a restricted *)
(* one: write safety on in every configuration, no unsafe report proxy.    *)
(* An open request ends for the client when its handler answers, before    *)
(* the deferred releases run.                                              *)
(***************************************************************************)
EXTENDS Gateway

ASSUME ServiceAssumption ==
    /\ \A c \in Configs : c.writes /\ ~c.unsafeReport
    /\ \A in \in Inputs : in.route \in RestrictedWriteRoutes

ServiceState(r) ==
    IF pc[r] \in {"idle", "unlock", "releaseKey", "releaseGlobal"} THEN "idle"
    ELSE IF committed[r] THEN "applied"
    ELSE "open"

ServiceSeen(r) ==
    IF pc[r] # "forward" \/ ~Preflighted(r) THEN "no"
    ELSE IF disturbed[r] THEN "disturbed"
    ELSE "owned"

Service == INSTANCE WriteService WITH
    config <- cfgOf[cur],
    op     <- inp,
    terms  <- [r \in Requests |-> Cfg(r)],
    state  <- [r \in Requests |-> ServiceState(r)],
    seen   <- [r \in Requests |-> ServiceSeen(r)],
    answer <- resp

\* Seen from the clients and the panel, the handlers with their preflight,
\* mutex, forward, verification and reloads are the service of WriteService:
\* no interleaving of two handlers shows in an update but through the writes
\* that service names as not kept apart, and an answer that is lost, late or
\* given up leads to nothing but the outcomes it allows.
AtomicWrites == Service!Spec

=============================================================================
