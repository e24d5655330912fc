---------------------------- MODULE WebhookPromise ----------------------------
(***************************************************************************)
(* What the replicas of the admission webhook promise the API server: one  *)
(* certificate is chosen for good, no replica ever serves another, and     *)
(* calls are only required (failurePolicy Fail) once that certificate is   *)
(* the trusted one.  So a pod is never rejected because of a replica that  *)
(* the API server does not trust.                                          *)
(***************************************************************************)
CONSTANTS
    Replicas,
    Certs,
    NoCert      \* not in Certs: none chosen, served or trusted

VARIABLES
    chosen,     \* the certificate in the Secret
    served,     \* the certificate each replica answers with
    trusted,    \* the caBundle of the webhook configuration
    required    \* is failurePolicy Fail?

vars == <<chosen, served, trusted, required>>

Init ==
    /\ chosen = NoCert
    /\ served = [r \in Replicas |-> NoCert]
    /\ trusted = NoCert
    /\ required = FALSE

\* A certificate is chosen, once and for all.
Choose(c) ==
    /\ chosen = NoCert
    /\ chosen' = c
    /\ UNCHANGED <<served, trusted, required>>

\* The chosen certificate becomes the trusted one and calls are required.
Require ==
    /\ chosen # NoCert
    /\ trusted' = chosen
    /\ required' = TRUE
    /\ UNCHANGED <<chosen, served>>

\* A replica serves, and only ever the chosen certificate.
Serve(r) ==
    /\ chosen # NoCert
    /\ served' = [served EXCEPT ![r] = chosen]
    /\ UNCHANGED <<chosen, trusted, required>>

Stop(r) ==
    /\ served' = [served EXCEPT ![r] = NoCert]
    /\ UNCHANGED <<chosen, trusted, required>>

\* The manifest is applied: nothing is trusted and nothing is required.
Reset ==
    /\ trusted' = NoCert
    /\ required' = FALSE
    /\ UNCHANGED <<chosen, served>>

Next ==
    \/ \E c \in Certs : Choose(c)
    \/ Require
    \/ \E r \in Replicas : Serve(r) \/ Stop(r)
    \/ Reset

Spec == Init /\ [][Next]_vars
=============================================================================
