------------------------- MODULE ClientDataPromise -------------------------
(***************************************************************************)
(* What release management promises about client data, endpoint by         *)
(* endpoint and without files, commands or an API.  A container that was   *)
(* just put on an endpoint is unverified and gets no client data; client   *)
(* data is let in only once the running container has been verified, and   *)
(* may be shut out at any time.                                            *)
(***************************************************************************)
CONSTANT EndpointIds      \* the endpoints that may ever exist

VARIABLES
  verified,   \* endpoints whose running container has passed the parity gate
  open        \* endpoints that may be sent client data

vars == <<verified, open>>

Init ==
  /\ verified = {}
  /\ open = {}

(* A new container replaces the one that was running. *)
Release(e) ==
  /\ verified' = verified \ {e}
  /\ open' = open \ {e}

(* The parity gate passes on the running container. *)
Verify(e) ==
  /\ verified' = verified \cup {e}
  /\ UNCHANGED open

(* Client data is allowed, which needs a verified container. *)
Promote(e) ==
  /\ e \in verified
  /\ open' = open \cup {e}
  /\ UNCHANGED verified

Withdraw(e) ==
  /\ open' = open \ {e}
  /\ UNCHANGED verified

Next ==
  \E e \in EndpointIds : Release(e) \/ Verify(e) \/ Promote(e) \/ Withdraw(e)

Spec == Init /\ [][Next]_vars

(* An endpoint that may be sent client data runs a verified container. *)
OpenIsVerified == open \subseteq verified
=============================================================================
