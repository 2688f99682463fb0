---- MODULE MCSessionLease ----
(* The session leases of two hosts, with few Sessions and runners. *)
EXTENDS SessionLease, TLC

CONSTANTS h1, h2, k1, k2, k3, f1, f2, g1, g2

\* One Session in each host, or two in the first.
Apart == k1 :> h1 @@ k2 :> h2
Beside == k1 :> h1 @@ k2 :> h1
Both == k1 :> h1 @@ k2 :> h1 @@ k3 :> h2
====
