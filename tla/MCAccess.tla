------------------------------- MODULE MCAccess -------------------------------
EXTENDS Access, TLC

CONSTANTS u1, u2, admin, hr, d1, d2, k1, r1, r2

(* Two admins, of two departments.                                          *)
StartUsers ==
  {(u1 :> [active |-> TRUE, department |-> d1, roles |-> {admin}] @@
    u2 :> [active |-> TRUE, department |-> d2, roles |-> {admin, hr}])}

(* The buttons of the page send one field; the last bodies send two.        *)
Bodies ==
  { "active" :> TRUE, "active" :> FALSE,
    "roles" :> {hr}, "department" :> d2 @@ "roles" :> {admin, hr},
    "active" :> FALSE @@ "roles" :> {hr} }

Symmetry == Permutations(Requests)
=============================================================================
