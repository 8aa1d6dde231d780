--------------------------- MODULE MCRegistration ---------------------------
(* A small instance of Registration for TLC. *)
EXTENDS RegistrationInvariant

CONSTANTS p, q, r   \* values of pthread_t

ThreePids == {p, q, r}
=============================================================================
