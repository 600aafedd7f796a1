------------------------------ MODULE Doubling ------------------------------
(***************************************************************************)
(* The powers of two of the backoffs: 2 ** n of the client and of the push *)
(* stream, and the number the supervisor's repeated doubling comes to.     *)
(***************************************************************************)
EXTENDS Naturals

Power2[n \in Nat] == IF n = 0 THEN 1 ELSE 2 * Power2[n - 1]
=============================================================================
