------------------------------ MODULE Backoff ------------------------------
(***************************************************************************)
(* The delay before a connection attempt, computed by the reconnection     *)
(* loops of the command line client (crates/localup-cli, run_standalone)   *)
(* and of its daemon (run_tunnel): min(2u64.pow(attempt - 1), 30) seconds. *)
(* The product is computed in 64 bits and wraps around in a release build, *)
(* which has no overflow checks.                                           *)
(***************************************************************************)
EXTENDS Naturals

Width == 64
MaxDelay == 30

\* min(2^n % 2^Width, MaxDelay): 2^5 is over MaxDelay already.
CappedPower(n) == IF n >= Width THEN 0 ELSE IF n >= 5 THEN MaxDelay ELSE <<1, 2, 4, 8, 16>>[n + 1]

\* Fault: the first failure counts as the second.
BackoffSeconds_OneOff(attempt) == IF attempt = 0 THEN 0 ELSE CappedPower(attempt)

BackoffSeconds(attempt) == IF attempt = 0 THEN 0 ELSE CappedPower(attempt - 1)
=============================================================================
