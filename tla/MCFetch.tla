------------------------------ MODULE MCFetch ------------------------------
(* Instances of Fetch for TLC. *)
EXTENDS Fetch

\* A final and two retryable refusals, a redirect and a success.
Codes == {200, 302, 404, 429, 503}
\* None, within the interval, beyond it, and two that wrap in five bits.
Headers == {0, 2, 5, 9, 17}
=============================================================================
