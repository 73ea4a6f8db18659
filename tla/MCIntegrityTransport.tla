------------------------ MODULE MCIntegrityTransport ------------------------
(***************************************************************************)
(* Every fault, up to two retries, with the fault lasting for fewer, as    *)
(* many or more attempts than allowed.  MCTickModulus is small enough for  *)
(* the longest timeout to wrap the tick counter.                           *)
(***************************************************************************)
EXTENDS IntegrityTransport

MCTickModulus == 16

MCConfigs ==
  [max_retries: 0..2, timeout: {2}, backoff: {1}, fault: Faults, until: 0..2]
    \cup [max_retries: {1}, timeout: {0, MCTickModulus - 1}, backoff: {1},
           fault: Faults, until: {0}]
=============================================================================
