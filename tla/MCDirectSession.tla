--------------------------- MODULE MCDirectSession ---------------------------
(* Two threads and three addresses, so that two sessions of one thread are *)
(* alive beside one of the other; failures at the ends and in the middle   *)
(* of acquisition and cleanup.                                             *)
EXTENDS DirectSession, TLC

MCFailures ==
  {NoFailure}
    \cup [phase : {"acquire"}, at : {"runtime_lease", "send_buffer"}]
    \cup [phase : {"cleanup"}, at : {"stream"}]

AddressSymmetry == Permutations(Addresses) \cup Permutations(Threads)
=============================================================================
