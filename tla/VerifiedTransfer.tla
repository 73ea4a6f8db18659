-------------------------- MODULE VerifiedTransfer --------------------------
(***************************************************************************)
(* What chunked integrity verification promises its caller: the payload is *)
(* accepted piece by piece, in order, every piece intact, and the call     *)
(* ends "ok" exactly when all of it is accepted, or else "failed"; nothing *)
(* is accepted after a failure.                                            *)
(***************************************************************************)
EXTENDS Naturals, Sequences

VARIABLES
  status,     \* "none" | "busy" | "ok" | "failed"
  total,      \* units of data the call is about
  done,       \* units of data accepted
  copies      \* what was accepted, piece by piece

vtVars == <<status, total, done, copies>>

Init == status = "none" /\ total = 0 /\ done = 0 /\ copies = <<>>

Start ==
  /\ status # "busy"
  /\ status' = "busy"
  /\ total' \in Nat
  /\ done' = 0
  /\ copies' = <<>>

(* A piece is empty only if the whole payload is. *)
Accept(n) ==
  /\ status = "busy"
  /\ n > 0 \/ total = 0
  /\ done' = done + n
  /\ done' <= total
  /\ copies' = Append(copies, "intact")
  /\ status' = IF done' = total THEN "ok" ELSE "busy"
  /\ UNCHANGED total

Fail ==
  /\ status = "busy"
  /\ status' = "failed"
  /\ UNCHANGED <<total, done, copies>>

(* The caller moves on from a finished call. *)
Forget ==
  /\ status # "busy"
  /\ status' = "none" /\ total' = 0 /\ done' = 0 /\ copies' = <<>>

Next ==
  \/ Start
  \/ \E n \in 0..total : Accept(n)
  \/ Fail
  \/ Forget

Spec == Init /\ [][Next]_vtVars
=============================================================================
