---------------------------- MODULE MCFencedLease ----------------------------
(***************************************************************************)
(* TLC instance of FencedLease: p1 and p2 are processes of one owner, q of *)
(* another; three payloads of which two share their hash.                  *)
(***************************************************************************)
EXTENDS FencedLease, TLC

CONSTANTS p1, p2, q

MCOwnerOf == (p1 :> "a") @@ (p2 :> "a") @@ (q :> "b")
MCPayload ==
    {[hash |-> 1, scope |-> 1], [hash |-> 1, scope |-> 2], [hash |-> 2, scope |-> 1]}
=============================================================================
