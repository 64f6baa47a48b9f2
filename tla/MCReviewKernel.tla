---------------------------- MODULE MCReviewKernel ----------------------------
(***************************************************************************)
(* TLC instance of ReviewKernel.  Ids are interchangeable model values.    *)
(* Versions only ever matter by equality with the versions a direction     *)
(* preview bound, so the view keeps which bound versions are still current.*)
(***************************************************************************)
EXTENDS ReviewKernel, TLC

Symmetry ==
    Permutations(Review) \cup Permutations(Manifest)
        \cup Permutations(Command) \cup Permutations(Memory)

Bound(d) ==
    IF d.live THEN {<<p[1], IF review[p[1]].version = p[2] THEN 1 ELSE 0>> : p \in d.affected}
              ELSE {}
View ==
    <<[r \in Review |->
          [review[r] EXCEPT !.version = 0, !.draft.affected = Bound(review[r].draft)]],
      manifest, memory, log, issued, provider, open, request, sends>>
=============================================================================
