---------------------------- MODULE MCFilesStore -----------------------------
(* FilesStore for TLC.  Object keys are opaque, workers and the pages of an *)
(* owner are interchangeable, and so are the owners who create files and    *)
(* those who do not; ids are not, requests lock them in order.              *)
EXTENDS FilesStore

Symmetry ==
    Permutations(Workers) \cup Permutations(Keys) \cup Permutations(Marks)
      \cup Permutations(Creators) \cup Permutations(Owners \ Creators)
=============================================================================
