---------------------------- MODULE MCEventPipeline ----------------------------
(* Instances of EventPipeline for TLC: an artist to follow, another content,   *)
(* a preference stated about the first, a correction signal, an event the      *)
(* validator turns down and one without its text.                              *)
EXTENDS EventPipeline

Submission(signal, type, name, valid) ==
  [signal |-> signal, type |-> type, name |-> name, valid |-> valid]

FollowA == Submission("follow", "artist", "a", TRUE)
FollowB == Submission("follow", "artist", "b", TRUE)
Rejected == Submission("follow", "artist", "a", FALSE)
Preference == Submission("preference", "artist", "a", TRUE)
Correction == Submission("correction", "none", "c", TRUE)
Missing == Submission("missing", "none", "c", TRUE)

MixedPayloads == {FollowA, FollowB, Rejected, Preference, Correction, Missing}
FewPayloads == {FollowA, Preference}

Interchangeable == Permutations(Threads) \cup Permutations(Users) \cup Permutations(Keys)
==============================================================================
