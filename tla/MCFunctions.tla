----------------------------- MODULE MCFunctions -----------------------------
(* All modules of pure functions on the same inputs.                         *)
EXTENDS MCPackets, MCChecksum, MCAlgorithm, MCHttpHelpers

(* Three functions that do not always do what their comments say.  An input    *)
(* that violates this invariant contradicts all three of the comments at once. *)
OneCommentHolds == SortStringSorts \/ LastByteHandled \/ FirstLineAsCommented
=============================================================================
