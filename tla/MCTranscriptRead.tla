-------------------------- MODULE MCTranscriptRead --------------------------
(* TranscriptRead for TLC. *)
EXTENDS TranscriptRead
=============================================================================
