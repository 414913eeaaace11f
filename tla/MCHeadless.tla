---------------------------- MODULE MCHeadless ----------------------------
(* Headless for TLC. Its runs check liveness, which symmetry would not be  *)
(* sound for, so the calls are plain model values.                         *)
EXTENDS Headless
=============================================================================
