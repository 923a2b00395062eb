--------------------------- MODULE MCApplication ---------------------------
(* Application for TLC.                                                    *)
EXTENDS ApplicationInvariant, TLC

=============================================================================
