------------------------------ MODULE MCMedia -------------------------------
(* One media object, two requests for it, one worker with memory for two   *)
(* jobs, and one failing call or crash.                                    *)
EXTENDS Media
=============================================================================
