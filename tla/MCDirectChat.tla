---------------------------- MODULE MCDirectChat ----------------------------
(* Two users, of whom one writes, two handlers of friendship-service and   *)
(* one message.  The handlers are interchangeable.                         *)
EXTENDS DirectChat, TLC

Symmetric == Permutations(Workers)

\* The pair makes two requests, or one while one call fails.
MCNext == DNext /\ jobs' + faults' <= MaxJobs
MCSpec == DInit /\ [][MCNext]_dvars
=============================================================================
