----------------------------- MODULE MCExecutor -----------------------------
(***************************************************************************)
(* What goes on by itself in base-admin, for TLC: the rate limiter, with a *)
(* thread of the executor for each of its tasks, the sockets, which may    *)
(* take all threads, or, in the browser, the dialog that uploads images.   *)
(***************************************************************************)
EXTENDS RateLimiter, LogSocket, UploadDialog

VARIABLE
    part    \* which of the three runs

allVars == <<part, vars, socketVars, uploadVars>>

MCInit ==
    /\ part \in {"limiter", "sockets", "upload"} /\ Init /\ SocketInit /\ UploadInit
    /\ part # "limiter" => setting = "N"

MCNext ==
    \/ part = "limiter" /\ Next /\ UNCHANGED <<part, socketVars, uploadVars>>
    \/ part = "sockets" /\ SocketNext /\ UNCHANGED <<part, vars, uploadVars>>
    \/ part = "upload" /\ UploadNext /\ UNCHANGED <<part, vars, socketVars>>

MCSpec ==
    /\ MCInit /\ [][MCNext]_allVars
    /\ part = "limiter" => \A t \in Tasks : WF_vars(TaskStep(t))
    /\ part = "sockets" => SocketFairness
    /\ part = "upload" => UploadFairness
=============================================================================
