----------------------------- MODULE MCMediaJobs -----------------------------
(* Media jobs on top of file storage on small instances. *)
EXTENDS MediaJobs

\* As a deployment that wants its media done sets them, and as the service's own
\* tests do. The default (no worker, images derived, placeholder providers) takes no
\* step on the uploads and jobs that neither of the two takes.
MCSettings ==
    {[worker |-> TRUE, images |-> TRUE, providers |-> TRUE],
     [worker |-> FALSE, images |-> FALSE, providers |-> FALSE]}
=============================================================================
