----------------------------- MODULE MCTopology -----------------------------
(***************************************************************************)
(* Small instances of Topology for TLC.                                    *)
(***************************************************************************)
EXTENDS Topology

CONSTANTS server, worker

Unset == [s \in DOMAIN RepositoryFile |-> <<>>]

With(env) == [file |-> RepositoryFile, env |-> env]

NoDeadLetters == [RepositoryFile EXCEPT !.dlx = ""]

\* As the repository has it; docker-compose.dev.yml, with the longest TTL that
\* fits; a TTL of 2^31; the primary exchange for dead letters as well; none for
\* dead letters, with a TTL beyond 2^32.
MCDeployments ==
    { With(Unset),
      With([Unset EXCEPT !.dlx = <<"webhook_events_dlx">>, !.key = <<"dlq">>,
                         !.ttl = <<Half - 1>>]),
      With([Unset EXCEPT !.ttl = <<Half>>]),
      With([Unset EXCEPT !.dlx = <<"webhook_events">>]),
      [file |-> NoDeadLetters, env |-> [Unset EXCEPT !.ttl = <<2 * Half + 1>>]] }

\* "DeclareTopology will recreate the topology if it drifts"
\* (.github/copilot-instructions.md:149): a server that reconnects gets what it
\* asks for.  What has other arguments is not recreated but in the way.
DriftRepaired ==
    \A p \in Processes : state[p] = "reconnecting" => Accepts(Wanted(p))
=============================================================================
