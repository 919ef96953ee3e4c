----------------------------- MODULE MCPhantom -----------------------------
(* An instance of Phantom: an operator and an admin in different tenants.   *)
EXTENDS Phantom, TLC

CONSTANTS acme, ops, dev, openai, github, s1, repos, issues, orgs, ka, kr, kx

TenantsBounded == {acme, ops, dev}
ServicesBounded == {openai, github}

\* One glob that matches one of two paths
MatchesBounded == {<<repos, issues>>}

\* OPENAI_API_KEY is set in the server's environment.
SeedsBounded == {<<dev, openai>>}

\* The third entry repeats a token, the second names no role.
ApiLinesBounded ==
    << [token |-> ka, tenant |-> acme, role |-> "operator"],
       [token |-> kx, tenant |-> acme, role |-> "root"],
       [token |-> ka, tenant |-> ops, role |-> "admin"],
       [token |-> kr, tenant |-> ops, role |-> "admin"] >>

\* Both services; one with a glob and a ttl; a glob for a service not asked for.
CreatesBounded ==
    { [services |-> {openai, github}, limited |-> None, globs |-> {}, ttl |-> FALSE],
      [services |-> {github}, limited |-> github, globs |-> {repos}, ttl |-> TRUE],
      [services |-> {openai}, limited |-> github, globs |-> {repos}, ttl |-> FALSE] }

\* One's own tenant, another by name, and the seeded pair of "dev"
PutsBounded ==
    { [tenant |-> None, service |-> github], [tenant |-> ops, service |-> github],
      [tenant |-> dev, service |-> openai] }

\* A token with its own service, on a path in scope and on one outside; with
\* another service; with an unknown one; no token; a path without a service.
CallsBounded ==
    {[tok |-> <<s1, github>>, seg |-> github, path |-> p] : p \in {issues, orgs}}
        \cup { [tok |-> <<s1, openai>>, seg |-> openai, path |-> orgs],
               [tok |-> <<s1, openai>>, seg |-> github, path |-> orgs],
               [tok |-> <<s1, openai>>, seg |-> "other", path |-> orgs],
               [tok |-> None, seg |-> openai, path |-> orgs],
               [tok |-> None, seg |-> None, path |-> orgs] }
=============================================================================
