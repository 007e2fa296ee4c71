------------------------------ MODULE MCFacets ------------------------------
(* Constants for the runs of Facets. *)
EXTENDS Facets

Source(n, toks) == [name |-> n, tokens |-> toks]
Facet(n, cap)   == [name |-> n, cap |-> cap]

MCPort == [port |-> 5000]
MCEnv  == [soft |-> "env"]
MCEnvTokens == [app |-> {"t1"}]

\* Files that change facets and tokens, that drop the source the environment
\* has a token for, that name a source twice, that change a fixed field, that
\* Validate refuses, that do not parse, and no file at all.
MCFiles ==
    {Missing, Broken,
     Yaml([custom |-> <<Facet("x", 0), Facet("level", 3)>>, soft |-> "file",
           sources |-> <<Source("app", {"t2"}), Source("web", {"t3"})>>]),
     Yaml([custom |-> <<Facet("y", 9)>>, defaultCap |-> 7,
           sources |-> <<Source("web", {"t4"})>>]),
     Yaml([sources |-> <<Source("app", {}), Source("app", {"t2"})>>]),
     Yaml([port |-> 0, backend |-> "s3", limit |-> "7d"]),
     Yaml([archiveFirst |-> TRUE, backend |-> "script"])}
=============================================================================
