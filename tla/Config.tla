------------------------------- MODULE Config -------------------------------
(***************************************************************************)
(* The configuration (src/internal/config/config.go): how Load lays the    *)
(* defaults, the YAML file and the environment over each other, what       *)
(* Validate refuses, and which differences a running process may take      *)
(* over.                                                                   *)
(*                                                                         *)
(* A layer is a function on the fields it sets.  The fields kept are those *)
(* a decision depends on; every other scalar stands or falls like soft,    *)
(* which is reloadable, or port, which is not.  The environment of a       *)
(* process never changes, so it is a constant.                             *)
(***************************************************************************)
EXTENDS Integers, FiniteSets, Sequences, SequencesExt

CONSTANTS
    SourceIds,  \* names of sources
    Tokens,     \* ingest tokens
    FacetNames, \* names of facets
    Port,       \* Dokku's plain PORT, as a layer that sets port or nothing
    Env,        \* the LOGPOND_ variables, LOGPOND_SOURCES_JSON and
                \* LOGPOND_FACETS_JSON included, as a layer
    EnvTokens   \* LOGPOND_INGEST_TOKEN__<source>: source -> set of tokens

\* The sources a layer sets, if it sets them.
Sources == [name : SourceIds, tokens : SUBSET Tokens]
SourcesTyped(layer) == "sources" \in DOMAIN layer => layer.sources \in Seq(Sources)

\* The facets a layer sets, if it sets them, and its caps.
Customs == [name : FacetNames, cap : Int]
FacetsTyped(layer) ==
    /\ "custom" \in DOMAIN layer => layer.custom \in Seq(Customs)
    /\ \A f \in DOMAIN layer \cap {"defaultCap", "builtinCap"} : layer[f] \in Int

ASSUME ConfigAssumption ==
    /\ "default" \in SourceIds
    /\ \A layer \in {Port, Env} : SourcesTyped(layer) /\ FacetsTyped(layer)
    /\ DOMAIN EnvTokens \subseteq SourceIds /\ IsFiniteSet(DOMAIN EnvTokens)
    /\ \A n \in DOMAIN EnvTokens : EnvTokens[n] \subseteq Tokens

Defaults == [port |-> 8080, soft |-> "default", backend |-> "none", limit |-> "",
             archiveFirst |-> TRUE, defaultCap |-> 50, builtinCap |-> 100,
             custom |-> <<>>, sources |-> <<[name |-> "default", tokens |-> {}]>>]

Fields == DOMAIN Defaults

\* The fields without a reloadable:"true" tag.
Fixed == {"port", "backend"}

Missing == [kind |-> "missing"]
Broken  == [kind |-> "broken"]
Yaml(layer) == [kind |-> "yaml", layer |-> layer]

\* One layer over another.
Over(top, bottom) ==
    [f \in DOMAIN top \cup DOMAIN bottom |->
       IF f \in DOMAIN top THEN top[f] ELSE bottom[f]]

FileLayer(file) == IF file.kind = "yaml" THEN file.layer ELSE <<>>

SourceNames(cfg) == {cfg.sources[i].name : i \in DOMAIN cfg.sources}

\* Tokens of the environment are appended to those of the source they name.
\* A source the configuration does not know is added, "so Validate() can
\* complain" (config.go:289); Validate has no complaint about it.
MergeTokens(cfg) ==
    LET known(s) == [s EXCEPT !.tokens = @ \cup IF s.name \in DOMAIN EnvTokens
                                                THEN EnvTokens[s.name] ELSE {}]
        phantoms == SetToSeq({[name |-> n, tokens |-> EnvTokens[n]] :
                              n \in DOMAIN EnvTokens \ SourceNames(cfg)})
    IN [cfg EXCEPT !.sources =
          [i \in DOMAIN @ |-> known(@[i])] \o phantoms]

\* Defaults, then the file (a missing file is an empty one), then PORT, then
\* the environment.
Layers(file) == Over(Env, Over(Port, Over(FileLayer(file), Defaults)))

Compose(file) == MergeTokens(Layers(file))

\* Sources have names of their own, and no token that cannot be one.
SourcesValid(sources) ==
    /\ \A i, j \in DOMAIN sources : sources[i].name = sources[j].name => i = j
    /\ \A i \in DOMAIN sources : "bad" \notin sources[i].tokens

MaxPort == 65535

Valid(cfg) ==
    /\ cfg.port \in 1..MaxPort
    /\ cfg.backend \in {"none", "s3", "script"}
    /\ SourcesValid(cfg.sources)
    /\ cfg.backend # "none" /\ cfg.archiveFirst => cfg.limit # ""

Loads(file) == file.kind # "broken" /\ Valid(Compose(file))

\* The fields that differ, and those of them a reload may not change.
Changed(old, new)    == {f \in Fields : old[f] # new[f]}
Violations(old, new) == Changed(old, new) \cap Fixed

\* buildTokenMap: the sources that require a token.
TokenMap(cfg) ==
    LET with(n) == CHOOSE i \in DOMAIN cfg.sources : cfg.sources[i].name = n
    IN [n \in {m \in SourceNames(cfg) : cfg.sources[with(m)].tokens # {}} |->
          cfg.sources[with(n)].tokens]
=============================================================================
