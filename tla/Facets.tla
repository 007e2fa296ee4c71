------------------------------- MODULE Facets -------------------------------
(***************************************************************************)
(* The facet registry (src/internal/facets/registry.go) over the           *)
(* custom_facets table, the reloader (src/cmd/logpond/main.go) that        *)
(* rebuilds it from a new configuration, and the map of ingest tokens the  *)
(* reloader swaps (src/internal/api/auth.go).                              *)
(*                                                                         *)
(* CreateUI, UpdateUI and DeleteUI hold the registry's lock across their   *)
(* statements, and what they write is read without that lock by one        *)
(* statement of Load only, so each is one step.  Reloads hold the          *)
(* reloader's mutex, so one is in progress at a time; it reads the rows,   *)
(* and takes the registry's lock afterwards.                               *)
(***************************************************************************)
EXTENDS Config, FiniteSets

CONSTANTS
    Names,          \* of custom facets
    Caps,           \* cardinality caps a request may carry, 0 included
    Files,          \* contents of the configuration file
    MaxEdits, MaxReloads, MaxFaults, MaxRestarts    \* bounds

ASSUME FacetsAssumption ==
    /\ Names \subseteq FacetNames /\ Caps \subseteq Nat
    /\ {"service", "level", "host", "source"} \subseteq FacetNames
    /\ \A f \in Files : SourcesTyped(FileLayer(f)) /\ FacetsTyped(FileLayer(f))
    /\ {MaxEdits, MaxReloads, MaxFaults, MaxRestarts} \subseteq Nat

VARIABLES
    file,       \* the configuration file
    rows,       \* the ui rows of custom_facets, by created_at; cap 0 is NULL
    defs,       \* the registry's definitions, in its order
    current,    \* the reloader's configuration
    started,    \* the configuration the process started with
    tokens,     \* the live token map
    reload,     \* the reload in progress
    acked,      \* history: facets whose creation was answered 201
    dirty,      \* history: an edit or a failure left the registry behind
    loaded,     \* history: the configuration of the last rebuild
    spent       \* bounds: edits, reloads, faults, restarts so far

vars == <<file, rows, defs, current, started, tokens, reload, acked, dirty,
          loaded, spent>>

-----------------------------------------------------------------------------
(* rebuildLocked. *)

NamesIn(seq) == {seq[i].name : i \in DOMAIN seq}

\* The members of a finite set of numbers, smallest first.
InOrder(K) ==
    [k \in 1..Cardinality(K) |->
       CHOOSE i \in K : Cardinality({j \in K : j <= i}) = k]

\* Definitions are added one by one; a name already there is left out.
Fresh(all, new) ==
    {i \in DOMAIN new : /\ new[i].name \notin NamesIn(all)
                        /\ \A j \in 1..i - 1 : new[j].name # new[i].name}

AddDefs(all, new) ==
    all \o [k \in 1..Cardinality(Fresh(all, new)) |-> new[InOrder(Fresh(all, new))[k]]]

CapOr(cap, default) == IF cap > 0 THEN cap ELSE default

BuiltinSpecs == <<[name |-> "service", cap |-> 100], [name |-> "level", cap |-> 10],
                  [name |-> "host", cap |-> 50], [name |-> "source", cap |-> 50]>>

Defs(seq, kind, default) ==
    [i \in DOMAIN seq |-> [name |-> seq[i].name, kind |-> kind,
                           cap |-> CapOr(seq[i].cap, default)]]

DefaultCap(cfg) == CapOr(cfg.defaultCap, 50)

\* The service facet stands for the four whose cap a configuration may set.
Builtins(cfg) ==
    [Defs(BuiltinSpecs, "builtin", 50) EXCEPT ![1].cap = CapOr(cfg.builtinCap, @)]

Rebuild(cfg, list) ==
    AddDefs(AddDefs(Builtins(cfg), Defs(cfg.custom, "config", DefaultCap(cfg))),
            Defs(list, "ui", DefaultCap(cfg)))

-----------------------------------------------------------------------------
Idle == [at |-> "idle", next |-> Defaults, list |-> <<>>]

\* The process starts only with a configuration that loads; facets and tokens
\* are built from it.
Init ==
    /\ file \in {f \in Files : Loads(f)}
    /\ rows = <<>> /\ acked = {}
    /\ current = Compose(file) /\ started = current /\ loaded = current
    /\ defs = Rebuild(current, rows)
    /\ tokens = TokenMap(current)
    /\ reload = Idle
    /\ dirty = FALSE
    /\ spent = [edits |-> 0, reloads |-> 0, faults |-> 0, restarts |-> 0]

Spend(what, max) ==
    /\ spent[what] < max
    /\ spent' = [spent EXCEPT ![what] = @ + 1]

HasDef(n) == n \in NamesIn(defs)
At(seq, n) == CHOOSE i \in DOMAIN seq : seq[i].name = n

\* CreateUI: the conflict check, the insert, which fails on a row the
\* registry does not show, the read back, the definition.  A zero cap is
\* kept as NULL and shown as 50, whatever default_cardinality_cap says.
Create(n, cap) ==
    /\ Spend("edits", MaxEdits)
    /\ ~HasDef(n) /\ n \notin NamesIn(rows)
    /\ rows' = Append(rows, [name |-> n, cap |-> cap])
    /\ defs' = Append(defs, [name |-> n, kind |-> "ui", cap |-> CapOr(cap, 50)])
    /\ acked' = acked \cup {n}
    /\ UNCHANGED <<file, current, started, tokens, reload, dirty, loaded>>

\* The read back fails: the row stays and the registry does not know of it.
CreateHalf(n, cap) ==
    /\ spent.faults < MaxFaults /\ spent.edits < MaxEdits
    /\ spent' = [spent EXCEPT !.faults = @ + 1, !.edits = @ + 1]
    /\ ~HasDef(n) /\ n \notin NamesIn(rows)
    /\ rows' = Append(rows, [name |-> n, cap |-> cap])
    /\ dirty' = TRUE
    /\ UNCHANGED <<file, defs, current, started, tokens, reload, acked, loaded>>

IsUi(n) == HasDef(n) /\ defs[At(defs, n)].kind = "ui"

\* UpdateUI of a facet the operator made: a zero cap clears the column and
\* leaves the definition's cap alone.
Update(n, cap) ==
    /\ Spend("edits", MaxEdits)
    /\ IsUi(n) /\ n \in NamesIn(rows)
    /\ rows' = [rows EXCEPT ![At(rows, n)].cap = cap]
    /\ defs' = [defs EXCEPT ![At(defs, n)].cap = CapOr(cap, @)]
    /\ UNCHANGED <<file, current, started, tokens, reload, acked, dirty, loaded>>

\* UpdateCustomFacet's read back fails after its update.
UpdateHalf(n, cap) ==
    /\ spent.faults < MaxFaults /\ spent.edits < MaxEdits
    /\ spent' = [spent EXCEPT !.faults = @ + 1, !.edits = @ + 1]
    /\ IsUi(n) /\ n \in NamesIn(rows)
    /\ rows' = [rows EXCEPT ![At(rows, n)].cap = cap]
    /\ dirty' = TRUE
    /\ UNCHANGED <<file, defs, current, started, tokens, reload, acked, loaded>>

\* DeleteUI; without a row it answers 404 and the definition stays.
Delete(n) ==
    /\ Spend("edits", MaxEdits)
    /\ IsUi(n) /\ n \in NamesIn(rows)
    /\ rows' = RemoveAt(rows, At(rows, n))
    /\ defs' = RemoveAt(defs, At(defs, n))
    /\ acked' = acked \ {n}
    /\ UNCHANGED <<file, current, started, tokens, reload, dirty, loaded>>

-----------------------------------------------------------------------------
(* reloader.Reload, for SIGHUP and POST /api/admin/reload. *)

ReloadPlain ==          \* mutant: a reload forgets the tokens of the environment
    /\ reload.at = "idle" /\ Spend("reloads", MaxReloads)
    /\ reload' = IF Loads(file) /\ Violations(current, Layers(file)) = {}
                 THEN [Idle EXCEPT !.at = "list", !.next = Layers(file)]
                 ELSE Idle
    /\ UNCHANGED <<file, rows, defs, current, started, tokens, acked, dirty, loaded>>

\* The file is loaded; a file that does not load, or that differs in a field
\* that is not reloadable, ends the reload here.
Reload ==
    /\ reload.at = "idle" /\ Spend("reloads", MaxReloads)
    /\ reload' = IF Loads(file) /\ Violations(current, Compose(file)) = {}
                 THEN [Idle EXCEPT !.at = "list", !.next = Compose(file)]
                 ELSE Idle
    /\ UNCHANGED <<file, rows, defs, current, started, tokens, acked, dirty, loaded>>

\* Registry.Load: loadUIRows, without the registry's lock.
ListRows ==
    /\ reload.at = "list"
    /\ reload' = [reload EXCEPT !.at = "rebuild", !.list = rows]
    /\ UNCHANGED <<file, rows, defs, current, started, tokens, acked, dirty,
                   loaded, spent>>

\* The statement fails, or the request's context ends: nothing was applied.
ListFails ==
    /\ reload.at = "list" /\ Spend("faults", MaxFaults)
    /\ reload' = Idle
    /\ UNCHANGED <<file, rows, defs, current, started, tokens, acked, dirty, loaded>>

RebuildPurges ==        \* mutant: rows the configuration hides are deleted
    /\ reload.at = "rebuild"
    /\ defs' = Rebuild(reload.next, reload.list)
    /\ rows' = SelectSeq(rows, LAMBDA r : r.name \notin NamesIn(reload.next.custom))
    /\ loaded' = reload.next
    /\ dirty' = (reload.list # rows)
    /\ reload' = [reload EXCEPT !.at = "tokens"]
    /\ UNCHANGED <<file, current, started, tokens, acked, spent>>

\* rebuildLocked, from the rows as they were listed.
RebuildDefs ==
    /\ reload.at = "rebuild"
    /\ defs' = Rebuild(reload.next, reload.list)
    /\ loaded' = reload.next
    /\ dirty' = (reload.list # rows)
    /\ reload' = [reload EXCEPT !.at = "tokens"]
    /\ UNCHANGED <<file, rows, current, started, tokens, acked, spent>>

SwapTokensMerged ==     \* mutant: tokens that left the file stay accepted
    /\ reload.at = "tokens"
    /\ tokens' = LET new == TokenMap(reload.next)
                 IN [n \in DOMAIN tokens \cup DOMAIN new |->
                       (IF n \in DOMAIN tokens THEN tokens[n] ELSE {})
                       \cup IF n \in DOMAIN new THEN new[n] ELSE {}]
    /\ reload' = [reload EXCEPT !.at = "commit"]
    /\ UNCHANGED <<file, rows, defs, current, started, acked, dirty, loaded, spent>>

\* tokenSink: authChecker.store swaps one pointer.
SwapTokens ==
    /\ reload.at = "tokens"
    /\ tokens' = TokenMap(reload.next)
    /\ reload' = [reload EXCEPT !.at = "commit"]
    /\ UNCHANGED <<file, rows, defs, current, started, acked, dirty, loaded, spent>>

Commit ==
    /\ reload.at = "commit"
    /\ current' = reload.next
    /\ reload' = Idle
    /\ UNCHANGED <<file, rows, defs, started, tokens, acked, dirty, loaded, spent>>

-----------------------------------------------------------------------------
\* The operator writes the file.
Rewrite ==
    /\ \E f \in Files \ {file} : file' = f
    /\ UNCHANGED <<rows, defs, current, started, tokens, reload, acked, dirty,
                   loaded, spent>>

\* The process ends at any point and starts again on a file that loads.
Restart ==
    /\ Spend("restarts", MaxRestarts)
    /\ Loads(file)
    /\ current' = Compose(file) /\ started' = current' /\ loaded' = current'
    /\ defs' = Rebuild(current', rows)
    /\ tokens' = TokenMap(current')
    /\ reload' = Idle
    /\ dirty' = FALSE
    /\ UNCHANGED <<file, rows, acked>>

Next ==
    \/ \E n \in Names, cap \in Caps :
          Create(n, cap) \/ CreateHalf(n, cap) \/ Update(n, cap) \/ UpdateHalf(n, cap)
    \/ \E n \in Names : Delete(n)
    \/ Reload \/ ListRows \/ ListFails \/ RebuildDefs \/ SwapTokens \/ Commit
    \/ Rewrite \/ Restart

Spec == Init /\ [][Next]_vars
-----------------------------------------------------------------------------
(* Properties. *)

\* Type invariant; every configuration in use is valid, and rows and
\* definitions keep the caps requests carry.
TypeOK ==
    /\ Valid(current) /\ Valid(started) /\ Valid(loaded)
    /\ \A i \in DOMAIN rows : rows[i] \in [name : Names, cap : Caps]
    /\ \A i \in DOMAIN defs :
          defs[i].kind \in {"builtin", "config", "ui"} /\ defs[i].cap > 0
    /\ reload.at \in {"idle", "list", "rebuild", "tokens", "commit"}
    /\ acked \subseteq Names /\ dirty \in BOOLEAN

Shape(seq) == [i \in DOMAIN seq |-> [name |-> seq[i].name, kind |-> seq[i].kind]]

\* Unless an edit fell between the listing and the rebuild of a reload, or a
\* read back failed, the registry is what a rebuild from the table would give,
\* in its order, with every cap the operator set (registry.go:52-55).
Aligned ==
    ~dirty =>
       /\ Shape(defs) = Shape(Rebuild(loaded, rows))
       /\ \A i \in DOMAIN defs : defs[i].kind = "ui" =>
             LET row == rows[At(rows, defs[i].name)]
             IN row.cap > 0 => defs[i].cap = row.cap

\* However edits and reloads interleave, no name has two definitions, the
\* builtin facets come first, and a facet of the configuration hides an
\* operator's of the same name, never the reverse (registry.go:160-190, 317).
ConfigWins ==
    /\ \A i, j \in DOMAIN defs : defs[i].name = defs[j].name => i = j
    /\ \A i \in 1..Len(BuiltinSpecs) : defs[i].name = BuiltinSpecs[i].name
    /\ \A n \in NamesIn(loaded.custom) \ NamesIn(BuiltinSpecs) :
          HasDef(n) /\ defs[At(defs, n)].kind = "config"

\* Once a reload is over, completed or cut, facets, tokens and the current
\* configuration are those of one file, and no chain of reloads changes a field
\* only a restart may (main.go:662-686).
AppliedWhole ==
    /\ reload.at = "idle" => loaded = current /\ tokens = TokenMap(current)
    /\ \A f \in Fixed : current[f] = started[f]

\* A facet whose creation was acknowledged stays in the table until it is
\* deleted, hidden or not, across reloads and restarts.
AckedPersists == acked \subseteq NamesIn(rows)

\* The table and the registry, edits and reloads together.
RegistrySound == TypeOK /\ Aligned /\ ConfigWins /\ AckedPersists

\* Tokens of the environment are "set-at-startup-only" (docs/configuration.md:117):
\* no chain of reloads, file edits and restarts takes them from a source of the
\* configuration in use, though the file may change, drop and bring back the
\* tokens it lists for that source itself (config.go:259-295, main.go:679).
EnvTokensKept ==
    reload.at = "idle" =>
       \A n \in DOMAIN EnvTokens \cap SourceNames(current) :
          EnvTokens[n] # {} => n \in DOMAIN tokens /\ EnvTokens[n] \subseteq tokens[n]

\* config.go:271-273 says a source named by an environment token "must already
\* exist in the config; an env var for an unknown source is ignored at load time
\* and surfaced in validation": tokens are required only of sources that the
\* other layers name, in whichever order files come and go.
UnknownSourceRefused ==
    reload.at = "idle" =>
       \E f \in Files : /\ Loads(f) /\ current = Compose(f)
                        /\ DOMAIN tokens \subseteq SourceNames(Layers(f))

\* A facet whose creation was acknowledged is in the registry: registry.go:53-55
\* says CreateUI and its like keep the in-memory state aligned with the database.
AckedListed == reload.at = "idle" => acked \subseteq NamesIn(defs)

=============================================================================
