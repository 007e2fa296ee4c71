---------------------------- MODULE FacetsProofs -----------------------------
(***************************************************************************)
(* Proofs about Facets, for any files and environment, any facets and any  *)
(* interleaving of edits, reloads, failures and restarts: what a reload    *)
(* leaves behind, the tokens that are required, and that the registry is   *)
(* what the table and the configuration say.                               *)
(***************************************************************************)
EXTENDS Facets, FiniteSetTheorems, SequenceTheorems, NaturalsInduction, TLAPS

-----------------------------------------------------------------------------
(* Reloads. *)

Stages == {"idle", "list", "rebuild", "tokens", "commit"}

\* How far a reload has come: which of facets, tokens and configuration are
\* the new ones, and that only a restart changes a fixed field.
AppliedInv ==
    /\ reload.at \in Stages
    /\ loaded = IF reload.at \in {"tokens", "commit"} THEN reload.next ELSE current
    /\ tokens = TokenMap(IF reload.at = "commit" THEN reload.next ELSE current)
    /\ reload.at # "idle" => \A f \in Fixed : reload.next[f] = current[f]
    /\ \A f \in Fixed : current[f] = started[f]

\* The steps of a reload, as records.
LEMMA ReloadShape ==
    ASSUME NEW x, NEW y
    PROVE  /\ [Idle EXCEPT !.at = x, !.next = y].at = x
           /\ [Idle EXCEPT !.at = x, !.next = y].next = y
           /\ Idle.at = "idle"
BY DEF Idle

LEMMA NothingViolated ==
    ASSUME NEW old, NEW new, Violations(old, new) = {}
    PROVE  \A f \in Fixed : new[f] = old[f]
<1>1. Fixed \subseteq Fields
  BY DEF Fixed, Fields, Defaults
<1>2. QED
  BY <1>1 DEF Violations, Changed

\* A reload in progress is a record of where it is, what it takes over and
\* the rows it listed.
ReloadTyped == DOMAIN reload = {"at", "next", "list"}
               /\ reload = [at |-> reload.at, next |-> reload.next, list |-> reload.list]

LEMMA AppliedInit == Init => AppliedInv /\ ReloadTyped
<1> SUFFICES ASSUME Init PROVE AppliedInv /\ ReloadTyped
  OBVIOUS
<1>1. /\ reload = Idle /\ started = current /\ loaded = current
      /\ tokens = TokenMap(current)
  BY DEF Init
<1>2. reload.at = "idle"
  BY <1>1, ReloadShape
<1>3. ReloadTyped
  BY <1>1 DEF ReloadTyped, Idle
<1>4. QED
  BY <1>1, <1>2, <1>3 DEF AppliedInv, Stages

LEMMA AppliedNext == AppliedInv /\ ReloadTyped /\ [Next]_vars => AppliedInv' /\ ReloadTyped'
<1> SUFFICES ASSUME AppliedInv, ReloadTyped, [Next]_vars
             PROVE  AppliedInv' /\ ReloadTyped'
  OBVIOUS
<1>1. CASE UNCHANGED <<reload, loaded, tokens, current, started>>
  BY <1>1 DEF AppliedInv, ReloadTyped
<1>2. CASE Reload
  <2>1. UNCHANGED <<loaded, tokens, current, started>> /\ reload.at = "idle"
    BY <1>2 DEF Reload
  <2>2. CASE reload' = Idle
    <3>1. reload'.at = "idle" /\ ReloadTyped'
      BY <2>2, ReloadShape DEF ReloadTyped, Idle
    <3>2. QED
      BY <2>1, <3>1 DEF AppliedInv, Stages
  <2>3. CASE /\ reload' = [Idle EXCEPT !.at = "list", !.next = Compose(file)]
             /\ Violations(current, Compose(file)) = {}
    <3>1. reload'.at = "list" /\ reload'.next = Compose(file) /\ ReloadTyped'
      BY <2>3, ReloadShape DEF ReloadTyped, Idle
    <3>2. \A f \in Fixed : reload'.next[f] = current[f]
      BY <2>3, <3>1, NothingViolated
    <3>3. QED
      BY <2>1, <3>1, <3>2 DEF AppliedInv, Stages
  <2>4. QED
    BY <1>2, <2>2, <2>3 DEF Reload
<1>3. CASE ListRows
  <2>1. /\ UNCHANGED <<loaded, tokens, current, started>> /\ reload.at = "list"
        /\ reload' = [reload EXCEPT !.at = "rebuild", !.list = rows]
    BY <1>3 DEF ListRows
  <2>2. reload'.at = "rebuild" /\ reload'.next = reload.next /\ ReloadTyped'
    BY <2>1 DEF ReloadTyped
  <2>3. QED
    BY <2>1, <2>2 DEF AppliedInv, Stages
<1>4. CASE ListFails
  <2>1. /\ UNCHANGED <<loaded, tokens, current, started>> /\ reload.at = "list"
        /\ reload' = Idle
    BY <1>4 DEF ListFails
  <2>2. reload'.at = "idle" /\ ReloadTyped'
    BY <2>1, ReloadShape DEF ReloadTyped, Idle
  <2>3. QED
    BY <2>1, <2>2 DEF AppliedInv, Stages
<1>5. CASE RebuildDefs
  <2>1. /\ UNCHANGED <<tokens, current, started>> /\ loaded' = reload.next
        /\ reload.at = "rebuild" /\ reload' = [reload EXCEPT !.at = "tokens"]
    BY <1>5 DEF RebuildDefs
  <2>2. reload'.at = "tokens" /\ reload'.next = reload.next /\ ReloadTyped'
    BY <2>1 DEF ReloadTyped
  <2>3. QED
    BY <2>1, <2>2 DEF AppliedInv, Stages
<1>6. CASE SwapTokens
  <2>1. /\ UNCHANGED <<loaded, current, started>> /\ tokens' = TokenMap(reload.next)
        /\ reload.at = "tokens" /\ reload' = [reload EXCEPT !.at = "commit"]
    BY <1>6 DEF SwapTokens
  <2>2. reload'.at = "commit" /\ reload'.next = reload.next /\ ReloadTyped'
    BY <2>1 DEF ReloadTyped
  <2>3. QED
    BY <2>1, <2>2 DEF AppliedInv, Stages
<1>7. CASE Commit
  <2>1. /\ UNCHANGED <<loaded, tokens, started>> /\ current' = reload.next
        /\ reload.at = "commit" /\ reload' = Idle
    BY <1>7 DEF Commit
  <2>2. reload'.at = "idle" /\ ReloadTyped'
    BY <2>1, ReloadShape DEF ReloadTyped, Idle
  <2>3. QED
    BY <2>1, <2>2 DEF AppliedInv, Stages
<1>8. CASE Restart
  <2>1. /\ reload' = Idle /\ started' = current' /\ loaded' = current'
        /\ tokens' = TokenMap(current')
    BY <1>8 DEF Restart
  <2>2. reload'.at = "idle" /\ ReloadTyped'
    BY <2>1, ReloadShape DEF ReloadTyped, Idle
  <2>3. QED
    BY <2>1, <2>2 DEF AppliedInv, Stages
<1>9. CASE \/ \E n \in Names, cap \in Caps :
                 Create(n, cap) \/ CreateHalf(n, cap) \/ Update(n, cap) \/ UpdateHalf(n, cap)
           \/ \E n \in Names : Delete(n)
           \/ Rewrite \/ UNCHANGED vars
  BY <1>1, <1>9 DEF Create, CreateHalf, Update, UpdateHalf, Delete, Rewrite, vars
<1>10. QED
  BY <1>2, <1>3, <1>4, <1>5, <1>6, <1>7, <1>8, <1>9 DEF Next

\* A reload is taken over whole or not at all, wherever it is cut by an error
\* or a restart, and no chain of reloads changes what is fixed
\* (main.go:662-686).
THEOREM AppliedWholeAlways == Spec => []AppliedWhole
<1>1. AppliedInv => AppliedWhole
  BY DEF AppliedInv, AppliedWhole
<1>2. QED
  BY <1>1, AppliedInit, AppliedNext, PTL DEF Spec

-----------------------------------------------------------------------------
(* Tokens of the environment. *)

\* SetToSeq lists a finite set: nothing else, and all of it.
LEMMA Listed ==
    ASSUME NEW S, IsFiniteSet(S)
    PROVE  /\ SetToSeq(S) \in Seq(S)
           /\ \A x \in S : \E i \in DOMAIN SetToSeq(S) : SetToSeq(S)[i] = x
<1> DEFINE k == Cardinality(S)
           s == SetToSeq(S)
<1>1. k \in Nat /\ ExistsBijection(1..k, S)
  BY FS_CardinalityType
<1>2. PICK b : b \in Bijection(1..k, S)
  BY <1>1 DEF ExistsBijection
<1>3. b \in [1..k -> S] /\ IsInjective(b)
  BY <1>2 DEF Bijection, Injection, IsInjective
<1>4. s \in [1..k -> S] /\ IsInjective(s)
  BY <1>3 DEF SetToSeq
<1>5. s \in Injection(1..k, S)
  BY <1>4 DEF Injection, IsInjective
<1>6. Cardinality(1..k) = k
  BY <1>1, FS_Interval
<1>7. s \in Surjection(1..k, S)
  BY <1>5, <1>6, FS_Injection
<1>8. \A x \in S : \E i \in 1..k : s[i] = x
  BY <1>7 DEF Surjection
<1>9. s \in Seq(S) /\ DOMAIN s = 1..k
  BY <1>1, <1>4
<1>10. QED
  BY <1>8, <1>9

\* The sources of a composed configuration before the tokens are merged.
LEMMA ComposedSources ==
    ASSUME NEW f \in Files, NEW cfg, cfg = Layers(f)
    PROVE  "sources" \in DOMAIN cfg /\ cfg.sources \in Seq(Sources)
<1>1. "sources" \in DOMAIN Defaults /\ Defaults.sources \in Seq(Sources)
  <2>1. [name |-> "default", tokens |-> {}] \in Sources
    <3>1. "default" \in SourceIds
      BY ConfigAssumption
    <3>2. \A a \in SourceIds, b \in SUBSET Tokens : [name |-> a, tokens |-> b] \in Sources
      BY DEF Sources
    <3>3. QED
      BY <3>1, <3>2, {} \in SUBSET Tokens
  <2>2. /\ "sources" \in DOMAIN Defaults
        /\ Defaults.sources = <<[name |-> "default", tokens |-> {}]>>
    <3>1. "sources" \in DOMAIN Defaults
      BY ONLY DEF Defaults
    <3>2. Defaults.sources = <<[name |-> "default", tokens |-> {}]>>
      BY ONLY DEF Defaults
    <3>3. QED
      BY <3>1, <3>2
  <2>3. \A x \in Sources : <<x>> \in Seq(Sources)
    OBVIOUS
  <2>4. QED
    BY <2>1, <2>2, <2>3
<1>2. ASSUME NEW top, NEW bottom, SourcesTyped(top),
             "sources" \in DOMAIN bottom, bottom.sources \in Seq(Sources)
      PROVE  "sources" \in DOMAIN Over(top, bottom) /\ Over(top, bottom).sources \in Seq(Sources)
  BY <1>2 DEF Over, SourcesTyped
<1>3. SourcesTyped(FileLayer(f)) /\ SourcesTyped(Port) /\ SourcesTyped(Env)
  BY FacetsAssumption, ConfigAssumption
<1>4. cfg = Over(Env, Over(Port, Over(FileLayer(f), Defaults)))
  BY DEF Layers
<1>5. QED
  BY <1>1, <1>2, <1>3, <1>4

\* A source the environment gives tokens is in the merged list, with them,
\* whether the configuration names it or not.
LEMMA MergedHas ==
    ASSUME NEW cfg, "sources" \in DOMAIN cfg, cfg.sources \in Seq(Sources),
           NEW n \in DOMAIN EnvTokens
    PROVE  \E i \in DOMAIN MergeTokens(cfg).sources :
              /\ MergeTokens(cfg).sources[i].name = n
              /\ EnvTokens[n] \subseteq MergeTokens(cfg).sources[i].tokens
<1> DEFINE known(s) == [s EXCEPT !.tokens = @ \cup IF s.name \in DOMAIN EnvTokens
                                                   THEN EnvTokens[s.name] ELSE {}]
           N == DOMAIN EnvTokens \ SourceNames(cfg)
           phantom == [m \in N |-> [name |-> m, tokens |-> EnvTokens[m]]]
           P == {[name |-> m, tokens |-> EnvTokens[m]] : m \in N}
           old == [i \in DOMAIN cfg.sources |-> known(cfg.sources[i])]
           new == SetToSeq(P)
<1>1. MergeTokens(cfg).sources = old \o new
  BY DEF MergeTokens
<1>2. IsFiniteSet(P)
  <2>1. IsFiniteSet(N)
    BY ConfigAssumption, FS_Subset, Zenon
  <2>2. phantom \in Surjection(N, P)
    BY DEF Surjection
  <2> HIDE DEF N, P, phantom
  <2>3. QED
    BY <2>1, <2>2, FS_Surjection
<1>3. P \subseteq Sources
  BY ConfigAssumption DEF Sources
<1>4. new \in Seq(P) /\ \A x \in P : \E i \in DOMAIN new : new[i] = x
  BY <1>2, Listed
<1>5. new \in Seq(Sources)
  BY <1>3, <1>4
<1>6. old \in Seq(Sources) /\ Len(old) = Len(cfg.sources)
  <2>1. ASSUME NEW s \in Sources PROVE known(s) \in Sources
    BY ConfigAssumption DEF Sources
  <2>2. QED
    BY <2>1
<1> HIDE DEF new, P
<1>7. CASE n \in SourceNames(cfg)
  <2>1. PICK i \in DOMAIN cfg.sources : cfg.sources[i].name = n
    BY <1>7 DEF SourceNames
  <2>2. cfg.sources[i] \in Sources
    BY <2>1
  <2>3. known(cfg.sources[i]).name = n /\ EnvTokens[n] \subseteq known(cfg.sources[i]).tokens
    BY <2>1, <2>2 DEF Sources
  <2>4. old[i] = known(cfg.sources[i])
    BY <2>1
  <2>7. i \in 1..Len(old)
    BY <1>6, <2>1
  <2> HIDE DEF old
  <2>5. i \in DOMAIN (old \o new) /\ (old \o new)[i] = old[i]
    BY <1>5, <1>6, <2>7
  <2>6. QED
    BY <1>1, <2>3, <2>4, <2>5
<1>8. CASE n \notin SourceNames(cfg)
  <2>1. [name |-> n, tokens |-> EnvTokens[n]] \in P
    BY <1>8 DEF P
  <2>2. PICK i \in DOMAIN new : new[i] = [name |-> n, tokens |-> EnvTokens[n]]
    BY <1>4, <2>1
  <2> HIDE DEF old
  <2>3. /\ Len(old) + i \in DOMAIN (old \o new)
        /\ (old \o new)[Len(old) + i] = new[i]
    BY <1>5, <1>6, <2>2
  <2>4. QED
    BY <1>1, <2>2, <2>3
<1>9. QED
  BY <1>7, <1>8

\* The token map of sources with names of their own has every source that
\* requires a token, with its tokens.
LEMMA Mapped ==
    ASSUME NEW cfg, Valid(cfg), NEW i \in DOMAIN cfg.sources,
           cfg.sources[i].tokens # {}
    PROVE  /\ cfg.sources[i].name \in DOMAIN TokenMap(cfg)
           /\ TokenMap(cfg)[cfg.sources[i].name] = cfg.sources[i].tokens
<1> DEFINE with(n) == CHOOSE j \in DOMAIN cfg.sources : cfg.sources[j].name = n
           m == cfg.sources[i].name
           D == {k \in SourceNames(cfg) : cfg.sources[with(k)].tokens # {}}
<1>1. with(m) \in DOMAIN cfg.sources /\ cfg.sources[with(m)].name = m
  OBVIOUS
<1> HIDE DEF with
<1>7. \A j \in DOMAIN cfg.sources : cfg.sources[j].name = cfg.sources[i].name => j = i
  <2>1. SourcesValid(cfg.sources)
    BY DEF Valid
  <2>2. QED
    BY <2>1 DEF SourcesValid
<1>2. with(m) = i
  BY <1>1, <1>7
<1>3. m \in SourceNames(cfg)
  BY DEF SourceNames
<1>4. TokenMap(cfg) = [k \in D |-> cfg.sources[with(k)].tokens]
  BY DEF TokenMap, with
<1>5. m \in D
  BY <1>2, <1>3
<1>6. QED
  BY <1>2, <1>4, <1>5

\* The tokens, and what a reload is about to take over, are those of contents
\* the file has had and that load.
TokensInv ==
    /\ file \in Files
    /\ \E f \in Files : Loads(f) /\ tokens = TokenMap(Compose(f))
    /\ reload.at # "idle" => \E f \in Files : Loads(f) /\ reload.next = Compose(f)

LEMMA TokensInit == Init => TokensInv
<1> SUFFICES ASSUME Init PROVE TokensInv
  OBVIOUS
<1>1. file \in Files /\ Loads(file) /\ tokens = TokenMap(Compose(file)) /\ reload.at = "idle"
  BY ReloadShape DEF Init
<1>2. QED
  BY <1>1 DEF TokensInv

LEMMA TokensNext == TokensInv /\ ReloadTyped /\ [Next]_vars => TokensInv'
<1> SUFFICES ASSUME TokensInv, ReloadTyped, [Next]_vars PROVE TokensInv'
  OBVIOUS
<1>1. CASE UNCHANGED <<file, reload, tokens>>
  BY <1>1 DEF TokensInv
<1>2. CASE Reload
  <2>1. UNCHANGED <<file, tokens>>
    BY <1>2 DEF Reload
  <2>2. \/ reload'.at = "idle"
        \/ Loads(file) /\ reload'.next = Compose(file)
    BY <1>2, ReloadShape DEF Reload
  <2>3. QED
    BY <2>1, <2>2 DEF TokensInv
<1>3. CASE ListRows \/ RebuildDefs
  <2>1. UNCHANGED <<file, tokens>> /\ reload.at # "idle"
    BY <1>3 DEF ListRows, RebuildDefs
  <2>2. reload'.next = reload.next
    BY <1>3 DEF ListRows, RebuildDefs, ReloadTyped
  <2>3. QED
    BY <2>1, <2>2 DEF TokensInv
<1>4. CASE ListFails \/ Commit
  <2>1. UNCHANGED <<file, tokens>> /\ reload'.at = "idle"
    BY <1>4, ReloadShape DEF ListFails, Commit
  <2>2. QED
    BY <2>1 DEF TokensInv
<1>5. CASE SwapTokens
  <2>1. file' = file /\ reload.at # "idle" /\ tokens' = TokenMap(reload.next)
    BY <1>5 DEF SwapTokens
  <2>2. reload'.next = reload.next
    BY <1>5 DEF SwapTokens, ReloadTyped
  <2>3. QED
    BY <2>1, <2>2 DEF TokensInv
<1>6. CASE Restart
  <2>1. /\ file' = file /\ Loads(file) /\ tokens' = TokenMap(Compose(file))
        /\ reload'.at = "idle"
    BY <1>6, ReloadShape DEF Restart
  <2>2. QED
    BY <2>1 DEF TokensInv
<1>7. CASE Rewrite
  <2>1. file' \in Files /\ UNCHANGED <<tokens, reload>>
    BY <1>7 DEF Rewrite
  <2>2. QED
    BY <2>1 DEF TokensInv
<1>8. CASE \/ \E n \in Names, cap \in Caps :
                 Create(n, cap) \/ CreateHalf(n, cap) \/ Update(n, cap) \/ UpdateHalf(n, cap)
           \/ \E n \in Names : Delete(n)
           \/ UNCHANGED vars
  BY <1>1, <1>8 DEF Create, CreateHalf, Update, UpdateHalf, Delete, vars
<1>9. QED
  BY <1>2, <1>3, <1>4, <1>5, <1>6, <1>7, <1>8 DEF Next

\* No edit of the file, no reload, completed or failed, and no restart takes the
\* tokens of the environment from a source of the configuration
\* (config.go:259-295): they are required of it whatever the file lists.
THEOREM EnvTokensKeptAlways == Spec => []EnvTokensKept
<1>1. TokensInv => EnvTokensKept
  <2> SUFFICES ASSUME TokensInv, NEW n \in DOMAIN EnvTokens, EnvTokens[n] # {}
               PROVE  n \in DOMAIN tokens /\ EnvTokens[n] \subseteq tokens[n]
    BY DEF EnvTokensKept
  <2>1. PICK f \in Files : Loads(f) /\ tokens = TokenMap(Compose(f))
    BY DEF TokensInv
  <2> DEFINE cfg == Layers(f)
  <2>2. Compose(f) = MergeTokens(cfg) /\ Valid(Compose(f))
    BY <2>1 DEF Compose, Loads
  <2>3. "sources" \in DOMAIN cfg /\ cfg.sources \in Seq(Sources)
    BY ComposedSources
  <2> HIDE DEF cfg
  <2>4. PICK i \in DOMAIN Compose(f).sources :
                /\ Compose(f).sources[i].name = n
                /\ EnvTokens[n] \subseteq Compose(f).sources[i].tokens
    BY <2>2, <2>3, MergedHas
  <2>5. Compose(f).sources[i].tokens # {}
    BY <2>4
  <2>6. QED
    BY <2>1, <2>2, <2>4, <2>5, Mapped
<1>2. QED
  BY <1>1, AppliedInit, AppliedNext, TokensInit, TokensNext, PTL DEF Spec

-----------------------------------------------------------------------------
(* The members of a finite set in order. *)

Rank(K, i) == Cardinality({j \in K : j <= i})

\* Ranks are within bounds and grow with the members.
LEMMA RankGrows ==
    ASSUME NEW K \in SUBSET Int, IsFiniteSet(K)
    PROVE  /\ Cardinality(K) \in Nat
           /\ \A i \in K : Rank(K, i) \in 1..Cardinality(K)
           /\ \A i, j \in K : i < j => Rank(K, i) < Rank(K, j)
<1> DEFINE upto(i) == {j \in K : j <= i}
<1>1. Cardinality(K) \in Nat
  BY FS_CardinalityType
<1>2. \A i \in K : IsFiniteSet(upto(i)) /\ Cardinality(upto(i)) \in Nat
                   /\ Cardinality(upto(i)) <= Cardinality(K)
  <2> TAKE i \in K
  <2>1. upto(i) \in SUBSET K
    OBVIOUS
  <2> HIDE DEF upto
  <2>2. QED
    BY <2>1, FS_Subset, FS_CardinalityType
<1>3. \A i \in K : Cardinality(upto(i)) # 0
  <2> TAKE i \in K
  <2>1. i \in upto(i)
    OBVIOUS
  <2> HIDE DEF upto
  <2>2. QED
    BY <1>2, <2>1, FS_EmptySet
<1>4. ASSUME NEW i \in K, NEW j \in K, i < j
      PROVE  Cardinality(upto(i)) < Cardinality(upto(j))
  <2>1. upto(i) \in SUBSET upto(j)
    <3>1. \A k \in K : k <= i => k <= j
      <4> TAKE k \in K
      <4>1. k \in Int /\ i \in Int /\ j \in Int
        OBVIOUS
      <4>2. QED
        BY <1>4, <4>1
    <3>2. QED
      BY <3>1
  <2>2. j \in upto(j) /\ j \notin upto(i)
    BY <1>4
  <2> HIDE DEF upto
  <2>3. Cardinality(upto(i)) <= Cardinality(upto(j))
    BY <1>2, <2>1, FS_Subset
  <2>4. Cardinality(upto(i)) # Cardinality(upto(j))
    BY <1>2, <2>1, <2>2, FS_Subset
  <2>5. QED
    BY <1>2, <2>3, <2>4
<1>5. \A i : Rank(K, i) = Cardinality(upto(i))
  BY DEF Rank
<1> HIDE DEF upto
<1>6. QED
  BY <1>1, <1>2, <1>3, <1>4, <1>5

LEMMA RankOnly ==
    ASSUME NEW K \in SUBSET Int, IsFiniteSet(K), NEW i \in K, NEW j \in K,
           Rank(K, i) = Rank(K, j)
    PROVE  i = j
<1>1. i \in Int /\ j \in Int /\ Rank(K, i) \in Int /\ Rank(K, j) \in Int
  BY RankGrows
<1>2. ~(i < j) /\ ~(j < i)
  BY <1>1, RankGrows
<1>3. QED
  BY <1>1, <1>2

\* InOrder lists the set, smallest first.
LEMMA InOrderIs ==
    ASSUME NEW K \in SUBSET Int, IsFiniteSet(K)
    PROVE  /\ InOrder(K) \in [1..Cardinality(K) -> K]
           /\ \A k \in 1..Cardinality(K) : Rank(K, InOrder(K)[k]) = k
           /\ \A a, b \in 1..Cardinality(K) : a < b => InOrder(K)[a] < InOrder(K)[b]
           /\ \A i \in K : \E k \in 1..Cardinality(K) : InOrder(K)[k] = i
<1> DEFINE n == Cardinality(K)
           f == [i \in K |-> Rank(K, i)]
           e == InOrder(K)
<1>1. n \in Nat /\ f \in [K -> 1..n]
  BY RankGrows
<1>2. f \in Injection(K, 1..n)
  BY <1>1, RankOnly DEF Injection, IsInjective
<1>3. IsFiniteSet(1..n) /\ Cardinality(1..n) = n
  BY <1>1, FS_Interval
<1>4. f \in Surjection(K, 1..n)
  BY <1>2, <1>3, FS_Injection
<1>5. \A k \in 1..n : \E i \in K : Rank(K, i) = k
  BY <1>4 DEF Surjection
<1>6. e = [k \in 1..n |-> CHOOSE i \in K : Rank(K, i) = k]
  BY DEF InOrder, Rank
<1>7. \A k \in 1..n : e[k] \in K /\ Rank(K, e[k]) = k
  BY <1>5, <1>6
<1>8. e \in [1..n -> K]
  BY <1>6, <1>7
<1>9. ASSUME NEW a \in 1..n, NEW b \in 1..n, a < b
      PROVE  e[a] < e[b]
  <2> HIDE DEF e, n
  <2>0. \A k \in 1..n : k \in Int
    BY <1>1
  <2>1. e[a] \in Int /\ e[b] \in Int /\ a \in Int /\ b \in Int
    BY <1>7, <2>0
  <2>2. Rank(K, e[a]) = a /\ Rank(K, e[b]) = b
    BY <1>7
  <2>3. e[a] # e[b] /\ ~(e[b] < e[a])
    BY <1>7, <1>9, <2>1, <2>2, RankGrows
  <2>4. QED
    BY <2>1, <2>3
<1>10. ASSUME NEW i \in K PROVE \E k \in 1..n : e[k] = i
  <2>1. Rank(K, i) \in 1..n
    BY RankGrows
  <2>3. e[Rank(K, i)] \in K /\ Rank(K, e[Rank(K, i)]) = Rank(K, i)
    BY <1>7, <2>1
  <2>5. \A a, b \in K : Rank(K, a) = Rank(K, b) => a = b
    BY RankOnly
  <2>2. e[Rank(K, i)] = i
    BY <2>3, <2>5
  <2>4. QED
    BY <2>1, <2>2
<1>11. QED
  BY <1>7, <1>8, <1>9, <1>10

\* Nothing else does.
LEMMA InOrderOnly ==
    ASSUME NEW K \in SUBSET Int, IsFiniteSet(K), NEW m \in Nat,
           NEW e \in [1..m -> K],
           \A a, b \in 1..m : a < b => e[a] < e[b],
           \A i \in K : \E k \in 1..m : e[k] = i
    PROVE  Cardinality(K) = m /\ InOrder(K) = e
<1>1. \A k \in 1..m : e[k] \in K /\ e[k] \in Int
  OBVIOUS
<1>2. \A a, b \in 1..m : e[a] = e[b] => a = b
  <2> TAKE a, b \in 1..m
  <2>1. a \in Int /\ b \in Int /\ e[a] \in Int /\ e[b] \in Int
    BY <1>1
  <2>2. QED
    BY <2>1
<1>3. e \in Surjection(1..m, K) /\ e \in Injection(1..m, K)
  BY <1>2 DEF Surjection, Injection, IsInjective
<1>4. Cardinality(K) = m
  BY <1>3, FS_Interval, FS_Surjection
<1>5. ASSUME NEW k \in 1..m PROVE Rank(K, e[k]) = k
  <2> DEFINE g == [x \in 1..k |-> e[x]]
             U == {j \in K : j <= e[k]}
  <2>1. k \in Nat /\ 1..k \subseteq 1..m
    OBVIOUS
  <2>2. \A x \in 1..m : e[x] <= e[k] <=> x <= k
    <3> TAKE x \in 1..m
    <3>1. x \in Int /\ k \in Int /\ e[x] \in Int /\ e[k] \in Int
      BY <1>1
    <3>2. x < k \/ x = k \/ k < x
      BY <3>1
    <3>3. QED
      BY <3>1, <3>2
  <2>3. \A x \in 1..k : g[x] \in U
    BY <1>1, <2>1, <2>2
  <2>4. \A i \in U : \E x \in 1..k : g[x] = i
    <3> TAKE i \in U
    <3>1. PICK x \in 1..m : e[x] = i
      OBVIOUS
    <3>2. x <= k
      BY <2>2, <3>1
    <3>3. x \in 1..k
      BY <3>2
    <3>4. QED
      BY <3>1, <3>3
  <2>5. g \in [1..k -> U]
    BY <2>3
  <2>6. \A a, b \in 1..k : g[a] = g[b] => a = b
    BY <1>2, <2>1
  <2> HIDE DEF g, U
  <2>7. g \in Surjection(1..k, U) /\ g \in Injection(1..k, U)
    BY <2>4, <2>5, <2>6 DEF Surjection, Injection, IsInjective
  <2>8. Cardinality(U) = k
    BY <2>1, <2>7, FS_Interval, FS_Surjection
  <2>9. QED
    BY <2>8 DEF Rank, U
<1>6. \A k \in 1..m : InOrder(K)[k] = e[k]
  BY <1>1, <1>4, <1>5, InOrderIs, RankOnly
<1>7. InOrder(K) \in [1..m -> K]
  BY <1>4, InOrderIs
<1>8. QED
  BY <1>4, <1>6, <1>7

\* A nonempty set of naturals has a least element.
LEMMA Smallest ==
    ASSUME NEW S \in SUBSET Nat, S # {}
    PROVE  \E n \in S : \A k \in S : n <= k
<1>1. PICK n \in S : \A k \in S : <<k, n>> \notin OpToRel(<, Nat)
  BY NatLessThanWellFounded, WFMin, Zenon
<1>2. ASSUME NEW k \in S PROVE ~(k < n)
  BY <1>1, Zenon DEF OpToRel
<1>3. QED
  BY <1>2

-----------------------------------------------------------------------------
(* rebuildLocked. *)

Definitions == [name : FacetNames, kind : {"builtin", "config", "ui"}, cap : Int]

Distinct(seq) == \A i, j \in DOMAIN seq : seq[i].name = seq[j].name => i = j

LEMMA FreshFinite ==
    ASSUME NEW all, NEW new \in Seq(Definitions)
    PROVE  /\ Fresh(all, new) \in SUBSET (1..Len(new))
           /\ Fresh(all, new) \in SUBSET Int /\ IsFiniteSet(Fresh(all, new))
           /\ Cardinality(Fresh(all, new)) \in Nat
<1>1. Len(new) \in Nat /\ DOMAIN new = 1..Len(new)
  OBVIOUS
<1>2. Fresh(all, new) \in SUBSET (1..Len(new))
  BY <1>1 DEF Fresh
<1>3. IsFiniteSet(1..Len(new))
  BY <1>1, FS_Interval
<1>4. QED
  BY <1>1, <1>2, <1>3, FS_Subset, FS_CardinalityType

\* What is already there stays where it is, and the fresh ones follow.
LEMMA AddDefsIs ==
    ASSUME NEW all \in Seq(Definitions), NEW new \in Seq(Definitions)
    PROVE  /\ AddDefs(all, new) \in Seq(Definitions)
           /\ Len(AddDefs(all, new)) = Len(all) + Cardinality(Fresh(all, new))
           /\ \A i \in 1..Len(all) : AddDefs(all, new)[i] = all[i]
           /\ \A k \in 1..Cardinality(Fresh(all, new)) :
                 AddDefs(all, new)[Len(all) + k] = new[InOrder(Fresh(all, new))[k]]
<1> DEFINE K == Fresh(all, new)
           c == Cardinality(K)
           more == [k \in 1..c |-> new[InOrder(K)[k]]]
<1>1. /\ K \in SUBSET (1..Len(new)) /\ K \in SUBSET Int /\ IsFiniteSet(K) /\ c \in Nat
  BY FreshFinite
<1>2. \A k \in 1..c : InOrder(K)[k] \in 1..Len(new)
  BY <1>1, InOrderIs
<1>3. \A k \in 1..c : new[InOrder(K)[k]] \in Definitions
  BY <1>2, ElementOfSeq
<1>4. more \in Seq(Definitions) /\ Len(more) = c
  BY <1>1, <1>3
<1>5. \A k \in 1..c : more[k] = new[InOrder(K)[k]]
  OBVIOUS
<1>6. AddDefs(all, new) = all \o more
  BY DEF AddDefs
<1> HIDE DEF more
<1>7. /\ all \o more \in Seq(Definitions) /\ Len(all \o more) = Len(all) + c
      /\ \A i \in 1..Len(all) + c : (all \o more)[i] =
                IF i <= Len(all) THEN all[i] ELSE more[i - Len(all)]
  BY <1>4, ConcatProperties
<1>8. Len(all) \in Nat
  OBVIOUS
<1>9. \A i \in 1..Len(all) : (all \o more)[i] = all[i]
  BY <1>1, <1>7, <1>8
<1>10. \A k \in 1..c : (all \o more)[Len(all) + k] = more[k]
  <2> TAKE k \in 1..c
  <2>1. /\ Len(all) + k \in 1..Len(all) + c /\ ~(Len(all) + k <= Len(all))
        /\ (Len(all) + k) - Len(all) = k
    BY <1>1, <1>8
  <2>2. QED
    BY <1>7, <2>1
<1>11. QED
  BY <1>1, <1>2, <1>5, <1>6, <1>7, <1>9, <1>10

\* Each is one of the two lists', and a name of either is in the result once.
LEMMA AddDefsNames ==
    ASSUME NEW all \in Seq(Definitions), NEW new \in Seq(Definitions), Distinct(all)
    PROVE  /\ NamesIn(AddDefs(all, new)) = NamesIn(all) \cup NamesIn(new)
           /\ Distinct(AddDefs(all, new))
           /\ \A i \in DOMAIN AddDefs(all, new) :
                 \/ i \in DOMAIN all /\ AddDefs(all, new)[i] = all[i]
                 \/ i > Len(all) /\ \E j \in Fresh(all, new) : AddDefs(all, new)[i] = new[j]
<1> DEFINE K == Fresh(all, new)
           c == Cardinality(K)
           e == InOrder(K)
           r == AddDefs(all, new)
           m == Len(all)
<1>1. /\ r \in Seq(Definitions) /\ c \in Nat /\ Len(r) = m + c
      /\ \A i \in 1..m : r[i] = all[i]
      /\ \A k \in 1..c : r[m + k] = new[e[k]]
  BY AddDefsIs, FreshFinite
<1>2. /\ K \in SUBSET (1..Len(new)) /\ K \in SUBSET Int /\ IsFiniteSet(K)
  BY FreshFinite
<1>3. /\ \A k \in 1..c : e[k] \in K
      /\ \A a, b \in 1..c : a < b => e[a] < e[b]
      /\ \A i \in K : \E k \in 1..c : e[k] = i
  BY <1>2, InOrderIs
<1>4. m \in Nat /\ Len(new) \in Nat /\ DOMAIN all = 1..m /\ DOMAIN new = 1..Len(new) /\ DOMAIN r = 1..m + c
  BY <1>1
<1>5. \A i \in K : /\ new[i].name \notin NamesIn(all)
                   /\ \A j \in 1..i - 1 : new[j].name # new[i].name
  BY DEF Fresh
<1> HIDE DEF r, e, K, c
<1>6. \A i \in DOMAIN r : i \in 1..m \/ \E k \in 1..c : i = m + k
  <2> TAKE i \in DOMAIN r
  <2>1. i \in Int /\ i >= 1 /\ i <= m + c
    BY <1>1, <1>4
  <2>2. CASE i <= m
    BY <1>4, <2>1, <2>2
  <2>3. CASE i > m
    <3>1. i - m \in 1..c /\ i = m + (i - m)
      BY <1>1, <1>4, <2>1, <2>3
    <3>2. QED
      BY <3>1
  <2>4. QED
    BY <1>4, <2>1, <2>2, <2>3
<1>7. \A i \in DOMAIN r :
         \/ i \in DOMAIN all /\ r[i] = all[i]
         \/ i > m /\ \E j \in K : r[i] = new[j]
  <2> TAKE i \in DOMAIN r
  <2>1. CASE i \in 1..m
    BY <1>1, <1>4, <2>1
  <2>2. ASSUME NEW k \in 1..c, i = m + k PROVE i > m /\ \E j \in K : r[i] = new[j]
    <3>1. i > m
      BY <1>1, <1>4, <2>2
    <3>2. QED
      BY <1>1, <1>3, <2>2, <3>1
  <2>3. QED
    BY <1>6, <2>1, <2>2
<1>8. \A i \in DOMAIN new : new[i].name \in NamesIn(all)
                              \/ \E j \in K : new[j].name = new[i].name
  <2> SUFFICES ASSUME NEW i \in DOMAIN new, new[i].name \notin NamesIn(all)
               PROVE  \E j \in K : new[j].name = new[i].name
    OBVIOUS
  <2> DEFINE S == {j \in 1..Len(new) : new[j].name = new[i].name}
  <2>1. PICK j \in S : \A k \in S : j <= k
    <3>1. S \in SUBSET Nat /\ i \in S
      BY <1>4
    <3> HIDE DEF S
    <3>2. QED
      BY <3>1, Smallest
  <2>2. \A k \in 1..j - 1 : new[k].name # new[j].name
    <3> SUFFICES ASSUME NEW k \in 1..j - 1, new[k].name = new[j].name PROVE FALSE
      OBVIOUS
    <3>1. k \in S /\ ~(j <= k)
      BY <1>4
    <3>2. QED
      BY <2>1, <3>1
  <2>3. j \in K
    BY <1>4, <2>2 DEF K, Fresh
  <2>4. QED
    BY <2>3
<1>9. NamesIn(r) = NamesIn(all) \cup NamesIn(new)
  <2>1. \A i \in DOMAIN r : r[i].name \in NamesIn(all) \cup NamesIn(new)
    BY <1>2, <1>4, <1>7 DEF NamesIn
  <2>2. \A i \in DOMAIN all : i \in DOMAIN r /\ r[i] = all[i]
    BY <1>1, <1>4
  <2>3. \A j \in K : \E i \in DOMAIN r : r[i] = new[j]
    <3> TAKE j \in K
    <3>1. PICK k \in 1..c : e[k] = j
      BY <1>3
    <3>2. m + k \in DOMAIN r
      BY <1>1, <1>4
    <3>3. QED
      BY <1>1, <3>1, <3>2
  <2>4. NamesIn(all) \subseteq NamesIn(r)
    BY <2>2 DEF NamesIn
  <2>5. \A i \in DOMAIN new : new[i].name \in NamesIn(r)
    <3> TAKE i \in DOMAIN new
    <3>1. CASE new[i].name \in NamesIn(all)
      BY <2>4, <3>1
    <3>2. ASSUME NEW j \in K, new[j].name = new[i].name PROVE new[i].name \in NamesIn(r)
      BY <2>3, <3>2 DEF NamesIn
    <3>3. QED
      BY <1>8, <3>1, <3>2
  <2>6. QED
    BY <2>1, <2>4, <2>5 DEF NamesIn
<1>10. Distinct(r)
  <2> SUFFICES ASSUME NEW i \in DOMAIN r, NEW j \in DOMAIN r, r[i].name = r[j].name
               PROVE  i = j
    BY DEF Distinct
  <2>1. CASE i \in 1..m /\ j \in 1..m
    BY <1>1, <1>4, <2>1 DEF Distinct
  <2>2. \A x \in 1..m, k \in 1..c : r[x].name # r[m + k].name
    <3> TAKE x \in 1..m, k \in 1..c
    <3>1. r[x].name \in NamesIn(all)
      BY <1>1, <1>4 DEF NamesIn
    <3>2. r[m + k].name \notin NamesIn(all)
      BY <1>1, <1>3, <1>5
    <3>3. QED
      BY <3>1, <3>2
  <2>3. \A a, b \in 1..c : a < b => r[m + a].name # r[m + b].name
    <3> SUFFICES ASSUME NEW a \in 1..c, NEW b \in 1..c, a < b
                 PROVE  r[m + a].name # r[m + b].name
      OBVIOUS
    <3>1. e[a] \in K /\ e[b] \in K /\ e[a] < e[b]
      BY <1>3
    <3>5. e[a] \in 1..Len(new) /\ e[b] \in 1..Len(new)
      BY <1>2, <3>1
    <3>2. e[a] \in Int /\ e[b] \in Int /\ e[a] >= 1
      BY <1>4, <3>5
    <3>3. e[a] \in 1..e[b] - 1
      BY <3>1, <3>2
    <3>4. new[e[a]].name # new[e[b]].name /\ r[m + a] = new[e[a]] /\ r[m + b] = new[e[b]]
      BY ONLY <1>1, <1>3, <1>5, <3>1, <3>3, a \in 1..c, b \in 1..c
    <3>6. QED
      BY ONLY <3>4, Zenon
  <2>4. \A a, b \in 1..c : r[m + a].name = r[m + b].name => a = b
    <3> TAKE a, b \in 1..c
    <3>1. a \in Int /\ b \in Int
      BY <1>1
    <3>2. QED
      BY <2>3, <3>1
  <2>5. QED
    BY <1>6, <2>1, <2>2, <2>4
<1>11. QED
  BY <1>7, <1>9, <1>10 DEF r, K

\* Two lists have the same shape if they agree on names and kinds.
LEMMA ShapeIs ==
    ASSUME NEW s \in Seq(Definitions), NEW t \in Seq(Definitions)
    PROVE  Shape(s) = Shape(t) <=>
              /\ Len(s) = Len(t)
              /\ \A i \in 1..Len(s) : s[i].name = t[i].name /\ s[i].kind = t[i].kind
<1>1. Len(s) \in Nat /\ Len(t) \in Nat /\ DOMAIN s = 1..Len(s) /\ DOMAIN t = 1..Len(t)
  OBVIOUS
<1>2. /\ Shape(s) = [i \in 1..Len(s) |-> [name |-> s[i].name, kind |-> s[i].kind]]
      /\ Shape(t) = [i \in 1..Len(t) |-> [name |-> t[i].name, kind |-> t[i].kind]]
  BY <1>1 DEF Shape
<1>3. ASSUME Shape(s) = Shape(t)
      PROVE  /\ Len(s) = Len(t)
             /\ \A i \in 1..Len(s) : s[i].name = t[i].name /\ s[i].kind = t[i].kind
  <2>1. DOMAIN Shape(s) = 1..Len(s) /\ DOMAIN Shape(t) = 1..Len(t)
    BY <1>2
  <2>2. 1..Len(s) = 1..Len(t)
    BY <1>3, <2>1
  <2>3. Len(s) = Len(t)
    <3>1. /\ Len(s) = 0 \/ Len(s) \in 1..Len(s)
          /\ Len(t) = 0 \/ Len(t) \in 1..Len(t)
      BY <1>1
    <3>2. /\ Len(s) = 0 \/ Len(s) \in 1..Len(t)
          /\ Len(t) = 0 \/ Len(t) \in 1..Len(s)
      BY <2>2, <3>1
    <3>3. \A a, b \in Nat : (a = 0 \/ a \in 1..b) /\ (b = 0 \/ b \in 1..a) => a = b
      OBVIOUS
    <3>4. QED
      BY <1>1, <3>2, <3>3
  <2>4. ASSUME NEW i \in 1..Len(s)
        PROVE  s[i].name = t[i].name /\ s[i].kind = t[i].kind
    <3>1. [name |-> s[i].name, kind |-> s[i].kind] = [name |-> t[i].name, kind |-> t[i].kind]
      BY <1>2, <1>3, <2>3
    <3>2. QED
      BY <3>1
  <2>5. QED
    BY <2>3, <2>4
<1>4. QED
  BY <1>2, <1>3

\* Which definitions are fresh, and in which order, is a matter of names.
LEMMA AddDefsShape ==
    ASSUME NEW all \in Seq(Definitions), NEW new \in Seq(Definitions),
           NEW other \in Seq(Definitions), Shape(new) = Shape(other)
    PROVE  Shape(AddDefs(all, new)) = Shape(AddDefs(all, other))
<1>1. /\ Len(new) = Len(other)
      /\ \A i \in 1..Len(new) : new[i].name = other[i].name /\ new[i].kind = other[i].kind
  BY ShapeIs
<1>2. Len(new) \in Nat /\ DOMAIN new = 1..Len(new) /\ DOMAIN other = 1..Len(new)
  BY <1>1
<1>3. \A i \in 1..Len(new) : \A j \in 1..i - 1 : j \in 1..Len(new)
  BY <1>2
<1>4. Fresh(all, new) = Fresh(all, other)
  BY <1>1, <1>2, <1>3 DEF Fresh
<1> DEFINE K == Fresh(all, new)
           c == Cardinality(K)
           r == AddDefs(all, new)
           q == AddDefs(all, other)
           m == Len(all)
<1>5. /\ r \in Seq(Definitions) /\ Len(r) = m + c
      /\ \A i \in 1..m : r[i] = all[i]
      /\ \A k \in 1..c : r[m + k] = new[InOrder(K)[k]]
  BY AddDefsIs
<1>6. /\ q \in Seq(Definitions) /\ Len(q) = m + c
      /\ \A i \in 1..m : q[i] = all[i]
      /\ \A k \in 1..c : q[m + k] = other[InOrder(K)[k]]
  BY <1>4, AddDefsIs
<1>7. K \in SUBSET (1..Len(new)) /\ K \in SUBSET Int /\ IsFiniteSet(K) /\ c \in Nat
  BY FreshFinite
<1>8. \A k \in 1..c : InOrder(K)[k] \in 1..Len(new)
  BY <1>7, InOrderIs
<1>9. m \in Nat
  OBVIOUS
<1> HIDE DEF r, q, K, c
<1>10. \A i \in 1..m + c : r[i].name = q[i].name /\ r[i].kind = q[i].kind
  <2> TAKE i \in 1..m + c
  <2>1. CASE i <= m
    <3>1. i \in 1..m
      BY <1>7, <1>9, <2>1
    <3>2. QED
      BY <1>5, <1>6, <3>1
  <2>2. CASE i > m
    <3>1. PICK k \in 1..c : i = m + k
      <4>1. i - m \in 1..c /\ i = m + (i - m)
        BY <1>7, <1>9, <2>2
      <4>2. QED
        BY <4>1
    <3>2. r[i] = new[InOrder(K)[k]] /\ q[i] = other[InOrder(K)[k]]
      BY <1>5, <1>6, <3>1
    <3>3. QED
      BY <1>1, <1>8, <3>2
  <2>3. QED
    BY <1>7, <1>9, <2>1, <2>2
<1>11. Shape(r) = Shape(q)
  <2>1. Len(r) = Len(q) /\ \A i \in 1..Len(r) : r[i].name = q[i].name /\ r[i].kind = q[i].kind
    BY <1>5, <1>6, <1>10
  <2>2. QED
    BY <1>5, <1>6, <2>1, ShapeIs
<1>12. QED
  BY <1>11 DEF r, q

\* A fresh name at the end of the list comes last.
LEMMA AddDefsAppend ==
    ASSUME NEW all \in Seq(Definitions), NEW new \in Seq(Definitions),
           NEW x \in Definitions, x.name \notin NamesIn(all), x.name \notin NamesIn(new)
    PROVE  AddDefs(all, Append(new, x)) = Append(AddDefs(all, new), x)
<1> DEFINE K == Fresh(all, new)
           c == Cardinality(K)
           p == Len(new) + 1
           longer == Append(new, x)
           e == InOrder(K)
           f == [k \in 1..c + 1 |-> IF k <= c THEN e[k] ELSE p]
           m == Len(all)
<1>1. /\ longer \in Seq(Definitions) /\ Len(longer) = p
      /\ \A i \in 1..Len(new) : longer[i] = new[i]
      /\ longer[p] = x
  BY AppendProperties
<1>2. m \in Nat /\ Len(new) \in Nat /\ p \in Nat /\ DOMAIN new = 1..Len(new)
      /\ DOMAIN longer = 1..p
  BY <1>1
<1>3. /\ K \in SUBSET (1..Len(new)) /\ K \in SUBSET Int /\ IsFiniteSet(K) /\ c \in Nat
  BY FreshFinite
<1>4. Fresh(all, longer) = K \cup {p}
  <2>1. \A i \in 1..Len(new) : new[i].name # x.name
    BY <1>2 DEF NamesIn
  <2>2. \A i \in 1..p : i = p \/ i \in 1..Len(new)
    BY <1>2
  <2>3. \A i \in 1..Len(new) : i \in 1..p /\ \A j \in 1..i - 1 : j \in 1..Len(new)
    BY <1>2
  <2>4. p \in 1..p /\ \A j \in 1..p - 1 : j \in 1..Len(new)
    BY <1>2
  <2>5. \A i \in 1..Len(new) : i \in Fresh(all, longer) <=> i \in K
    <3> HIDE DEF longer, p
    <3>1. QED
      BY <1>1, <1>2, <2>3 DEF Fresh, K
  <2>6. p \in Fresh(all, longer)
    <3> HIDE DEF longer, p
    <3>1. QED
      BY <1>1, <1>2, <2>1, <2>4 DEF Fresh
  <2>7. Fresh(all, longer) \subseteq 1..p
    BY <1>2 DEF Fresh
  <2> HIDE DEF longer, p, K
  <2>8. QED
    BY <1>3, <2>2, <2>5, <2>6, <2>7
<1>5. /\ e \in [1..c -> K] /\ \A a, b \in 1..c : a < b => e[a] < e[b]
      /\ \A i \in K : \E k \in 1..c : e[k] = i
  BY <1>3, InOrderIs
<1>6. Cardinality(Fresh(all, longer)) = c + 1 /\ InOrder(Fresh(all, longer)) = f
  <2>1. Fresh(all, longer) \in SUBSET Int /\ IsFiniteSet(Fresh(all, longer))
    BY <1>1, FreshFinite
  <2> HIDE DEF e, K, c, longer
  <2>2. f \in [1..c + 1 -> K \cup {p}]
    <3>1. \A k \in 1..c + 1 : k <= c => k \in 1..c
      BY <1>3
    <3> HIDE DEF p
    <3>2. QED
      BY <1>5, <3>1
  <2>3. \A k \in 1..c : k \in 1..c + 1 /\ f[k] = e[k] /\ e[k] \in Int /\ e[k] < p
    <3> TAKE k \in 1..c
    <3>1. k \in 1..c + 1 /\ k <= c
      BY <1>3
    <3>2. e[k] \in 1..Len(new)
      BY <1>3, <1>5
    <3>3. e[k] \in Int /\ e[k] < p
      BY <1>2, <3>2
    <3>4. QED
      BY <3>1, <3>3
  <2>4. c + 1 \in 1..c + 1 /\ f[c + 1] = p
    BY <1>3
  <2>5. \A k \in 1..c + 1 : k \in 1..c \/ k = c + 1
    BY <1>3
  <2> HIDE DEF f, p
  <2>6. \A a, b \in 1..c + 1 : a < b => f[a] < f[b]
    <3> SUFFICES ASSUME NEW a \in 1..c + 1, NEW b \in 1..c + 1, a < b PROVE f[a] < f[b]
      OBVIOUS
    <3>1. a \in 1..c
      BY <1>3
    <3>2. QED
      BY <1>5, <2>3, <2>4, <2>5, <3>1
  <2>7. \A i \in K \cup {p} : \E k \in 1..c + 1 : f[k] = i
    BY <1>5, <2>3, <2>4
  <2>8. c + 1 \in Nat
    BY <1>3
  <2> DEFINE F == Fresh(all, longer)
             n == c + 1
  <2>9. /\ F \in SUBSET Int /\ IsFiniteSet(F) /\ n \in Nat /\ f \in [1..n -> F]
        /\ \A a, b \in 1..n : a < b => f[a] < f[b]
        /\ \A i \in F : \E k \in 1..n : f[k] = i
    BY <1>4, <2>1, <2>2, <2>6, <2>7, <2>8
  <2> HIDE DEF F, n
  <2>10. Cardinality(F) = n /\ InOrder(F) = f
    BY <2>9, InOrderOnly
  <2>11. QED
    BY <2>10 DEF F, n
<1> DEFINE r == AddDefs(all, new)
           q == AddDefs(all, longer)
<1>7. /\ r \in Seq(Definitions) /\ Len(r) = m + c
      /\ \A i \in 1..m : r[i] = all[i]
      /\ \A k \in 1..c : r[m + k] = new[e[k]]
  BY AddDefsIs
<1>8. /\ q \in Seq(Definitions) /\ Len(q) = m + (c + 1)
      /\ \A i \in 1..m : q[i] = all[i]
      /\ \A k \in 1..c + 1 : q[m + k] = longer[f[k]]
  <2>1. /\ q \in Seq(Definitions) /\ Len(q) = m + Cardinality(Fresh(all, longer))
        /\ \A i \in 1..m : q[i] = all[i]
        /\ \A k \in 1..Cardinality(Fresh(all, longer)) :
              q[m + k] = longer[InOrder(Fresh(all, longer))[k]]
    <3> HIDE DEF longer
    <3>1. QED
      BY <1>1, AddDefsIs
  <2> HIDE DEF q, longer, f, c
  <2>2. QED
    BY <1>6, <2>1
<1>9. \A k \in 1..c : k \in 1..c + 1 /\ f[k] = e[k] /\ e[k] \in 1..Len(new)
  <2> TAKE k \in 1..c
  <2>1. k \in 1..c + 1 /\ k <= c
    BY <1>3
  <2>2. QED
    BY <1>3, <1>5, <2>1
<1>10. c + 1 \in 1..c + 1 /\ f[c + 1] = p
  BY <1>3
<1> HIDE DEF r, q, K, c, e, f, longer, p
<1>11. /\ Append(r, x) \in Seq(Definitions) /\ Len(Append(r, x)) = m + c + 1
       /\ \A i \in 1..m + c : Append(r, x)[i] = r[i]
       /\ Append(r, x)[m + c + 1] = x
  BY <1>7, AppendProperties
<1>12. \A i \in 1..m + c + 1 : q[i] = Append(r, x)[i]
  <2> TAKE i \in 1..m + c + 1
  <2>1. CASE i <= m
    <3>1. i \in 1..m /\ i \in 1..m + c
      BY <1>2, <1>3, <2>1
    <3>2. QED
      BY <1>7, <1>8, <1>11, <3>1
  <2>2. CASE i > m /\ i <= m + c
    <3>1. i - m \in 1..c /\ i = m + (i - m) /\ i \in 1..m + c
      BY <1>2, <1>3, <2>2
    <3>2. PICK k \in 1..c : i = m + k
      BY <3>1
    <3>3. q[i] = longer[e[k]] /\ r[i] = new[e[k]]
      BY <1>7, <1>8, <1>9, <3>2
    <3>4. QED
      BY <1>1, <1>9, <1>11, <3>1, <3>3
  <2>3. CASE i = m + c + 1
    <3>1. i = m + (c + 1)
      BY <1>2, <1>3, <2>3
    <3>2. q[i] = x
      BY <1>1, <1>8, <1>10, <3>1
    <3>3. QED
      BY <1>11, <2>3, <3>2
  <2>4. i <= m \/ (i > m /\ i <= m + c) \/ i = m + c + 1
    BY <1>2, <1>3
  <2>5. QED
    BY <2>1, <2>2, <2>3, <2>4
<1>13. Len(q) = Len(Append(r, x)) /\ Len(q) = m + c + 1
  BY <1>2, <1>3, <1>8, <1>11
<1>14. q = Append(r, x)
  BY <1>8, <1>11, <1>12, <1>13, SeqEqual
<1>15. QED
  BY <1>14 DEF q, r, longer

\* One element less, the later ones one place earlier.
LEMMA RemoveAtIs ==
    ASSUME NEW S, NEW s \in Seq(S), NEW i \in 1..Len(s)
    PROVE  /\ RemoveAt(s, i) \in Seq(S)
           /\ Len(RemoveAt(s, i)) = Len(s) - 1
           /\ \A j \in 1..Len(s) - 1 :
                 RemoveAt(s, i)[j] = IF j < i THEN s[j] ELSE s[j + 1]
<1> DEFINE a == SubSeq(s, 1, i - 1)
           b == SubSeq(s, i + 1, Len(s))
           n == Len(s)
<1>1. n \in Nat /\ i \in Int /\ 1 <= i /\ i <= n
  OBVIOUS
<1>2. /\ \A j \in 1..i - 1 : j \in 1..n
      /\ \A j \in i + 1..n : j \in 1..n
  BY <1>1
<1>3. \A j \in 1..n : s[j] \in S
  BY ElementOfSeq
<1>4. /\ a \in Seq(S) /\ Len(a) = i - 1
      /\ \A j \in 1..i - 1 : a[j] = s[j]
  <2>1. \A j \in 1..i - 1 : s[j] \in S
    BY <1>2, <1>3
  <2>2. /\ a \in Seq(S) /\ Len(a) = IF 1 <= i - 1 THEN (i - 1) - 1 + 1 ELSE 0
        /\ \A j \in 1..(i - 1) - 1 + 1 : a[j] = s[1 + j - 1]
    <3>1. i - 1 \in Int
      BY <1>1
    <3>2. QED
      BY <2>1, <3>1, SubSeqProperties
  <2> HIDE DEF a
  <2>3. Len(a) = i - 1
    BY <1>1, <2>2
  <2>4. \A j \in 1..i - 1 : j \in 1..(i - 1) - 1 + 1 /\ 1 + j - 1 = j
    BY <1>1
  <2>5. QED
    BY <2>2, <2>3, <2>4
<1>5. /\ b \in Seq(S) /\ Len(b) = n - i
      /\ \A j \in 1..n - i : b[j] = s[i + j]
  <2>1. \A j \in i + 1..n : s[j] \in S
    BY <1>2, <1>3
  <2>2. /\ b \in Seq(S) /\ Len(b) = IF i + 1 <= n THEN n - (i + 1) + 1 ELSE 0
        /\ \A j \in 1..n - (i + 1) + 1 : b[j] = s[(i + 1) + j - 1]
    <3>1. i + 1 \in Int /\ n \in Int
      BY <1>1
    <3>2. QED
      BY <2>1, <3>1, SubSeqProperties
  <2> HIDE DEF b, n
  <2>3. Len(b) = n - i
    BY <1>1, <2>2
  <2>4. \A j \in 1..n - i : j \in 1..n - (i + 1) + 1 /\ (i + 1) + j - 1 = i + j
    BY <1>1
  <2>5. QED
    BY <2>2, <2>3, <2>4
<1>6. RemoveAt(s, i) = a \o b
  BY DEF RemoveAt
<1> HIDE DEF a, b, n
<1>7. /\ a \o b \in Seq(S) /\ Len(a \o b) = (i - 1) + (n - i)
      /\ \A j \in 1..(i - 1) + (n - i) : (a \o b)[j] =
            IF j <= i - 1 THEN a[j] ELSE b[j - (i - 1)]
  <2>1. /\ a \o b \in Seq(S) /\ Len(a \o b) = Len(a) + Len(b)
        /\ \A j \in 1..Len(a) + Len(b) : (a \o b)[j] =
              IF j <= Len(a) THEN a[j] ELSE b[j - Len(a)]
    BY <1>4, <1>5, ConcatProperties
  <2>2. Len(a) = i - 1 /\ Len(b) = n - i
    BY <1>4, <1>5
  <2>3. QED
    BY <2>1, <2>2
<1>8. (i - 1) + (n - i) = n - 1
  BY <1>1
<1>9. ASSUME NEW j \in 1..n - 1
      PROVE  (a \o b)[j] = IF j < i THEN s[j] ELSE s[j + 1]
  <2>1. j \in Int /\ 1 <= j /\ j <= n - 1
    BY <1>1
  <2>2. CASE j < i
    <3>1. j <= i - 1 /\ j \in 1..i - 1
      BY <1>1, <2>1, <2>2
    <3>2. QED
      BY <1>4, <1>7, <1>8, <2>2, <3>1
  <2>3. CASE ~(j < i)
    <3>1. ~(j <= i - 1) /\ j - (i - 1) \in 1..n - i /\ i + (j - (i - 1)) = j + 1
      BY <1>1, <2>1, <2>3
    <3>2. QED
      BY <1>5, <1>7, <1>8, <2>3, <3>1
  <2>4. QED
    BY <2>2, <2>3
<1>10. QED
  BY <1>6, <1>7, <1>8, <1>9 DEF n

\* Without its entry in the list, a definition is missing from the result, and
\* the others are in the same order.
LEMMA AddDefsRemove ==
    ASSUME NEW all \in Seq(Definitions), NEW new \in Seq(Definitions), Distinct(new),
           NEW p \in 1..Len(new), new[p].name \notin NamesIn(all)
    PROVE  \E d \in 1..Len(AddDefs(all, new)) :
              /\ AddDefs(all, new)[d] = new[p]
              /\ AddDefs(all, RemoveAt(new, p)) = RemoveAt(AddDefs(all, new), d)
<1> DEFINE K == Fresh(all, new)
           c == Cardinality(K)
           e == InOrder(K)
           m == Len(all)
           n == Len(new)
           shorter == RemoveAt(new, p)
           F == Fresh(all, shorter)
           r == AddDefs(all, new)
           q == AddDefs(all, shorter)
<1>1. /\ shorter \in Seq(Definitions) /\ Len(shorter) = n - 1
      /\ \A j \in 1..n - 1 : shorter[j] = IF j < p THEN new[j] ELSE new[j + 1]
  BY RemoveAtIs
<1>2. n \in Nat /\ m \in Nat /\ p \in Int /\ 1 <= p /\ p <= n
      /\ DOMAIN new = 1..n
  OBVIOUS
<1>3. DOMAIN shorter = 1..n - 1
  <2> HIDE DEF shorter
  <2>1. QED
    BY <1>1
<1>4. /\ K \in SUBSET (1..n) /\ K \in SUBSET Int /\ IsFiniteSet(K) /\ c \in Nat
  BY FreshFinite
<1>5. F \in SUBSET Int /\ IsFiniteSet(F)
  <2> HIDE DEF shorter
  <2>1. QED
    BY <1>1, FreshFinite
<1>6. \A i : i \in K <=> i \in 1..n /\ new[i].name \notin NamesIn(all)
  <2>1. \A i \in 1..n, j \in 1..n : new[i].name = new[j].name => i = j
    BY <1>2 DEF Distinct
  <2>2. \A i \in 1..n : \A j \in 1..i - 1 : j \in 1..n /\ j # i
    BY <1>2
  <2>3. QED
    BY <1>2, <2>1, <2>2 DEF Fresh
<1> DEFINE At0(i) == IF i < p THEN i ELSE i + 1
<1>7. \A i \in 1..n - 1 : At0(i) \in 1..n /\ At0(i) # p /\ shorter[i] = new[At0(i)]
  <2> TAKE i \in 1..n - 1
  <2>1. i \in Int /\ At0(i) \in 1..n /\ At0(i) # p
    BY <1>2
  <2>2. shorter[i] = new[At0(i)]
    BY <1>1
  <2>3. QED
    BY <2>1, <2>2
<1>8. \A i, j \in 1..n - 1 : At0(i) = At0(j) => i = j
  <2> TAKE i, j \in 1..n - 1
  <2>1. i \in Int /\ j \in Int
    BY <1>2
  <2>2. QED
    BY <1>2, <2>1
<1> HIDE DEF shorter
<1>9. \A i : i \in F <=> i \in 1..n - 1 /\ At0(i) \in K
  <2>1. ASSUME NEW i \in 1..n - 1, NEW j \in 1..i - 1
        PROVE  j \in 1..n - 1 /\ shorter[j].name # shorter[i].name
    <3>1. j \in 1..n - 1 /\ j # i
      BY <1>2
    <3>2. At0(i) # At0(j)
      BY <1>8, <3>1
    <3> HIDE DEF At0
    <3>3. new[At0(i)].name # new[At0(j)].name
      BY <1>2, <1>7, <3>1, <3>2 DEF Distinct
    <3>4. QED
      BY <1>7, <3>1, <3>3
  <2>2. \A i : i \in F <=> i \in 1..n - 1 /\ shorter[i].name \notin NamesIn(all)
    BY <1>3, <2>1 DEF Fresh
  <2> HIDE DEF F, K, At0
  <2>3. QED
    BY <1>6, <1>7, <2>2
<1>10. /\ e \in [1..c -> K] /\ \A a, b \in 1..c : a < b => e[a] < e[b]
       /\ \A i \in K : \E k \in 1..c : e[k] = i
  BY <1>4, InOrderIs
<1>11. p \in K
  BY <1>2, <1>6
<1> HIDE DEF K, c, e, F
<1>12. PICK h \in 1..c : e[h] = p
  BY <1>10, <1>11
<1>13. h \in Int /\ 1 <= h /\ h <= c
  BY <1>4
<1> DEFINE f == [k \in 1..c - 1 |-> IF k < h THEN e[k] ELSE e[k + 1] - 1]
<1>14. \A k \in 1..c : k \in Int /\ e[k] \in K /\ e[k] \in Int /\ e[k] \in 1..n
  <2> TAKE k \in 1..c
  <2>1. e[k] \in K
    BY <1>10
  <2>2. k \in Int
    BY <1>4
  <2>3. QED
    BY <1>4, <2>1, <2>2
<1>15. \A k \in 1..c : /\ k < h => e[k] < p
                       /\ k > h => e[k] > p
                       /\ e[k] < p => k < h
                       /\ e[k] > p => k > h
  <2> TAKE k \in 1..c
  <2>1. k < h \/ k = h \/ k > h
    BY <1>13, <1>14
  <2>2. /\ k < h => e[k] < e[h]
        /\ h < k => e[h] < e[k]
    BY <1>10
  <2>3. QED
    BY <1>2, <1>12, <1>13, <1>14, <2>1, <2>2
<1>16. \A k \in 1..c - 1 : /\ k \in Int
                           /\ k < h => k \in 1..c /\ f[k] = e[k] /\ f[k] < p
                           /\ ~(k < h) => /\ k + 1 \in 1..c /\ k + 1 > h
                                          /\ f[k] = e[k + 1] - 1 /\ f[k] >= p
  <2> TAKE k \in 1..c - 1
  <2>1. k \in Int /\ k \in 1..c /\ k + 1 \in 1..c
    BY <1>4
  <2>2. CASE k < h
    <3>1. f[k] = e[k] /\ e[k] < p
      BY <1>15, <2>1, <2>2
    <3>2. QED
      BY <2>1, <2>2, <3>1
  <2>3. CASE ~(k < h)
    <3>1. k + 1 > h
      BY <1>13, <2>1, <2>3
    <3>2. e[k + 1] > p /\ e[k + 1] \in Int
      BY <1>14, <1>15, <2>1, <3>1
    <3>3. f[k] = e[k + 1] - 1
      BY <2>3
    <3>4. f[k] >= p
      BY <1>2, <3>2, <3>3
    <3>5. QED
      BY <2>1, <2>3, <3>1, <3>3, <3>4
  <2>4. QED
    BY <2>2, <2>3
<1> HIDE DEF f
<1>17. \A k \in 1..c - 1 : f[k] \in F
  <2> TAKE k \in 1..c - 1
  <2>1. CASE k < h
    <3>1. f[k] \in 1..n - 1 /\ At0(f[k]) = e[k]
      BY <1>2, <1>14, <1>16, <2>1
    <3>2. QED
      BY <1>9, <1>14, <1>16, <2>1, <3>1
  <2>2. CASE ~(k < h)
    <3>1. e[k + 1] \in Int /\ e[k + 1] \in 1..n /\ e[k + 1] \in K
      BY <1>14, <1>16, <2>2
    <3>2. f[k] = e[k + 1] - 1 /\ f[k] >= p
      BY <1>16, <2>2
    <3>3. f[k] \in 1..n - 1 /\ At0(f[k]) = e[k + 1]
      BY <1>2, <3>1, <3>2
    <3>4. QED
      BY <1>9, <3>1, <3>3
  <2>3. QED
    BY <2>1, <2>2
<1>18. f \in [1..c - 1 -> F]
  BY <1>17 DEF f
<1>19. \A a, b \in 1..c - 1 : a < b => f[a] < f[b]
  <2> SUFFICES ASSUME NEW a \in 1..c - 1, NEW b \in 1..c - 1, a < b PROVE f[a] < f[b]
    OBVIOUS
  <2>1. a \in Int /\ b \in Int
    BY <1>16
  <2>2. CASE b < h
    <3>1. a < h
      BY <1>13, <2>1, <2>2
    <3>2. QED
      BY <1>10, <1>16, <2>2, <3>1
  <2>3. CASE a < h /\ ~(b < h)
    <3>1. f[a] \in Int /\ f[b] \in Int /\ f[a] < p /\ f[b] >= p
      BY <1>5, <1>16, <1>17, <2>3
    <3>2. QED
      BY <1>2, <3>1
  <2>4. CASE ~(a < h)
    <3>1. ~(b < h)
      BY <1>13, <2>1, <2>4
    <3>2. /\ a + 1 \in 1..c /\ b + 1 \in 1..c /\ a + 1 < b + 1
          /\ f[a] = e[a + 1] - 1 /\ f[b] = e[b + 1] - 1
      BY <1>16, <2>1, <2>4, <3>1
    <3>3. e[a + 1] < e[b + 1] /\ e[a + 1] \in Int /\ e[b + 1] \in Int
      BY <1>10, <1>14, <3>2
    <3>4. QED
      BY <3>2, <3>3
  <2>5. QED
    BY <2>2, <2>3, <2>4
<1>20. \A i \in F : \E k \in 1..c - 1 : f[k] = i
  <2> TAKE i \in F
  <2>1. i \in 1..n - 1 /\ At0(i) \in K /\ i \in Int
    BY <1>2, <1>5, <1>9
  <2>2. PICK k \in 1..c : e[k] = At0(i)
    BY <1>10, <2>1
  <2>3. CASE i < p
    <3>1. e[k] = i /\ k < h
      BY <1>15, <2>2, <2>3
    <3>2. k \in 1..c - 1
      BY <1>4, <1>13, <1>14, <3>1
    <3>3. QED
      BY <1>16, <3>1, <3>2
  <2>4. CASE ~(i < p)
    <3>1. e[k] = i + 1 /\ e[k] > p
      BY <1>2, <2>1, <2>2, <2>4
    <3>2. k > h /\ k \in Int /\ k <= c
      BY <1>4, <1>15, <3>1
    <3>3. k - 1 \in 1..c - 1 /\ ~(k - 1 < h) /\ (k - 1) + 1 = k
      BY <1>4, <1>13, <3>2
    <3>4. f[k - 1] = e[k] - 1
      BY <1>16, <3>3
    <3>5. QED
      BY <2>1, <3>1, <3>3, <3>4
  <2>5. QED
    BY <2>3, <2>4
<1>21. Cardinality(F) = c - 1 /\ InOrder(F) = f
  <2>1. c - 1 \in Nat
    BY <1>4, <1>13
  <2> DEFINE w == c - 1
  <2>2. /\ w \in Nat /\ f \in [1..w -> F]
        /\ \A a, b \in 1..w : a < b => f[a] < f[b]
        /\ \A i \in F : \E k \in 1..w : f[k] = i
    BY <1>18, <1>19, <1>20, <2>1
  <2> HIDE DEF w
  <2>3. Cardinality(F) = w /\ InOrder(F) = f
    BY <1>5, <2>2, InOrderOnly
  <2>4. QED
    BY <2>3 DEF w
<1>22. /\ r \in Seq(Definitions) /\ Len(r) = m + c
       /\ \A i \in 1..m : r[i] = all[i]
       /\ \A k \in 1..c : r[m + k] = new[e[k]]
  BY AddDefsIs DEF K, c, e
<1>23. /\ q \in Seq(Definitions) /\ Len(q) = m + (c - 1)
       /\ \A i \in 1..m : q[i] = all[i]
       /\ \A k \in 1..c - 1 : q[m + k] = shorter[f[k]]
  <2>1. /\ q \in Seq(Definitions) /\ Len(q) = m + Cardinality(F)
        /\ \A i \in 1..m : q[i] = all[i]
        /\ \A k \in 1..Cardinality(F) : q[m + k] = shorter[InOrder(F)[k]]
    BY <1>1, AddDefsIs DEF F
  <2> HIDE DEF q
  <2>2. QED
    BY <1>21, <2>1
<1>24. m + h \in 1..Len(r) /\ r[m + h] = new[p]
  <2>1. m + h \in 1..m + c
    BY <1>2, <1>4, <1>13
  <2>2. r[m + h] = new[e[h]] /\ Len(r) = m + c
    BY <1>22
  <2>3. QED
    BY <1>12, <2>1, <2>2
<1> DEFINE z == RemoveAt(r, m + h)
<1>25. /\ z \in Seq(Definitions) /\ Len(z) = m + c - 1
       /\ \A j \in 1..m + c - 1 : z[j] = IF j < m + h THEN r[j] ELSE r[j + 1]
  <2>1. /\ z \in Seq(Definitions) /\ Len(z) = Len(r) - 1
        /\ \A j \in 1..Len(r) - 1 : z[j] = IF j < m + h THEN r[j] ELSE r[j + 1]
    <3> HIDE DEF r
    <3>1. QED
      BY <1>22, <1>24, RemoveAtIs
  <2>2. Len(r) = m + c
    BY <1>22
  <2> HIDE DEF z, r
  <2>3. Len(r) - 1 = m + c - 1
    BY <1>2, <1>4, <2>2
  <2>4. QED
    BY <2>1, <2>3, Zenon
<1> HIDE DEF z, q, r
<1>26. \A j \in 1..m + c - 1 : q[j] = z[j]
  <2> TAKE j \in 1..m + c - 1
  <2>1. j \in Int /\ 1 <= j /\ j <= m + c - 1
    BY <1>2, <1>4
  <2>2. CASE j <= m
    <3>1. j \in 1..m /\ j < m + h
      BY <1>2, <1>13, <2>1, <2>2
    <3>2. QED
      BY <1>22, <1>23, <1>25, <3>1
  <2>3. ASSUME NEW k \in 1..c - 1, j = m + k PROVE q[j] = z[j]
    <3>1. q[j] = shorter[f[k]]
      BY <1>23, <2>3
    <3>2. k \in Int
      BY <1>16
    <3>3. f[k] \in 1..n - 1
      BY <1>9, <1>17
    <3>4. CASE k < h
      <4>1. j < m + h /\ k \in 1..c
        BY <1>2, <1>13, <1>16, <2>3, <3>2, <3>4
      <4>2. z[j] = new[e[k]]
        BY <1>22, <1>25, <2>3, <4>1
      <4>3. shorter[f[k]] = new[f[k]] /\ f[k] = e[k]
        BY <1>1, <1>16, <3>3, <3>4
      <4>4. QED
        BY <3>1, <4>2, <4>3
    <3>5. CASE ~(k < h)
      <4>1. ~(j < m + h) /\ j + 1 = m + (k + 1) /\ k + 1 \in 1..c
        BY <1>2, <1>13, <1>16, <2>3, <3>2, <3>5
      <4>2. z[j] = new[e[k + 1]]
        BY <1>22, <1>25, <2>3, <4>1
      <4>3. f[k] = e[k + 1] - 1 /\ ~(f[k] < p) /\ e[k + 1] \in Int
        <5>1. f[k] = e[k + 1] - 1 /\ f[k] >= p /\ e[k + 1] \in Int
          BY <1>14, <1>16, <3>5
        <5>2. QED
          BY <1>2, <5>1
      <4>4. f[k] + 1 = e[k + 1]
        BY ONLY <4>3
      <4>5. shorter[f[k]] = new[f[k] + 1]
        BY ONLY <1>1, <3>3, <4>3
      <4>6. QED
        BY <3>1, <4>2, <4>4, <4>5
    <3>6. QED
      BY <3>4, <3>5
  <2>4. CASE j > m
    <3>1. j - m \in 1..c - 1 /\ j = m + (j - m)
      BY <1>2, <1>4, <2>1, <2>4
    <3>2. QED
      BY <2>3, <3>1
  <2>5. QED
    BY <1>2, <2>1, <2>2, <2>4
<1>27. q = z
  <2>1. Len(q) = Len(z) /\ Len(q) = m + c - 1
    BY <1>2, <1>4, <1>23, <1>25
  <2>2. QED
    BY <1>23, <1>25, <1>26, <2>1, SeqEqual
<1>28. QED
  BY <1>24, <1>27 DEF q, z, r, shorter

-----------------------------------------------------------------------------
(* Configurations. *)

\* What a configuration in use is.
Configured(cfg) ==
    /\ Valid(cfg)
    /\ cfg.custom \in Seq(Customs)
    /\ cfg.defaultCap \in Int /\ cfg.builtinCap \in Int

LEMMA ComposedTyped ==
    ASSUME NEW f \in Files, Loads(f)
    PROVE  Configured(Compose(f))
<1> DEFINE Typed(cfg) == /\ {"custom", "defaultCap", "builtinCap"} \subseteq DOMAIN cfg
                         /\ cfg.custom \in Seq(Customs)
                         /\ cfg.defaultCap \in Int /\ cfg.builtinCap \in Int
           file0 == Over(FileLayer(f), Defaults)
           port0 == Over(Port, file0)
           all0  == Over(Env, port0)
<1>1. Typed(Defaults)
  <2>1. /\ {"custom", "defaultCap", "builtinCap"} \subseteq DOMAIN Defaults
        /\ Defaults.custom = <<>> /\ Defaults.defaultCap = 50 /\ Defaults.builtinCap = 100
    BY DEF Defaults
  <2>2. <<>> \in Seq(Customs)
    OBVIOUS
  <2>3. QED
    BY <2>1, <2>2
<1>2. ASSUME NEW top, NEW bottom, FacetsTyped(top), Typed(bottom)
      PROVE  Typed(Over(top, bottom))
  <2>1. {"custom", "defaultCap", "builtinCap"} \subseteq DOMAIN Over(top, bottom)
    BY <1>2 DEF Over
  <2>2. \A x \in DOMAIN bottom :
           Over(top, bottom)[x] = IF x \in DOMAIN top THEN top[x] ELSE bottom[x]
    BY DEF Over
  <2>3. QED
    BY <1>2, <2>1, <2>2 DEF FacetsTyped
<1>3. FacetsTyped(FileLayer(f)) /\ FacetsTyped(Port) /\ FacetsTyped(Env)
  BY FacetsAssumption, ConfigAssumption
<1> HIDE DEF Typed
<1>4. Typed(all0)
  BY <1>1, <1>2, <1>3
<1>5. /\ Compose(f).custom = all0.custom /\ Compose(f).defaultCap = all0.defaultCap
      /\ Compose(f).builtinCap = all0.builtinCap
  <2>1. {"custom", "defaultCap", "builtinCap"} \subseteq DOMAIN all0
    BY <1>4 DEF Typed
  <2>2. Compose(f) = MergeTokens(all0)
    BY DEF Compose, Layers
  <2> HIDE DEF all0
  <2>3. QED
    BY <2>1, <2>2 DEF MergeTokens
<1>6. QED
  BY <1>4, <1>5 DEF Configured, Loads, Typed

-----------------------------------------------------------------------------
(* The registry. *)

FacetRows == [name : Names, cap : Caps]

\* Names of their own, builtin facets first, those of the configuration there.
Ordered(list, cfg) ==
    /\ list \in Seq(Definitions) /\ Distinct(list) /\ Len(list) >= 4
    /\ \A i \in DOMAIN list : list[i].cap > 0
    /\ \A i \in 1..4 : list[i].name = BuiltinSpecs[i].name /\ list[i].kind = "builtin"
    /\ \A n \in NamesIn(cfg.custom) \ NamesIn(BuiltinSpecs) :
          \E i \in DOMAIN list : list[i].name = n /\ list[i].kind = "config"

CapsKept ==
    \A i \in DOMAIN defs, j \in DOMAIN rows :
       /\ defs[i].kind = "ui" /\ rows[j].name = defs[i].name /\ rows[j].cap > 0
       => defs[i].cap = rows[j].cap

\* The configurations in use are valid, the rows are those of the table, and
\* the registry, unless it was left behind, is what a rebuild would give but
\* for the caps no operator set.
RegistryInv ==
    /\ file \in Files /\ Configured(current) /\ Configured(started) /\ Configured(loaded)
    /\ reload.at # "idle" => Configured(reload.next)
    /\ reload.at = "rebuild" => reload.list \in Seq(FacetRows)
    /\ rows \in Seq(FacetRows) /\ Distinct(rows) /\ dirty \in BOOLEAN
    /\ acked \subseteq NamesIn(rows)
    /\ Ordered(defs, loaded)
    /\ ~dirty => Shape(defs) = Shape(Rebuild(loaded, rows)) /\ CapsKept

Kinds == {"builtin", "config", "ui"}

LEMMA DefinitionShape ==
    ASSUME NEW a, NEW b, NEW c, NEW r, r = [name |-> a, kind |-> b, cap |-> c]
    PROVE  /\ r.name = a /\ r.kind = b /\ r.cap = c
           /\ a \in FacetNames /\ b \in Kinds /\ c \in Int => r \in Definitions
BY DEF Definitions, Kinds

LEMMA DefsIs ==
    ASSUME NEW seq \in Seq(Customs), NEW kind \in Kinds, NEW default \in Int, default > 0
    PROVE  /\ Defs(seq, kind, default) \in Seq(Definitions)
           /\ Len(Defs(seq, kind, default)) = Len(seq)
           /\ \A i \in 1..Len(seq) :
                 Defs(seq, kind, default)[i] = [name |-> seq[i].name, kind |-> kind,
                                                cap |-> CapOr(seq[i].cap, default)]
           /\ \A i \in 1..Len(seq) :
                 /\ Defs(seq, kind, default)[i].name = seq[i].name
                 /\ Defs(seq, kind, default)[i].kind = kind
                 /\ Defs(seq, kind, default)[i].cap = CapOr(seq[i].cap, default)
                 /\ Defs(seq, kind, default)[i].cap > 0
           /\ NamesIn(Defs(seq, kind, default)) = NamesIn(seq)
<1> DEFINE d == Defs(seq, kind, default)
           n == Len(seq)
<1>1. n \in Nat /\ DOMAIN seq = 1..n
  OBVIOUS
<1>2. d = [i \in 1..n |-> [name |-> seq[i].name, kind |-> kind,
                           cap |-> CapOr(seq[i].cap, default)]]
  BY <1>1 DEF Defs
<1>3. \A i \in 1..n : seq[i].name \in FacetNames /\ seq[i].cap \in Int
  <2> TAKE i \in 1..n
  <2>1. seq[i] \in Customs
    BY ElementOfSeq
  <2>2. QED
    BY <2>1 DEF Customs
<1>4. \A i \in 1..n : CapOr(seq[i].cap, default) \in Int /\ CapOr(seq[i].cap, default) > 0
  BY <1>3 DEF CapOr
<1>5. \A i \in 1..n : d[i] = [name |-> seq[i].name, kind |-> kind,
                              cap |-> CapOr(seq[i].cap, default)]
  BY <1>2
<1>7. DOMAIN d = 1..n /\ d = [i \in 1..n |-> d[i]]
  BY <1>2
<1> HIDE DEF d, n
<1>6. \A i \in 1..n : /\ d[i] \in Definitions
                      /\ d[i].name = seq[i].name /\ d[i].kind = kind
                      /\ d[i].cap = CapOr(seq[i].cap, default)
  <2> TAKE i \in 1..n
  <2> DEFINE v == CapOr(seq[i].cap, default)
             a == seq[i].name
  <2>1. a \in FacetNames /\ v \in Int /\ d[i] = [name |-> a, kind |-> kind, cap |-> v]
    BY <1>3, <1>4, <1>5
  <2> HIDE DEF v, a
  <2>2. d[i] \in Definitions /\ d[i].name = a /\ d[i].kind = kind /\ d[i].cap = v
    BY <2>1, DefinitionShape
  <2>3. QED
    BY <2>2 DEF v, a
<1>8. d \in Seq(Definitions) /\ Len(d) = n
  BY <1>1, <1>6, <1>7
<1>9. \A i \in 1..n : d[i].name = seq[i].name /\ d[i].kind = kind
                      /\ d[i].cap = CapOr(seq[i].cap, default)
  BY <1>6
<1>10. NamesIn(d) = NamesIn(seq)
  BY <1>1, <1>7, <1>9 DEF NamesIn
<1>11. QED
  BY <1>4, <1>5, <1>8, <1>9, <1>10 DEF d, n

LEMMA SpecsIs ==
    /\ BuiltinSpecs \in Seq(Customs) /\ Len(BuiltinSpecs) = 4
    /\ BuiltinSpecs[1].name = "service" /\ BuiltinSpecs[2].name = "level"
    /\ BuiltinSpecs[3].name = "host" /\ BuiltinSpecs[4].name = "source"
<1> DEFINE b1 == [name |-> "service", cap |-> 100]
           b2 == [name |-> "level", cap |-> 10]
           b3 == [name |-> "host", cap |-> 50]
           b4 == [name |-> "source", cap |-> 50]
<1>1. b1 \in Customs /\ b2 \in Customs /\ b3 \in Customs /\ b4 \in Customs
  BY FacetsAssumption DEF Customs
<1>2. b1.name = "service" /\ b2.name = "level" /\ b3.name = "host" /\ b4.name = "source"
  OBVIOUS
<1>3. BuiltinSpecs = <<b1, b2, b3, b4>>
  BY DEF BuiltinSpecs
<1> HIDE DEF b1, b2, b3, b4
<1>4. QED
  BY <1>1, <1>2, <1>3

LEMMA BuiltinsIs ==
    ASSUME NEW cfg, Configured(cfg)
    PROVE  /\ Builtins(cfg) \in Seq(Definitions) /\ Len(Builtins(cfg)) = 4
           /\ Distinct(Builtins(cfg)) /\ NamesIn(Builtins(cfg)) = NamesIn(BuiltinSpecs)
           /\ \A i \in 1..4 : /\ Builtins(cfg)[i].name = BuiltinSpecs[i].name
                              /\ Builtins(cfg)[i].kind = "builtin"
                              /\ Builtins(cfg)[i].cap > 0
<1> DEFINE d == Defs(BuiltinSpecs, "builtin", 50)
           b == Builtins(cfg)
<1>1. /\ d \in Seq(Definitions) /\ Len(d) = 4 /\ NamesIn(d) = NamesIn(BuiltinSpecs)
      /\ \A i \in 1..4 : d[i].name = BuiltinSpecs[i].name /\ d[i].kind = "builtin"
                         /\ d[i].cap > 0
  BY SpecsIs, DefsIs DEF Kinds
<1>2. b = [d EXCEPT ![1].cap = CapOr(cfg.builtinCap, @)]
  BY DEF Builtins
<1> HIDE DEF d, b
<1>3. DOMAIN d = 1..4 /\ \A i \in 1..4 : d[i] \in Definitions
  <2>1. \A i \in 1..Len(d) : d[i] \in Definitions
    BY <1>1, ElementOfSeq
  <2>2. DOMAIN d = 1..Len(d)
    BY <1>1
  <2>3. QED
    BY <1>1, <2>1, <2>2
<1> DEFINE x == [d[1] EXCEPT !.cap = CapOr(cfg.builtinCap, @)]
<1>4. x \in Definitions /\ x.name = d[1].name /\ x.kind = d[1].kind /\ x.cap > 0
  <2>1. d[1] \in Definitions /\ d[1].cap > 0
    BY <1>1, <1>3
  <2>2. cfg.builtinCap \in Int
    BY DEF Configured
  <2>3. QED
    BY <2>1, <2>2 DEF Definitions, CapOr
<1>5. b = [d EXCEPT ![1] = x]
  BY <1>2, <1>3
<1> HIDE DEF x
<1>6. 1 \in 1..Len(d)
  BY <1>1
<1>7. /\ b \in Seq(Definitions) /\ Len(b) = 4
      /\ \A i \in 1..4 : b[i] = IF i = 1 THEN x ELSE d[i]
  <2>1. /\ [d EXCEPT ![1] = x] \in Seq(Definitions) /\ Len([d EXCEPT ![1] = x]) = Len(d)
        /\ \A i \in 1..Len(d) : [d EXCEPT ![1] = x][i] = IF i = 1 THEN x ELSE d[i]
    <3>1. d \in Seq(Definitions) /\ x \in Definitions
      BY <1>1, <1>4
    <3>2. QED
      BY <1>6, <3>1, ExceptSeq
  <2>2. QED
    BY <1>1, <1>5, <2>1
<1>8. \A i \in 1..4 : b[i].name = BuiltinSpecs[i].name /\ b[i].kind = "builtin" /\ b[i].cap > 0
  BY <1>1, <1>4, <1>7
<1>9. DOMAIN b = 1..4 /\ DOMAIN BuiltinSpecs = 1..4
  BY <1>7, SpecsIs
<1>10. NamesIn(b) = NamesIn(BuiltinSpecs)
  BY <1>8, <1>9 DEF NamesIn
<1>11. Distinct(b)
  <2>1. \A i, j \in 1..4 : BuiltinSpecs[i].name = BuiltinSpecs[j].name => i = j
    <3>1. \A i \in 1..4 : i = 1 \/ i = 2 \/ i = 3 \/ i = 4
      OBVIOUS
    <3>2. QED
      BY <3>1, SpecsIs
  <2>2. QED
    BY <1>8, <1>9, <2>1 DEF Distinct
<1>12. QED
  BY <1>7, <1>8, <1>10, <1>11 DEF b

\* The definitions before those of the operator's rows.
Base(cfg) == AddDefs(Builtins(cfg), Defs(cfg.custom, "config", DefaultCap(cfg)))
Ui(cfg, list) == Defs(list, "ui", DefaultCap(cfg))

LEMMA DefaultCapIs ==
    ASSUME NEW cfg, Configured(cfg)
    PROVE  DefaultCap(cfg) \in Int /\ DefaultCap(cfg) > 0
BY DEF Configured, DefaultCap, CapOr

LEMMA BaseIs ==
    ASSUME NEW cfg, Configured(cfg)
    PROVE  Ordered(Base(cfg), cfg) /\ \A i \in DOMAIN Base(cfg) : Base(cfg)[i].kind # "ui"
<1> DEFINE all == Builtins(cfg)
           new == Defs(cfg.custom, "config", DefaultCap(cfg))
           r == Base(cfg)
<1>1. /\ all \in Seq(Definitions) /\ Len(all) = 4 /\ Distinct(all)
      /\ NamesIn(all) = NamesIn(BuiltinSpecs)
      /\ \A i \in 1..4 : all[i].name = BuiltinSpecs[i].name /\ all[i].kind = "builtin"
                         /\ all[i].cap > 0
  BY BuiltinsIs
<1>2. cfg.custom \in Seq(Customs) /\ "config" \in Kinds
  BY DEF Configured, Kinds
<1>3. /\ new \in Seq(Definitions) /\ NamesIn(new) = NamesIn(cfg.custom)
      /\ \A i \in 1..Len(new) : new[i].kind = "config" /\ new[i].cap > 0
  BY <1>2, DefaultCapIs, DefsIs
<1>4. r = AddDefs(all, new)
  BY DEF Base
<1> HIDE DEF all, new, r
<1>5. /\ r \in Seq(Definitions) /\ Len(r) >= 4 /\ \A i \in 1..4 : r[i] = all[i]
  <2>1. /\ r \in Seq(Definitions) /\ Len(r) = 4 + Cardinality(Fresh(all, new))
        /\ \A i \in 1..4 : r[i] = all[i]
    <3>1. /\ r \in Seq(Definitions) /\ Len(r) = Len(all) + Cardinality(Fresh(all, new))
          /\ \A i \in 1..Len(all) : r[i] = all[i]
      BY <1>1, <1>3, <1>4, AddDefsIs
    <3>2. QED
      BY <1>1, <3>1
  <2>2. Cardinality(Fresh(all, new)) \in Nat
    BY <1>3, FreshFinite
  <2>3. QED
    BY <2>1, <2>2
<1>6. /\ NamesIn(r) = NamesIn(all) \cup NamesIn(new) /\ Distinct(r)
      /\ \A i \in DOMAIN r : \/ i \in 1..4 /\ r[i] = all[i]
                             \/ \E j \in 1..Len(new) : r[i] = new[j]
  <2>1. /\ NamesIn(r) = NamesIn(all) \cup NamesIn(new) /\ Distinct(r)
        /\ \A i \in DOMAIN r : \/ i \in DOMAIN all /\ r[i] = all[i]
                               \/ i > Len(all) /\ \E j \in Fresh(all, new) : r[i] = new[j]
    BY <1>1, <1>3, <1>4, AddDefsNames
  <2>2. DOMAIN all = 1..4
    BY <1>1
  <2>3. Fresh(all, new) \subseteq 1..Len(new)
    BY <1>3, FreshFinite
  <2>4. QED
    BY <2>1, <2>2, <2>3
<1>7. \A i \in DOMAIN r : r[i].cap > 0 /\ r[i].kind # "ui"
  BY <1>1, <1>3, <1>6
<1>8. ASSUME NEW n \in NamesIn(cfg.custom) \ NamesIn(BuiltinSpecs)
      PROVE  \E i \in DOMAIN r : r[i].name = n /\ r[i].kind = "config"
  <2>0. n \in NamesIn(r)
    BY <1>3, <1>6
  <2>1. PICK i \in DOMAIN r : r[i].name = n
    BY <2>0 DEF NamesIn
  <2>2. ~(i \in 1..4 /\ r[i] = all[i])
    <3>1. DOMAIN all = 1..4
      BY <1>1
    <3>2. QED
      BY <1>1, <2>1, <3>1 DEF NamesIn
  <2>3. QED
    BY <1>3, <1>6, <2>1, <2>2
<1>9. \A i \in 1..4 : r[i].name = BuiltinSpecs[i].name /\ r[i].kind = "builtin"
  BY <1>1, <1>5
<1>10. Ordered(r, cfg)
  BY <1>5, <1>6, <1>7, <1>8, <1>9 DEF Ordered
<1>11. QED
  BY <1>7, <1>10 DEF r

\* A rebuild puts everything in order, and its definitions of rows are the
\* rows', with their caps.
LEMMA RebuildIs ==
    ASSUME NEW cfg, Configured(cfg), NEW list \in Seq(Customs)
    PROVE  /\ Rebuild(cfg, list) = AddDefs(Base(cfg), Ui(cfg, list))
           /\ Base(cfg) \in Seq(Definitions)
           /\ Ui(cfg, list) \in Seq(Definitions)
           /\ NamesIn(Ui(cfg, list)) = NamesIn(list)
           /\ Ordered(Rebuild(cfg, list), cfg)
           /\ NamesIn(Rebuild(cfg, list)) = NamesIn(Base(cfg)) \cup NamesIn(list)
           /\ \A i \in DOMAIN Rebuild(cfg, list) : Rebuild(cfg, list)[i].kind = "ui" =>
                 \E j \in DOMAIN list :
                    /\ Rebuild(cfg, list)[i].name = list[j].name
                    /\ list[j].name \notin NamesIn(Base(cfg))
                    /\ list[j].cap > 0 => Rebuild(cfg, list)[i].cap = list[j].cap
<1> DEFINE b == Base(cfg)
           u == Ui(cfg, list)
           r == Rebuild(cfg, list)
<1>1. Ordered(b, cfg) /\ \A i \in DOMAIN b : b[i].kind # "ui"
  BY BaseIs
<1>2. /\ b \in Seq(Definitions) /\ Distinct(b) /\ Len(b) \in Nat /\ Len(b) >= 4
      /\ DOMAIN b = 1..Len(b)
  <2> HIDE DEF b
  <2>1. b \in Seq(Definitions) /\ Distinct(b) /\ Len(b) >= 4
    BY <1>1 DEF Ordered
  <2>2. QED
    BY <2>1
<1>3. /\ u \in Seq(Definitions) /\ NamesIn(u) = NamesIn(list) /\ Len(u) = Len(list)
      /\ \A i \in 1..Len(list) : /\ u[i].name = list[i].name /\ u[i].kind = "ui"
                                 /\ u[i].cap = CapOr(list[i].cap, DefaultCap(cfg))
                                 /\ u[i].cap > 0
  BY DefaultCapIs, DefsIs DEF Kinds, Ui
<1>4. r = AddDefs(b, u)
  BY DEF Rebuild, Base, Ui
<1> HIDE DEF b, u, r
<1>5. /\ r \in Seq(Definitions) /\ Len(r) = Len(b) + Cardinality(Fresh(b, u))
      /\ \A i \in 1..Len(b) : r[i] = b[i]
  BY <1>2, <1>3, <1>4, AddDefsIs
<1>6. /\ NamesIn(r) = NamesIn(b) \cup NamesIn(list) /\ Distinct(r)
      /\ \A i \in DOMAIN r : \/ i \in DOMAIN b /\ r[i] = b[i]
                             \/ i > Len(b) /\ \E j \in Fresh(b, u) : r[i] = u[j]
  BY <1>2, <1>3, <1>4, AddDefsNames
<1>7. /\ Fresh(b, u) \subseteq 1..Len(list) /\ Cardinality(Fresh(b, u)) \in Nat
      /\ \A j \in Fresh(b, u) : u[j].name \notin NamesIn(b)
  BY <1>3, FreshFinite DEF Fresh
<1>8. Len(r) \in Nat /\ Len(r) >= Len(b) /\ Len(r) >= 4 /\ DOMAIN r = 1..Len(r)
  <2>1. Len(r) \in Nat /\ Len(r) >= Len(b) /\ Len(r) >= 4
    BY <1>2, <1>5, <1>7
  <2>2. QED
    BY <1>5, <2>1
<1>9. \A i \in DOMAIN r : r[i].cap > 0
  BY <1>1, <1>3, <1>6, <1>7 DEF Ordered
<1>10. \A i \in 1..4 : i \in 1..Len(b)
  BY <1>2
<1>11. \A i \in 1..4 : r[i].name = BuiltinSpecs[i].name /\ r[i].kind = "builtin"
  BY <1>1, <1>5, <1>10 DEF Ordered
<1>12. \A i \in DOMAIN b : i \in DOMAIN r /\ r[i] = b[i]
  BY <1>2, <1>5, <1>8
<1>13. Ordered(r, cfg)
  BY <1>1, <1>5, <1>6, <1>8, <1>9, <1>11, <1>12 DEF Ordered
<1>14. ASSUME NEW i \in DOMAIN r, r[i].kind = "ui"
       PROVE  \E j \in DOMAIN list : /\ r[i].name = list[j].name
                                     /\ list[j].name \notin NamesIn(b)
                                     /\ list[j].cap > 0 => r[i].cap = list[j].cap
  <2>1. PICK j \in Fresh(b, u) : r[i] = u[j]
    BY <1>1, <1>6, <1>14
  <2>2. j \in 1..Len(list) /\ j \in DOMAIN list
    BY <1>7
  <2>3. u[j].name = list[j].name /\ (list[j].cap > 0 => u[j].cap = list[j].cap)
    BY <1>3, <2>2 DEF CapOr
  <2>4. QED
    BY <1>7, <2>1, <2>2, <2>3
<1>15. QED
  BY <1>2, <1>3, <1>4, <1>6, <1>13, <1>14 DEF b, u, r

-----------------------------------------------------------------------------
(* Edits of a list of rows or definitions. *)

LEMMA AtIs ==
    ASSUME NEW seq, NEW n \in NamesIn(seq)
    PROVE  At(seq, n) \in DOMAIN seq /\ seq[At(seq, n)].name = n
BY DEF At, NamesIn

LEMMA DistinctAppend ==
    ASSUME NEW S, NEW s \in Seq(S), NEW x \in S, Distinct(s), x.name \notin NamesIn(s)
    PROVE  Distinct(Append(s, x)) /\ NamesIn(Append(s, x)) = NamesIn(s) \cup {x.name}
<1> DEFINE t == Append(s, x)
           n == Len(s)
<1>1. /\ t \in Seq(S) /\ Len(t) = n + 1 /\ n \in Nat
      /\ \A i \in 1..n : t[i] = s[i]
      /\ t[n + 1] = x
  BY AppendProperties
<1>2. DOMAIN s = 1..n
  OBVIOUS
<1> HIDE DEF t, n
<1>3. DOMAIN t = 1..n + 1
  BY <1>1
<1>4. /\ \A i \in 1..n + 1 : i \in 1..n \/ i = n + 1
      /\ \A i \in 1..n : i \in 1..n + 1
      /\ n + 1 \in 1..n + 1
  BY <1>1
<1>5. \A i \in 1..n : s[i].name # x.name
  BY <1>2 DEF NamesIn
<1>6. Distinct(t)
  BY <1>1, <1>2, <1>3, <1>4, <1>5 DEF Distinct
<1>7. NamesIn(t) = NamesIn(s) \cup {x.name}
  <2>1. \A y : y \in NamesIn(t) <=> \E i \in 1..n + 1 : t[i].name = y
    BY <1>3 DEF NamesIn
  <2>2. \A y : y \in NamesIn(s) <=> \E i \in 1..n : s[i].name = y
    BY <1>2 DEF NamesIn
  <2>3. ASSUME NEW y PROVE y \in NamesIn(t) <=> y \in NamesIn(s) \/ y = x.name
    <3>1. ASSUME y \in NamesIn(t) PROVE y \in NamesIn(s) \/ y = x.name
      BY <1>1, <1>4, <2>1, <2>2, <3>1
    <3>2. ASSUME y \in NamesIn(s) PROVE y \in NamesIn(t)
      BY <1>1, <1>4, <2>1, <2>2, <3>2
    <3>3. x.name \in NamesIn(t)
      BY <1>1, <1>4, <2>1
    <3>4. QED
      BY <3>1, <3>2, <3>3
  <2>4. QED
    BY <2>3
<1>8. QED
  BY <1>6, <1>7 DEF t

LEMMA DistinctRemove ==
    ASSUME NEW S, NEW s \in Seq(S), NEW i \in 1..Len(s), Distinct(s)
    PROVE  /\ Distinct(RemoveAt(s, i))
           /\ NamesIn(RemoveAt(s, i)) = NamesIn(s) \ {s[i].name}
           /\ \A j \in DOMAIN RemoveAt(s, i) :
                 \E k \in DOMAIN s : k # i /\ RemoveAt(s, i)[j] = s[k]
           /\ \A k \in DOMAIN s : k # i =>
                 \E j \in DOMAIN RemoveAt(s, i) : RemoveAt(s, i)[j] = s[k]
<1> DEFINE t == RemoveAt(s, i)
           n == Len(s)
           From0(j) == IF j < i THEN j ELSE j + 1
<1>1. /\ t \in Seq(S) /\ Len(t) = n - 1
      /\ \A j \in 1..n - 1 : t[j] = IF j < i THEN s[j] ELSE s[j + 1]
  BY RemoveAtIs
<1>2. n \in Nat /\ i \in Int /\ 1 <= i /\ i <= n /\ DOMAIN s = 1..n
  OBVIOUS
<1> HIDE DEF t, n
<1>3. DOMAIN t = 1..n - 1
  BY <1>1
<1>4. \A j \in 1..n - 1 : From0(j) \in 1..n /\ From0(j) # i /\ t[j] = s[From0(j)]
  <2> TAKE j \in 1..n - 1
  <2>1. From0(j) \in 1..n /\ From0(j) # i
    BY <1>2
  <2>2. QED
    BY <1>1, <2>1
<1>5. \A j, k \in 1..n - 1 : From0(j) = From0(k) => j = k
  <2> TAKE j, k \in 1..n - 1
  <2>1. j \in Int /\ k \in Int
    BY <1>2
  <2>2. QED
    BY <1>2, <2>1
<1>6. \A k \in 1..n : k # i => \E j \in 1..n - 1 : From0(j) = k
  <2> SUFFICES ASSUME NEW k \in 1..n, k # i PROVE \E j \in 1..n - 1 : From0(j) = k
    OBVIOUS
  <2>1. k \in Int /\ 1 <= k /\ k <= n
    BY <1>2
  <2>2. CASE k < i
    <3>1. k \in 1..n - 1 /\ From0(k) = k
      BY <1>2, <2>1, <2>2
    <3>2. QED
      BY <3>1
  <2>3. CASE k > i
    <3>1. k - 1 \in 1..n - 1 /\ ~(k - 1 < i) /\ (k - 1) + 1 = k
      BY <1>2, <2>1, <2>3
    <3>2. From0(k - 1) = k
      BY <3>1
    <3>3. QED
      BY <3>1, <3>2
  <2>4. QED
    BY <1>2, <2>1, <2>2, <2>3
<1> HIDE DEF From0
<1>7. Distinct(t)
  BY <1>2, <1>3, <1>4, <1>5 DEF Distinct
<1>8. /\ \A j \in DOMAIN t : \E k \in DOMAIN s : k # i /\ t[j] = s[k]
      /\ \A k \in DOMAIN s : k # i => \E j \in DOMAIN t : t[j] = s[k]
  BY <1>2, <1>3, <1>4, <1>6
<1>9. NamesIn(t) = NamesIn(s) \ {s[i].name}
  <2>1. \A k \in DOMAIN s : s[k].name = s[i].name => k = i
    BY <1>2 DEF Distinct
  <2>2. QED
    BY <1>2, <1>8, <2>1 DEF NamesIn
<1>10. QED
  BY <1>7, <1>8, <1>9 DEF t

LEMMA OrderedAppend ==
    ASSUME NEW list, NEW cfg, Ordered(list, cfg), NEW y \in Definitions,
           y.name \notin NamesIn(list), y.cap > 0
    PROVE  Ordered(Append(list, y), cfg)
<1> DEFINE t == Append(list, y)
           n == Len(list)
<1>1. list \in Seq(Definitions) /\ Distinct(list) /\ n >= 4
  BY DEF Ordered
<1>2. /\ t \in Seq(Definitions) /\ Len(t) = n + 1 /\ n \in Nat
      /\ \A i \in 1..n : t[i] = list[i]
      /\ t[n + 1] = y
  BY <1>1, AppendProperties
<1>3. Distinct(t)
  BY <1>1, DistinctAppend
<1>4. DOMAIN list = 1..n
  BY <1>1
<1> HIDE DEF t, n
<1>5. DOMAIN t = 1..n + 1
  BY <1>2
<1>6. /\ \A i \in 1..n + 1 : i \in 1..n \/ i = n + 1
      /\ \A i \in 1..n : i \in 1..n + 1
      /\ \A i \in 1..4 : i \in 1..n
      /\ Len(t) >= 4
  BY <1>1, <1>2
<1>7. \A i \in DOMAIN t : t[i].cap > 0
  BY <1>2, <1>4, <1>5, <1>6 DEF Ordered
<1>8. \A i \in 1..4 : t[i].name = BuiltinSpecs[i].name /\ t[i].kind = "builtin"
  BY <1>2, <1>6 DEF Ordered
<1>9. \A m \in NamesIn(cfg.custom) \ NamesIn(BuiltinSpecs) :
          \E i \in DOMAIN t : t[i].name = m /\ t[i].kind = "config"
  BY <1>2, <1>4, <1>5, <1>6 DEF Ordered
<1>10. QED
  BY <1>2, <1>3, <1>6, <1>7, <1>8, <1>9 DEF Ordered, t

LEMMA OrderedRemove ==
    ASSUME NEW list, NEW cfg, Ordered(list, cfg), NEW i \in DOMAIN list,
           list[i].kind = "ui"
    PROVE  Ordered(RemoveAt(list, i), cfg)
<1> DEFINE t == RemoveAt(list, i)
           n == Len(list)
<1>1. list \in Seq(Definitions) /\ Distinct(list) /\ n >= 4
      /\ \A j \in 1..4 : list[j].name = BuiltinSpecs[j].name /\ list[j].kind = "builtin"
  BY DEF Ordered
<1>2. n \in Nat /\ DOMAIN list = 1..n /\ i \in 1..n
  BY <1>1
<1>3. /\ t \in Seq(Definitions) /\ Len(t) = n - 1
      /\ \A j \in 1..n - 1 : t[j] = IF j < i THEN list[j] ELSE list[j + 1]
  BY <1>1, <1>2, RemoveAtIs
<1>4. /\ Distinct(t)
      /\ \A j \in DOMAIN t : \E k \in DOMAIN list : k # i /\ t[j] = list[k]
      /\ \A k \in DOMAIN list : k # i => \E j \in DOMAIN t : t[j] = list[k]
  BY <1>1, <1>2, DistinctRemove
<1> HIDE DEF t, n
<1>5. i \in Int /\ i > 4
  <2>1. i \notin 1..4
    BY <1>1
  <2>2. QED
    BY <1>2, <2>1
<1>6. Len(t) >= 4 /\ \A j \in 1..4 : j \in 1..n - 1 /\ j < i
  BY <1>2, <1>3, <1>5
<1>7. \A j \in 1..4 : t[j].name = BuiltinSpecs[j].name /\ t[j].kind = "builtin"
  BY <1>1, <1>3, <1>6
<1>8. \A j \in DOMAIN t : t[j].cap > 0
  BY <1>4 DEF Ordered
<1>9. ASSUME NEW m \in NamesIn(cfg.custom) \ NamesIn(BuiltinSpecs)
      PROVE  \E j \in DOMAIN t : t[j].name = m /\ t[j].kind = "config"
  <2>1. PICK k \in DOMAIN list : list[k].name = m /\ list[k].kind = "config"
    BY DEF Ordered
  <2>2. k # i
    BY <2>1
  <2>3. QED
    BY <1>4, <2>1, <2>2
<1>10. QED
  BY <1>3, <1>4, <1>6, <1>7, <1>8, <1>9 DEF Ordered, t

LEMMA OrderedCap ==
    ASSUME NEW list, NEW cfg, Ordered(list, cfg), NEW i \in DOMAIN list,
           NEW c \in Int, c > 0
    PROVE  /\ Ordered([list EXCEPT ![i].cap = c], cfg)
           /\ Shape([list EXCEPT ![i].cap = c]) = Shape(list)
           /\ \A j \in DOMAIN list :
                 /\ [list EXCEPT ![i].cap = c][j].name = list[j].name
                 /\ [list EXCEPT ![i].cap = c][j].kind = list[j].kind
                 /\ [list EXCEPT ![i].cap = c][j].cap = IF j = i THEN c ELSE list[j].cap
<1> DEFINE x == [list[i] EXCEPT !.cap = c]
           t == [list EXCEPT ![i] = x]
           n == Len(list)
<1>1. list \in Seq(Definitions) /\ Distinct(list) /\ n >= 4
  BY DEF Ordered
<1>2. n \in Nat /\ DOMAIN list = 1..n /\ i \in 1..n
  BY <1>1
<1>3. list[i] \in Definitions
  BY <1>1, <1>2, ElementOfSeq
<1>4. x \in Definitions /\ x.name = list[i].name /\ x.kind = list[i].kind /\ x.cap = c
  BY <1>3 DEF Definitions
<1>5. [list EXCEPT ![i].cap = c] = t
  OBVIOUS
<1> HIDE DEF x
<1>6. /\ t \in Seq(Definitions) /\ Len(t) = n
      /\ \A j \in 1..n : t[j] = IF j = i THEN x ELSE list[j]
  BY <1>1, <1>2, <1>4, ExceptSeq
<1> HIDE DEF t, n
<1>7. DOMAIN t = 1..n
  BY <1>6
<1>8. \A j \in 1..n : /\ t[j].name = list[j].name /\ t[j].kind = list[j].kind
                      /\ t[j].cap = IF j = i THEN c ELSE list[j].cap
  BY <1>4, <1>6
<1>9. Shape(t) = Shape(list)
  <2>1. /\ Len(t) = Len(list)
        /\ \A j \in 1..Len(t) : t[j].name = list[j].name /\ t[j].kind = list[j].kind
    BY <1>6, <1>8 DEF n
  <2>2. QED
    BY <1>1, <1>6, <2>1, ShapeIs
<1>10. Distinct(t)
  BY <1>1, <1>2, <1>7, <1>8 DEF Distinct
<1>11. \A j \in 1..4 : j \in 1..n
  BY <1>1, <1>2
<1>12. \A j \in DOMAIN t : t[j].cap > 0
  BY <1>2, <1>7, <1>8 DEF Ordered
<1>13. \A j \in 1..4 : t[j].name = BuiltinSpecs[j].name /\ t[j].kind = "builtin"
  BY <1>8, <1>11 DEF Ordered
<1>14. \A m \in NamesIn(cfg.custom) \ NamesIn(BuiltinSpecs) :
          \E j \in DOMAIN t : t[j].name = m /\ t[j].kind = "config"
  BY <1>2, <1>7, <1>8 DEF Ordered
<1>15. Ordered(t, cfg)
  BY <1>1, <1>6, <1>10, <1>12, <1>13, <1>14 DEF Ordered
<1>16. QED
  BY <1>2, <1>5, <1>8, <1>9, <1>15

LEMMA RowsTyped == FacetRows \subseteq Customs /\ \A s \in Seq(FacetRows) : s \in Seq(Customs)
<1>1. Names \subseteq FacetNames /\ Caps \subseteq Nat
  BY FacetsAssumption, Zenon
<1>2. FacetRows \subseteq Customs
  <2>1. ASSUME NEW x \in FacetRows
        PROVE  /\ x = [name |-> x.name, cap |-> x.cap]
               /\ x.name \in Names /\ x.cap \in Caps
    BY DEF FacetRows
  <2>2. \A a \in Names, b \in Caps : a \in FacetNames /\ b \in Int
    BY <1>1
  <2>3. \A a \in FacetNames, b \in Int : [name |-> a, cap |-> b] \in Customs
    BY DEF Customs
  <2>4. QED
    BY <2>1, <2>2, <2>3, Zenon
<1>3. QED
  BY <1>2

LEMMA UiIs ==
    ASSUME NEW cfg, Configured(cfg), NEW list \in Seq(FacetRows)
    PROVE  /\ Ui(cfg, list) \in Seq(Definitions) /\ Len(Ui(cfg, list)) = Len(list)
           /\ \A i \in 1..Len(list) :
                 Ui(cfg, list)[i] = [name |-> list[i].name, kind |-> "ui",
                                     cap |-> CapOr(list[i].cap, DefaultCap(cfg))]
           /\ \A i \in 1..Len(list) : /\ Ui(cfg, list)[i].name = list[i].name
                                      /\ Ui(cfg, list)[i].kind = "ui"
           /\ NamesIn(Ui(cfg, list)) = NamesIn(list)
<1>1. list \in Seq(Customs) /\ "ui" \in Kinds
  BY RowsTyped DEF Kinds
<1>2. QED
  BY <1>1, DefaultCapIs, DefsIs DEF Ui

LEMMA UiAppend ==
    ASSUME NEW cfg, Configured(cfg), NEW list \in Seq(FacetRows), NEW x \in FacetRows
    PROVE  /\ [name |-> x.name, kind |-> "ui", cap |-> CapOr(x.cap, DefaultCap(cfg))]
                 \in Definitions
           /\ Ui(cfg, Append(list, x)) =
                 Append(Ui(cfg, list),
                        [name |-> x.name, kind |-> "ui", cap |-> CapOr(x.cap, DefaultCap(cfg))])
<1> DEFINE t == Append(list, x)
           n == Len(list)
           y == [name |-> x.name, kind |-> "ui", cap |-> CapOr(x.cap, DefaultCap(cfg))]
           u == Ui(cfg, list)
           v == Ui(cfg, t)
           w == Append(u, y)
<1>1. /\ t \in Seq(FacetRows) /\ Len(t) = n + 1 /\ n \in Nat
      /\ \A i \in 1..n : t[i] = list[i]
      /\ t[n + 1] = x
  BY AppendProperties
<1>2. /\ u \in Seq(Definitions) /\ Len(u) = n
      /\ \A i \in 1..n : u[i] = [name |-> list[i].name, kind |-> "ui",
                                 cap |-> CapOr(list[i].cap, DefaultCap(cfg))]
  BY UiIs
<1> HIDE DEF t
<1>3. /\ v \in Seq(Definitions) /\ Len(v) = Len(t)
      /\ \A i \in 1..Len(t) : v[i] = [name |-> t[i].name, kind |-> "ui",
                                      cap |-> CapOr(t[i].cap, DefaultCap(cfg))]
  BY <1>1, UiIs
<1>4. y \in Definitions
  <2>1. x.name \in FacetNames /\ x.cap \in Int
    BY RowsTyped DEF Customs
  <2>2. CapOr(x.cap, DefaultCap(cfg)) \in Int
    BY <2>1, DefaultCapIs DEF CapOr
  <2>3. QED
    BY <2>1, <2>2, DefinitionShape DEF Kinds
<1> HIDE DEF u, v
<1>5. /\ w \in Seq(Definitions) /\ Len(w) = n + 1
      /\ \A i \in 1..n : w[i] = u[i]
      /\ w[n + 1] = y
  <2>1. /\ w \in Seq(Definitions) /\ Len(w) = Len(u) + 1
        /\ \A i \in 1..Len(u) : w[i] = u[i]
        /\ w[Len(u) + 1] = y
    <3> HIDE DEF y
    <3>1. QED
      BY <1>2, <1>4, AppendProperties
  <2>2. QED
    BY <1>2, <2>1
<1>6. \A i \in 1..n + 1 : v[i] = w[i]
  <2> TAKE i \in 1..n + 1
  <2>1. i \in 1..Len(t)
    BY <1>1
  <2>2. CASE i \in 1..n
    BY <1>1, <1>2, <1>3, <1>5, <2>1, <2>2
  <2>3. CASE i = n + 1
    BY <1>1, <1>3, <1>5, <2>1, <2>3
  <2>4. i \in 1..n \/ i = n + 1
    BY <1>1
  <2>5. QED
    BY <2>2, <2>3, <2>4
<1> HIDE DEF w, y, n
<1>7. v = w
  <2>1. Len(v) = Len(w) /\ \A i \in 1..Len(v) : v[i] = w[i]
    BY <1>1, <1>3, <1>5, <1>6
  <2>2. QED
    BY <1>3, <1>5, <2>1, SeqEqual
<1>8. QED
  BY <1>4, <1>7 DEF v, w, t, u, y

LEMMA UiRemove ==
    ASSUME NEW cfg, Configured(cfg), NEW list \in Seq(FacetRows), NEW p \in 1..Len(list)
    PROVE  Ui(cfg, RemoveAt(list, p)) = RemoveAt(Ui(cfg, list), p)
<1> DEFINE t == RemoveAt(list, p)
           n == Len(list)
           u == Ui(cfg, list)
           v == Ui(cfg, t)
           w == RemoveAt(u, p)
           D(r) == [name |-> r.name, kind |-> "ui", cap |-> CapOr(r.cap, DefaultCap(cfg))]
<1>1. /\ t \in Seq(FacetRows) /\ Len(t) = n - 1
      /\ \A j \in 1..n - 1 : t[j] = IF j < p THEN list[j] ELSE list[j + 1]
  BY RemoveAtIs
<1>2. u \in Seq(Definitions) /\ Len(u) = n /\ \A i \in 1..n : u[i] = D(list[i])
  BY UiIs
<1> HIDE DEF t
<1>3. v \in Seq(Definitions) /\ Len(v) = Len(t) /\ \A i \in 1..Len(t) : v[i] = D(t[i])
  BY <1>1, UiIs
<1> HIDE DEF u, v, D
<1>4. /\ w \in Seq(Definitions) /\ Len(w) = n - 1
      /\ \A j \in 1..n - 1 : w[j] = IF j < p THEN u[j] ELSE u[j + 1]
  <2>1. p \in 1..Len(u)
    BY <1>2
  <2>2. /\ w \in Seq(Definitions) /\ Len(w) = Len(u) - 1
        /\ \A j \in 1..Len(u) - 1 : w[j] = IF j < p THEN u[j] ELSE u[j + 1]
    BY <1>2, <2>1, RemoveAtIs
  <2>3. QED
    BY <1>2, <2>2
<1>5. n \in Nat /\ p \in Int
  OBVIOUS
<1> HIDE DEF w, n
<1>6. \A j \in 1..n - 1 : v[j] = w[j]
  <2> TAKE j \in 1..n - 1
  <2>1. j \in 1..n /\ j + 1 \in 1..n /\ j \in 1..Len(t)
    BY <1>1, <1>5
  <2>2. CASE j < p
    BY <1>1, <1>2, <1>3, <1>4, <2>1, <2>2
  <2>3. CASE ~(j < p)
    BY <1>1, <1>2, <1>3, <1>4, <2>1, <2>3
  <2>4. QED
    BY <2>2, <2>3
<1>7. v = w
  <2>1. Len(v) = Len(w) /\ \A i \in 1..Len(v) : v[i] = w[i]
    BY <1>1, <1>3, <1>4, <1>6
  <2>2. QED
    BY <1>3, <1>4, <2>1, SeqEqual
<1>8. QED
  BY <1>7 DEF v, w, t, u

-----------------------------------------------------------------------------
(* The steps. *)

\* While nothing was left behind, registry and rebuild have the same names.
LEMMA ShownAsRebuilt ==
    ASSUME RegistryInv, ~dirty
    PROVE  /\ Rebuild(loaded, rows) \in Seq(Definitions)
           /\ DOMAIN defs = DOMAIN Rebuild(loaded, rows)
           /\ Len(defs) = Len(Rebuild(loaded, rows))
           /\ \A i \in DOMAIN defs : /\ defs[i].name = Rebuild(loaded, rows)[i].name
                                     /\ defs[i].kind = Rebuild(loaded, rows)[i].kind
           /\ NamesIn(defs) = NamesIn(Base(loaded)) \cup NamesIn(rows)
<1> DEFINE r == Rebuild(loaded, rows)
<1>1. /\ Configured(loaded) /\ rows \in Seq(Customs) /\ Ordered(defs, loaded)
      /\ Shape(defs) = Shape(r)
  BY RowsTyped DEF RegistryInv
<1>2. Ordered(r, loaded) /\ NamesIn(r) = NamesIn(Base(loaded)) \cup NamesIn(rows)
  BY <1>1, RebuildIs
<1> HIDE DEF r
<1>3. defs \in Seq(Definitions) /\ r \in Seq(Definitions)
  BY <1>1, <1>2 DEF Ordered
<1>4. /\ Len(defs) = Len(r)
      /\ \A i \in 1..Len(defs) : defs[i].name = r[i].name /\ defs[i].kind = r[i].kind
  BY <1>1, <1>3, ShapeIs
<1>5. DOMAIN defs = 1..Len(defs) /\ DOMAIN r = 1..Len(defs)
  BY <1>3, <1>4
<1>6. NamesIn(defs) = NamesIn(r)
  BY <1>4, <1>5 DEF NamesIn
<1>7. QED
  BY <1>2, <1>3, <1>4, <1>5, <1>6 DEF r

LEMMA CreateStep ==
    ASSUME RegistryInv, NEW n \in Names, NEW cap \in Caps, Create(n, cap)
    PROVE  RegistryInv'
<1> DEFINE x == [name |-> n, cap |-> cap]
           y == [name |-> n, kind |-> "ui", cap |-> CapOr(cap, 50)]
           z == [name |-> n, kind |-> "ui", cap |-> CapOr(cap, DefaultCap(loaded))]
<1>1. /\ n \notin NamesIn(defs) /\ n \notin NamesIn(rows)
      /\ rows' = Append(rows, x) /\ defs' = Append(defs, y) /\ acked' = acked \cup {n}
      /\ UNCHANGED <<file, current, started, reload, dirty, loaded>>
  BY DEF Create, HasDef
<1>2. /\ Configured(loaded) /\ rows \in Seq(FacetRows) /\ Distinct(rows)
      /\ Ordered(defs, loaded) /\ acked \subseteq NamesIn(rows)
  BY DEF RegistryInv
<1>3. x \in FacetRows /\ x.name = n /\ x.cap = cap
  BY DEF FacetRows
<1>4. y \in Definitions /\ y.name = n /\ y.kind = "ui" /\ y.cap = CapOr(cap, 50) /\ y.cap > 0
  <2>1. cap \in Int /\ n \in FacetNames
    BY FacetsAssumption
  <2>2. CapOr(cap, 50) \in Int /\ CapOr(cap, 50) > 0
    BY <2>1 DEF CapOr
  <2>3. QED
    BY <2>1, <2>2, DefinitionShape DEF Kinds
<1> HIDE DEF x, y
<1>5. /\ rows' \in Seq(FacetRows) /\ Distinct(rows') /\ NamesIn(rows') = NamesIn(rows) \cup {n}
  BY <1>1, <1>2, <1>3, AppendProperties, DistinctAppend
<1>6. Ordered(defs', loaded)
  BY <1>1, <1>2, <1>4, OrderedAppend
<1>7. ASSUME ~dirty PROVE Shape(defs') = Shape(Rebuild(loaded, rows')) /\ CapsKept'
  <2> DEFINE r == Rebuild(loaded, rows)
  <2>1. /\ r \in Seq(Definitions) /\ Len(defs) = Len(r)
        /\ \A i \in DOMAIN defs : defs[i].name = r[i].name /\ defs[i].kind = r[i].kind
        /\ NamesIn(defs) = NamesIn(Base(loaded)) \cup NamesIn(rows)
    BY <1>7, ShownAsRebuilt
  <2>2. /\ r = AddDefs(Base(loaded), Ui(loaded, rows))
        /\ Base(loaded) \in Seq(Definitions) /\ Ui(loaded, rows) \in Seq(Definitions)
        /\ NamesIn(Ui(loaded, rows)) = NamesIn(rows)
    BY <1>2, RebuildIs, RowsTyped
  <2>3. Rebuild(loaded, rows') = AddDefs(Base(loaded), Ui(loaded, rows'))
    BY <1>2, <1>5, RebuildIs, RowsTyped
  <2>4. z \in Definitions /\ Ui(loaded, rows') = Append(Ui(loaded, rows), z)
    BY <1>1, <1>2, <1>3, UiAppend
  <2>5. z.name = n /\ z.kind = "ui"
    OBVIOUS
  <2> HIDE DEF r, z
  <2>6. Rebuild(loaded, rows') = Append(r, z)
    BY <1>1, <2>1, <2>2, <2>3, <2>4, <2>5, AddDefsAppend
  <2>7. defs \in Seq(Definitions) /\ DOMAIN defs = 1..Len(defs) /\ Len(defs) \in Nat
    <3>1. defs \in Seq(Definitions)
      BY <1>2 DEF Ordered
    <3>2. QED
      BY <3>1
  <2>8. /\ defs' \in Seq(Definitions) /\ Len(defs') = Len(defs) + 1
        /\ \A i \in 1..Len(defs) : defs'[i] = defs[i]
        /\ defs'[Len(defs) + 1] = y
    BY <1>1, <1>4, <2>7, AppendProperties
  <2>9. /\ Append(r, z) \in Seq(Definitions) /\ Len(Append(r, z)) = Len(r) + 1
        /\ \A i \in 1..Len(r) : Append(r, z)[i] = r[i]
        /\ Append(r, z)[Len(r) + 1] = z
    BY <2>1, <2>4, AppendProperties
  <2>10. \A i \in 1..Len(defs) + 1 : i \in 1..Len(defs) \/ i = Len(defs) + 1
    BY <2>7
  <2>11. Shape(defs') = Shape(Append(r, z))
    <3> DEFINE q == Append(r, z)
               m == Len(defs)
    <3>1. \A i \in 1..m + 1 : defs'[i].name = q[i].name /\ defs'[i].kind = q[i].kind
      <4> TAKE i \in 1..m + 1
      <4>1. CASE i \in 1..m
        BY <2>1, <2>7, <2>8, <2>9, <4>1
      <4>2. CASE i = m + 1
        BY <1>4, <2>1, <2>5, <2>8, <2>9, <4>2
      <4>3. QED
        BY <2>10, <4>1, <4>2
    <3>2. Len(defs') = m + 1 /\ Len(q) = m + 1 /\ q \in Seq(Definitions)
      BY <2>1, <2>8, <2>9
    <3> HIDE DEF q, m
    <3>3. Len(defs') = Len(q)
          /\ \A i \in 1..Len(defs') : defs'[i].name = q[i].name /\ defs'[i].kind = q[i].kind
      BY <3>1, <3>2
    <3>4. Shape(defs') = Shape(q)
      BY <2>8, <3>2, <3>3, ShapeIs
    <3>5. QED
      BY <3>4 DEF q
  <2>12. CapsKept'
    <3> SUFFICES ASSUME NEW i \in DOMAIN defs', NEW j \in DOMAIN rows',
                        defs'[i].kind = "ui", rows'[j].name = defs'[i].name, rows'[j].cap > 0
                 PROVE  defs'[i].cap = rows'[j].cap
      BY DEF CapsKept
    <3>1. /\ \A k \in 1..Len(rows) : rows'[k] = rows[k]
          /\ rows'[Len(rows) + 1] = x
          /\ DOMAIN rows = 1..Len(rows)
          /\ j \in 1..Len(rows) \/ j = Len(rows) + 1
      <4>1. /\ Len(rows') = Len(rows) + 1 /\ Len(rows) \in Nat
            /\ \A k \in 1..Len(rows) : rows'[k] = rows[k]
            /\ rows'[Len(rows) + 1] = x
        BY <1>1, <1>2, <1>3, AppendProperties
      <4>2. DOMAIN rows' = 1..Len(rows') /\ DOMAIN rows = 1..Len(rows)
        BY <1>2, <1>5
      <4>3. j \in 1..Len(rows) \/ j = Len(rows) + 1
        BY <4>1, <4>2
      <4>4. QED
        BY <4>1, <4>2, <4>3
    <3>2. i \in 1..Len(defs) \/ i = Len(defs) + 1
      <4>1. DOMAIN defs' = 1..Len(defs')
        BY <2>8
      <4>2. QED
        BY <2>8, <2>10, <4>1
    <3>3. CapsKept
      BY <1>7 DEF RegistryInv
    <3>4. /\ \A k \in 1..Len(rows) : rows[k].name # n
          /\ \A k \in 1..Len(defs) : defs[k].name # n
      BY <1>1, <2>7, <3>1 DEF NamesIn
    <3>5. CASE i \in 1..Len(defs)
      <4>1. defs'[i] = defs[i] /\ defs[i].name # n
        BY <2>8, <3>4, <3>5
      <4>2. j \in 1..Len(rows) /\ rows'[j] = rows[j]
        BY <1>3, <3>1, <4>1
      <4>3. QED
        BY <2>7, <3>1, <3>3, <3>5, <4>1, <4>2 DEF CapsKept
    <3>6. CASE i = Len(defs) + 1
      <4>1. defs'[i] = y /\ rows'[j].name = n
        BY <1>4, <2>8, <3>6
      <4>2. rows'[j] = x
        BY <3>1, <3>4, <4>1
      <4>3. cap > 0
        BY <1>3, <4>2
      <4>4. QED
        BY <1>3, <1>4, <4>1, <4>2, <4>3 DEF CapOr
    <3>7. QED
      BY <3>2, <3>5, <3>6
  <2>13. QED
    BY <2>6, <2>11, <2>12
<1>8. acked' \subseteq NamesIn(rows')
  BY <1>1, <1>2, <1>5
<1>9. QED
  BY <1>1, <1>5, <1>6, <1>7, <1>8 DEF RegistryInv

LEMMA DeleteStep ==
    ASSUME RegistryInv, NEW n \in Names, Delete(n)
    PROVE  RegistryInv'
<1> DEFINE d == At(defs, n)
           p == At(rows, n)
<1>1. /\ n \in NamesIn(defs) /\ defs[d].kind = "ui" /\ n \in NamesIn(rows)
      /\ rows' = RemoveAt(rows, p) /\ defs' = RemoveAt(defs, d) /\ acked' = acked \ {n}
      /\ UNCHANGED <<file, current, started, reload, dirty, loaded>>
  BY DEF Delete, IsUi, HasDef
<1>2. /\ Configured(loaded) /\ rows \in Seq(FacetRows) /\ Distinct(rows)
      /\ Ordered(defs, loaded) /\ acked \subseteq NamesIn(rows)
  BY DEF RegistryInv
<1>3. defs \in Seq(Definitions) /\ Distinct(defs)
  BY <1>2 DEF Ordered
<1>4. d \in DOMAIN defs /\ defs[d].name = n /\ p \in DOMAIN rows /\ rows[p].name = n
  BY <1>1, AtIs
<1>5. d \in 1..Len(defs) /\ p \in 1..Len(rows)
  BY <1>2, <1>3, <1>4
<1> HIDE DEF d, p
<1>6. rows' \in Seq(FacetRows) /\ Distinct(rows') /\ NamesIn(rows') = NamesIn(rows) \ {n}
  BY <1>1, <1>2, <1>4, <1>5, RemoveAtIs, DistinctRemove
<1>7. Ordered(defs', loaded)
  BY <1>1, <1>2, <1>4, OrderedRemove
<1>8. ASSUME ~dirty PROVE Shape(defs') = Shape(Rebuild(loaded, rows')) /\ CapsKept'
  <2> DEFINE r == Rebuild(loaded, rows)
             b == Base(loaded)
             u == Ui(loaded, rows)
  <2>1. /\ r \in Seq(Definitions) /\ Len(defs) = Len(r) /\ DOMAIN defs = DOMAIN r
        /\ \A i \in DOMAIN defs : defs[i].name = r[i].name /\ defs[i].kind = r[i].kind
    BY <1>8, ShownAsRebuilt
  <2>2. /\ r = AddDefs(b, u) /\ b \in Seq(Definitions) /\ u \in Seq(Definitions)
        /\ Ordered(r, loaded)
        /\ \A i \in DOMAIN r : r[i].kind = "ui" =>
              \E j \in DOMAIN rows : r[i].name = rows[j].name /\ rows[j].name \notin NamesIn(b)
    BY <1>2, RebuildIs, RowsTyped
  <2>3. Rebuild(loaded, rows') = AddDefs(b, Ui(loaded, rows'))
    BY <1>2, <1>6, RebuildIs, RowsTyped
  <2>4. /\ Len(u) = Len(rows)
        /\ \A i \in 1..Len(rows) : u[i].name = rows[i].name
    BY <1>2, UiIs
  <2>5. Ui(loaded, rows') = RemoveAt(u, p)
    BY <1>1, <1>2, <1>5, UiRemove
  <2> HIDE DEF r, b, u
  <2>6. n \notin NamesIn(b)
    <3>1. d \in DOMAIN r /\ r[d].name = n /\ r[d].kind = "ui"
      BY <1>1, <1>4, <2>1
    <3>2. QED
      BY <2>2, <3>1
  <2>7. Distinct(u)
    <3>1. DOMAIN u = 1..Len(rows) /\ DOMAIN rows = 1..Len(rows)
      BY <1>2, <2>2, <2>4
    <3>2. QED
      BY <1>2, <2>4, <3>1 DEF Distinct
  <2>8. p \in 1..Len(u) /\ u[p].name = n
    BY <1>4, <1>5, <2>4
  <2>9. PICK c \in 1..Len(r) : r[c] = u[p] /\ AddDefs(b, RemoveAt(u, p)) = RemoveAt(r, c)
    BY <2>2, <2>6, <2>7, <2>8, AddDefsRemove
  <2>10. c = d
    <3>1. c \in DOMAIN r /\ d \in DOMAIN r /\ r[c].name = n /\ r[d].name = n
      <4>1. c \in DOMAIN r
        BY <2>1
      <4>2. QED
        BY <1>4, <2>1, <2>8, <2>9, <4>1
    <3>2. Distinct(r)
      BY <2>2 DEF Ordered
    <3>3. QED
      BY <3>1, <3>2 DEF Distinct
  <2>11. Rebuild(loaded, rows') = RemoveAt(r, d)
    BY <2>3, <2>5, <2>9, <2>10
  <2>12. Shape(defs') = Shape(RemoveAt(r, d))
    <3> DEFINE q == RemoveAt(r, d)
               m == Len(defs)
    <3>1. /\ defs' \in Seq(Definitions) /\ Len(defs') = m - 1
          /\ \A j \in 1..m - 1 : defs'[j] = IF j < d THEN defs[j] ELSE defs[j + 1]
      BY <1>1, <1>3, <1>5, RemoveAtIs
    <3>2. /\ q \in Seq(Definitions) /\ Len(q) = m - 1
          /\ \A j \in 1..m - 1 : q[j] = IF j < d THEN r[j] ELSE r[j + 1]
      <4>1. d \in 1..Len(r)
        BY <1>5, <2>1
      <4>2. /\ q \in Seq(Definitions) /\ Len(q) = Len(r) - 1
            /\ \A j \in 1..Len(r) - 1 : q[j] = IF j < d THEN r[j] ELSE r[j + 1]
        BY <2>1, <4>1, RemoveAtIs
      <4>3. QED
        BY <2>1, <4>2
    <3>3. m \in Nat /\ DOMAIN defs = 1..m
      BY <1>3
    <3> HIDE DEF q, m
    <3>4. \A j \in 1..m - 1 : j \in DOMAIN defs /\ j + 1 \in DOMAIN defs
      BY <3>3
    <3>5. \A j \in 1..m - 1 : defs'[j].name = q[j].name /\ defs'[j].kind = q[j].kind
      BY <2>1, <3>1, <3>2, <3>4
    <3>6. Len(defs') = Len(q)
          /\ \A j \in 1..Len(defs') : defs'[j].name = q[j].name /\ defs'[j].kind = q[j].kind
      BY <3>1, <3>2, <3>5
    <3>7. Shape(defs') = Shape(q)
      BY <3>1, <3>2, <3>6, ShapeIs
    <3>8. QED
      BY <3>7 DEF q
  <2>13. CapsKept'
    <3>1. \A i \in DOMAIN defs' : \E k \in DOMAIN defs : defs'[i] = defs[k]
      BY <1>1, <1>3, <1>5, DistinctRemove
    <3>2. \A j \in DOMAIN rows' : \E k \in DOMAIN rows : rows'[j] = rows[k]
      BY <1>1, <1>2, <1>5, DistinctRemove
    <3>3. CapsKept
      BY <1>8 DEF RegistryInv
    <3>4. QED
      BY <3>1, <3>2, <3>3 DEF CapsKept
  <2>14. QED
    BY <2>11, <2>12, <2>13
<1>9. acked' \subseteq NamesIn(rows')
  BY <1>1, <1>2, <1>6
<1>10. QED
  BY <1>1, <1>6, <1>7, <1>8, <1>9 DEF RegistryInv

\* A new cap in the table.
LEMMA RowsCap ==
    ASSUME rows \in Seq(FacetRows), Distinct(rows), NEW n \in NamesIn(rows),
           NEW cap \in Caps, rows' = [rows EXCEPT ![At(rows, n)].cap = cap]
    PROVE  /\ rows' \in Seq(FacetRows) /\ Len(rows') = Len(rows)
           /\ \A j \in 1..Len(rows) :
                 /\ rows'[j].name = rows[j].name
                 /\ rows'[j].cap = IF rows[j].name = n THEN cap ELSE rows[j].cap
           /\ Distinct(rows') /\ NamesIn(rows') = NamesIn(rows)
<1> DEFINE p == At(rows, n)
           x == [rows[p] EXCEPT !.cap = cap]
           t == [rows EXCEPT ![p] = x]
           m == Len(rows)
<1>1. p \in DOMAIN rows /\ rows[p].name = n
  BY AtIs
<1> HIDE DEF p
<1>2. m \in Nat /\ DOMAIN rows = 1..m /\ p \in 1..m
  BY <1>1
<1>3. rows[p] \in FacetRows
  BY <1>2, ElementOfSeq
<1>4. x \in FacetRows /\ x.name = n /\ x.cap = cap
  BY <1>1, <1>3 DEF FacetRows
<1>5. rows' = t
  BY DEF p
<1> HIDE DEF x
<1>6. /\ t \in Seq(FacetRows) /\ Len(t) = m
      /\ \A j \in 1..m : t[j] = IF j = p THEN x ELSE rows[j]
  BY <1>2, <1>4, ExceptSeq
<1>7. \A j \in 1..m : rows[j].name = n <=> j = p
  BY <1>1, <1>2 DEF Distinct
<1> HIDE DEF t, m
<1>8. \A j \in 1..m : /\ rows'[j].name = rows[j].name
                      /\ rows'[j].cap = IF rows[j].name = n THEN cap ELSE rows[j].cap
  BY <1>1, <1>4, <1>5, <1>6, <1>7
<1>9. DOMAIN rows' = 1..m
  BY <1>5, <1>6
<1>10. Distinct(rows')
  BY <1>2, <1>8, <1>9 DEF Distinct
<1>11. NamesIn(rows') = NamesIn(rows)
  BY <1>2, <1>8, <1>9 DEF NamesIn
<1>12. QED
  BY <1>5, <1>6, <1>8, <1>10, <1>11 DEF m

LEMMA UpdateStep ==
    ASSUME RegistryInv, NEW n \in Names, NEW cap \in Caps, Update(n, cap)
    PROVE  RegistryInv'
<1> DEFINE d == At(defs, n)
           c == CapOr(cap, defs[d].cap)
<1>1. /\ n \in NamesIn(defs) /\ n \in NamesIn(rows)
      /\ rows' = [rows EXCEPT ![At(rows, n)].cap = cap]
      /\ UNCHANGED <<file, current, started, reload, dirty, loaded, acked>>
  BY DEF Update, IsUi, HasDef
<1>2. /\ Configured(loaded) /\ rows \in Seq(FacetRows) /\ Distinct(rows)
      /\ Ordered(defs, loaded) /\ acked \subseteq NamesIn(rows)
  BY DEF RegistryInv
<1>3. defs \in Seq(Definitions) /\ Distinct(defs) /\ \A i \in DOMAIN defs : defs[i].cap > 0
  BY <1>2 DEF Ordered
<1>4. d \in DOMAIN defs /\ defs[d].name = n
  BY <1>1, AtIs
<1>5. c \in Int /\ c > 0 /\ (cap > 0 => c = cap)
  <2>1. defs[d] \in Definitions
    BY <1>3, <1>4
  <2>2. defs[d].cap \in Int /\ defs[d].cap > 0
    BY <1>3, <1>4, <2>1 DEF Definitions
  <2>3. Caps \subseteq Nat
    BY FacetsAssumption, Zenon
  <2>4. cap \in Int
    BY <2>3
  <2>5. QED
    BY <2>2, <2>4 DEF CapOr
<1>6. defs' = [defs EXCEPT ![d].cap = c]
  BY <1>4 DEF Update
<1> HIDE DEF d, c
<1>7. /\ rows' \in Seq(FacetRows) /\ Len(rows') = Len(rows)
      /\ \A j \in 1..Len(rows) :
            /\ rows'[j].name = rows[j].name
            /\ rows'[j].cap = IF rows[j].name = n THEN cap ELSE rows[j].cap
      /\ Distinct(rows') /\ NamesIn(rows') = NamesIn(rows)
  BY <1>1, <1>2, RowsCap
<1>8. /\ Ordered(defs', loaded) /\ Shape(defs') = Shape(defs)
      /\ \A j \in DOMAIN defs : /\ defs'[j].name = defs[j].name
                                /\ defs'[j].kind = defs[j].kind
                                /\ defs'[j].cap = IF j = d THEN c ELSE defs[j].cap
  <2> DEFINE t == [defs EXCEPT ![d].cap = c]
  <2>1. /\ Ordered(t, loaded) /\ Shape(t) = Shape(defs)
        /\ \A j \in DOMAIN defs : /\ t[j].name = defs[j].name
                                  /\ t[j].kind = defs[j].kind
                                  /\ t[j].cap = IF j = d THEN c ELSE defs[j].cap
    BY <1>2, <1>4, <1>5, OrderedCap
  <2>2. defs' = t
    BY <1>6
  <2> HIDE DEF t
  <2>3. QED
    BY <2>1, <2>2
<1>9. ASSUME ~dirty PROVE Shape(defs') = Shape(Rebuild(loaded, rows')) /\ CapsKept'
  <2>1. Shape(defs) = Shape(Rebuild(loaded, rows)) /\ CapsKept
    BY <1>9 DEF RegistryInv
  <2>2. Shape(Ui(loaded, rows)) = Shape(Ui(loaded, rows'))
    <3> DEFINE u == Ui(loaded, rows)
               v == Ui(loaded, rows')
    <3>1. /\ u \in Seq(Definitions) /\ Len(u) = Len(rows)
          /\ \A i \in 1..Len(rows) : u[i].name = rows[i].name /\ u[i].kind = "ui"
      BY <1>2, UiIs
    <3>2. /\ v \in Seq(Definitions) /\ Len(v) = Len(rows')
          /\ \A i \in 1..Len(rows') : v[i].name = rows'[i].name /\ v[i].kind = "ui"
      BY <1>2, <1>7, UiIs
    <3> HIDE DEF u, v
    <3>3. Len(u) = Len(v) /\ \A i \in 1..Len(u) : u[i].name = v[i].name /\ u[i].kind = v[i].kind
      BY <1>7, <3>1, <3>2
    <3>4. Shape(u) = Shape(v)
      BY <3>1, <3>2, <3>3, ShapeIs
    <3>5. QED
      BY <3>4 DEF u, v
  <2>3. /\ Rebuild(loaded, rows) = AddDefs(Base(loaded), Ui(loaded, rows))
        /\ Base(loaded) \in Seq(Definitions) /\ Ui(loaded, rows) \in Seq(Definitions)
    BY <1>2, RebuildIs, RowsTyped
  <2>4. /\ Rebuild(loaded, rows') = AddDefs(Base(loaded), Ui(loaded, rows'))
        /\ Ui(loaded, rows') \in Seq(Definitions)
    BY <1>2, <1>7, RebuildIs, RowsTyped
  <2>5. Shape(Rebuild(loaded, rows)) = Shape(Rebuild(loaded, rows'))
    BY <2>2, <2>3, <2>4, AddDefsShape
  <2>6. CapsKept'
    <3> SUFFICES ASSUME NEW i \in DOMAIN defs', NEW j \in DOMAIN rows',
                        defs'[i].kind = "ui", rows'[j].name = defs'[i].name, rows'[j].cap > 0
                 PROVE  defs'[i].cap = rows'[j].cap
      BY DEF CapsKept
    <3>1. i \in DOMAIN defs
      BY <1>6
    <3>2. j \in 1..Len(rows) /\ j \in DOMAIN rows
      <4>1. DOMAIN rows' = 1..Len(rows') /\ DOMAIN rows = 1..Len(rows)
        BY <1>2, <1>7
      <4>2. QED
        BY <1>7, <4>1
    <3>3. defs[i].kind = "ui" /\ rows[j].name = defs[i].name
      BY <1>7, <1>8, <3>1, <3>2
    <3>4. CASE rows[j].name = n
      <4>1. i = d
        BY <1>3, <1>4, <3>1, <3>3, <3>4 DEF Distinct
      <4>2. rows'[j].cap = cap /\ defs'[i].cap = c
        BY <1>7, <1>8, <3>1, <3>2, <3>4, <4>1
      <4>3. QED
        BY <1>5, <4>2
    <3>5. CASE rows[j].name # n
      <4>1. i # d
        BY <1>4, <3>3, <3>5
      <4>2. rows'[j].cap = rows[j].cap /\ defs'[i].cap = defs[i].cap
        BY <1>7, <1>8, <3>1, <3>2, <3>5, <4>1
      <4>3. QED
        BY <2>1, <3>1, <3>2, <3>3, <4>2 DEF CapsKept
    <3>6. QED
      BY <3>4, <3>5
  <2>7. QED
    BY <1>8, <2>1, <2>5, <2>6
<1>10. QED
  BY <1>1, <1>2, <1>7, <1>8, <1>9 DEF RegistryInv

LEMMA HalfSteps ==
    ASSUME RegistryInv, NEW n \in Names, NEW cap \in Caps,
           CreateHalf(n, cap) \/ UpdateHalf(n, cap)
    PROVE  RegistryInv'
<1>1. /\ UNCHANGED <<file, current, started, reload, loaded, acked, defs>> /\ dirty' = TRUE
      /\ \/ n \notin NamesIn(rows) /\ rows' = Append(rows, [name |-> n, cap |-> cap])
         \/ n \in NamesIn(rows) /\ rows' = [rows EXCEPT ![At(rows, n)].cap = cap]
  BY DEF CreateHalf, UpdateHalf
<1>2. /\ rows \in Seq(FacetRows) /\ Distinct(rows) /\ acked \subseteq NamesIn(rows)
  BY DEF RegistryInv
<1>3. rows' \in Seq(FacetRows) /\ Distinct(rows') /\ NamesIn(rows) \subseteq NamesIn(rows')
  <2>1. CASE n \notin NamesIn(rows) /\ rows' = Append(rows, [name |-> n, cap |-> cap])
    <3> DEFINE x == [name |-> n, cap |-> cap]
    <3>1. x \in FacetRows /\ x.name = n
      BY DEF FacetRows
    <3> HIDE DEF x
    <3>2. rows' = Append(rows, x)
      BY <2>1 DEF x
    <3>3. QED
      BY <1>2, <2>1, <3>1, <3>2, AppendProperties, DistinctAppend
  <2>2. CASE n \in NamesIn(rows) /\ rows' = [rows EXCEPT ![At(rows, n)].cap = cap]
    BY <1>2, <2>2, RowsCap
  <2>3. QED
    BY <1>1, <2>1, <2>2
<1>4. QED
  BY <1>1, <1>2, <1>3 DEF RegistryInv

\* Rows as a rebuild takes them: all of them, with their caps.
LEMMA RebuiltKeeps ==
    ASSUME NEW cfg, Configured(cfg), NEW list \in Seq(FacetRows), Distinct(list),
           NEW i \in DOMAIN Rebuild(cfg, list), Rebuild(cfg, list)[i].kind = "ui",
           NEW j \in DOMAIN list, list[j].name = Rebuild(cfg, list)[i].name,
           list[j].cap > 0
    PROVE  Rebuild(cfg, list)[i].cap = list[j].cap
<1> DEFINE r == Rebuild(cfg, list)
<1>1. \E k \in DOMAIN list : /\ r[i].name = list[k].name
                             /\ list[k].name \notin NamesIn(Base(cfg))
                             /\ list[k].cap > 0 => r[i].cap = list[k].cap
  BY RebuildIs, RowsTyped
<1>2. PICK k \in DOMAIN list : /\ r[i].name = list[k].name
                               /\ list[k].cap > 0 => r[i].cap = list[k].cap
  BY <1>1
<1> HIDE DEF r
<1>3. k = j
  BY <1>2 DEF Distinct, r
<1>4. QED
  BY <1>2, <1>3 DEF r

LEMMA RebuildDefsStep == ASSUME RegistryInv, ReloadTyped, RebuildDefs PROVE RegistryInv'
<1>1. /\ reload.at = "rebuild" /\ defs' = Rebuild(reload.next, reload.list)
      /\ loaded' = reload.next /\ dirty' = (reload.list # rows)
      /\ reload' = [reload EXCEPT !.at = "tokens"]
      /\ UNCHANGED <<file, rows, current, started, acked>>
  BY DEF RebuildDefs
<1>2. reload'.at = "tokens" /\ reload'.next = reload.next
  BY <1>1 DEF ReloadTyped
<1>3. /\ Configured(reload.next) /\ reload.list \in Seq(FacetRows)
      /\ rows \in Seq(FacetRows) /\ Distinct(rows)
  BY <1>1 DEF RegistryInv
<1>4. Ordered(defs', loaded')
  BY <1>1, <1>3, RebuildIs, RowsTyped
<1>5. ASSUME reload.list = rows
      PROVE  Shape(defs') = Shape(Rebuild(loaded', rows')) /\ CapsKept'
  <2>1. defs' = Rebuild(loaded', rows)
    BY <1>1, <1>5
  <2>2. CapsKept'
    BY <1>1, <1>3, <2>1, RebuiltKeeps DEF CapsKept
  <2>3. QED
    BY <1>1, <2>1, <2>2
<1>6. dirty' \in BOOLEAN /\ (~dirty' => reload.list = rows)
  BY <1>1
<1>7. QED
  BY <1>1, <1>2, <1>3, <1>4, <1>5, <1>6 DEF RegistryInv

LEMMA StartedInv ==
    ASSUME file \in Files, Loads(file), rows \in Seq(FacetRows), Distinct(rows),
           acked \subseteq NamesIn(rows),
           current = Compose(file), started = current, loaded = current,
           defs = Rebuild(current, rows), reload = Idle, dirty = FALSE
    PROVE  RegistryInv
<1>1. Configured(current) /\ Configured(started) /\ Configured(loaded)
  BY ComposedTyped
<1>2. reload.at = "idle"
  BY ReloadShape
<1>3. Ordered(defs, loaded)
  BY <1>1, RebuildIs, RowsTyped
<1>4. CapsKept
  BY <1>1, RebuiltKeeps DEF CapsKept
<1>5. QED
  BY <1>1, <1>2, <1>3, <1>4 DEF RegistryInv

LEMMA RegistryInit == Init => RegistryInv
<1> SUFFICES ASSUME Init PROVE RegistryInv
  OBVIOUS
<1>1. rows = <<>> /\ acked = {}
  BY DEF Init
<1>2. rows \in Seq(FacetRows) /\ Distinct(rows)
  BY <1>1 DEF Distinct
<1>3. QED
  BY <1>1, <1>2, StartedInv DEF Init

LEMMA RestartStep == ASSUME RegistryInv, Restart PROVE RegistryInv'
<1>1. /\ rows \in Seq(FacetRows) /\ Distinct(rows) /\ acked \subseteq NamesIn(rows)
      /\ file \in Files
  BY DEF RegistryInv
<1>2. /\ Loads(file) /\ current' = Compose(file) /\ started' = current' /\ loaded' = current'
      /\ defs' = Rebuild(current', rows) /\ reload' = Idle /\ dirty' = FALSE
      /\ UNCHANGED <<file, rows, acked>>
  BY DEF Restart
<1>3. Configured(current') /\ Configured(started') /\ Configured(loaded')
  BY <1>1, <1>2, ComposedTyped
<1>4. reload'.at = "idle"
  BY <1>2, ReloadShape
<1>5. Ordered(defs', loaded')
  BY <1>1, <1>2, <1>3, RebuildIs, RowsTyped
<1>6. CapsKept'
  BY <1>1, <1>2, <1>3, RebuiltKeeps DEF CapsKept
<1>7. QED
  BY <1>1, <1>2, <1>3, <1>4, <1>5, <1>6 DEF RegistryInv

LEMMA RegistryNext == RegistryInv /\ ReloadTyped /\ [Next]_vars => RegistryInv'
<1> SUFFICES ASSUME RegistryInv, ReloadTyped, [Next]_vars PROVE RegistryInv'
  OBVIOUS
<1>1. ASSUME NEW n \in Names, NEW cap \in Caps,
             Create(n, cap) \/ CreateHalf(n, cap) \/ Update(n, cap) \/ UpdateHalf(n, cap)
      PROVE  RegistryInv'
  BY <1>1, CreateStep, HalfSteps, UpdateStep
<1>2. ASSUME NEW n \in Names, Delete(n) PROVE RegistryInv'
  BY <1>2, DeleteStep
<1>3. CASE Reload
  <2>1. UNCHANGED <<file, rows, defs, current, started, acked, dirty, loaded>>
    BY <1>3 DEF Reload
  <2>2. \/ reload'.at = "idle"
        \/ reload'.at = "list" /\ Loads(file) /\ reload'.next = Compose(file)
    BY <1>3, ReloadShape DEF Reload
  <2>3. file \in Files
    BY DEF RegistryInv
  <2>4. reload'.at # "idle" => Configured(reload'.next)
    BY <2>2, <2>3, ComposedTyped
  <2>5. reload'.at # "rebuild"
    BY <2>2
  <2>6. QED
    BY <2>1, <2>4, <2>5 DEF RegistryInv, CapsKept
<1>4. CASE ListRows
  <2>1. /\ UNCHANGED <<file, rows, defs, current, started, acked, dirty, loaded>>
        /\ reload.at = "list" /\ reload' = [reload EXCEPT !.at = "rebuild", !.list = rows]
    BY <1>4 DEF ListRows
  <2>2. reload'.next = reload.next /\ reload'.list = rows
    BY <2>1 DEF ReloadTyped
  <2>3. QED
    BY <2>1, <2>2 DEF RegistryInv, CapsKept
<1>5. CASE ListFails
  <2>1. /\ UNCHANGED <<file, rows, defs, current, started, acked, dirty, loaded>>
        /\ reload'.at = "idle"
    BY <1>5, ReloadShape DEF ListFails
  <2>2. QED
    BY <2>1 DEF RegistryInv, CapsKept
<1>6. CASE RebuildDefs
  BY <1>6, RebuildDefsStep
<1>7. CASE SwapTokens
  <2>1. /\ UNCHANGED <<file, rows, defs, current, started, acked, dirty, loaded>>
        /\ reload.at = "tokens" /\ reload' = [reload EXCEPT !.at = "commit"]
    BY <1>7 DEF SwapTokens
  <2>2. reload'.at = "commit" /\ reload'.next = reload.next
    BY <2>1 DEF ReloadTyped
  <2>3. QED
    BY <2>1, <2>2 DEF RegistryInv, CapsKept
<1>8. CASE Commit
  <2>1. /\ UNCHANGED <<file, rows, defs, started, acked, dirty, loaded>>
        /\ reload.at = "commit" /\ current' = reload.next /\ reload'.at = "idle"
    BY <1>8, ReloadShape DEF Commit
  <2>2. Configured(current')
    BY <2>1 DEF RegistryInv
  <2>3. QED
    BY <2>1, <2>2 DEF RegistryInv, CapsKept
<1>9. CASE Rewrite
  <2>1. file' \in Files /\ UNCHANGED <<rows, defs, current, started, reload, acked, dirty, loaded>>
    BY <1>9 DEF Rewrite
  <2>2. QED
    BY <2>1 DEF RegistryInv, CapsKept
<1>10. CASE Restart
  BY <1>10, RestartStep
<1>11. CASE UNCHANGED vars
  BY <1>11 DEF vars, RegistryInv, CapsKept
<1>12. QED
  BY <1>1, <1>2, <1>3, <1>4, <1>5, <1>6, <1>7, <1>8, <1>9, <1>10, <1>11 DEF Next

\* However edits, failing edits, reloads and restarts interleave, no name has
\* two definitions, the builtin facets come first, a facet of the configuration
\* hides an operator's of the same name, an acknowledged facet stays in the
\* table, and unless an edit fell into a reload or failed half way the registry
\* is what a rebuild from the table would give (registry.go:52-55, 160-190).
THEOREM RegistrySoundAlways == Spec => []RegistrySound
<1>1. RegistryInv /\ AppliedInv => RegistrySound
  <2> SUFFICES ASSUME RegistryInv, AppliedInv PROVE RegistrySound
    OBVIOUS
  <2>1. /\ rows \in Seq(FacetRows) /\ Distinct(rows) /\ dirty \in BOOLEAN
        /\ acked \subseteq NamesIn(rows) /\ Ordered(defs, loaded)
        /\ Configured(current) /\ Configured(started) /\ Configured(loaded)
    BY DEF RegistryInv
  <2>2. DOMAIN rows = 1..Len(rows) /\ \A i \in DOMAIN rows : rows[i] \in [name : Names, cap : Caps]
    <3>1. DOMAIN rows = 1..Len(rows)
      BY <2>1
    <3>2. \A i \in 1..Len(rows) : rows[i] \in FacetRows
      BY <2>1, ElementOfSeq
    <3>3. QED
      BY <3>1, <3>2 DEF FacetRows
  <2>3. /\ defs \in Seq(Definitions) /\ Distinct(defs)
        /\ \A i \in DOMAIN defs : defs[i].cap > 0
    BY <2>1 DEF Ordered
  <2>4. \A i \in DOMAIN defs : defs[i].kind \in {"builtin", "config", "ui"}
    <3>1. DOMAIN defs = 1..Len(defs)
      BY <2>3
    <3>2. \A i \in 1..Len(defs) : defs[i] \in Definitions
      BY <2>3, ElementOfSeq
    <3>3. QED
      BY <3>1, <3>2 DEF Definitions
  <2>5. TypeOK
    <3>1. Valid(current) /\ Valid(started) /\ Valid(loaded)
      BY <2>1 DEF Configured
    <3>2. acked \subseteq Names
      BY <2>1, <2>2 DEF NamesIn
    <3>3. reload.at \in {"idle", "list", "rebuild", "tokens", "commit"}
      BY DEF AppliedInv, Stages
    <3>4. QED
      BY <2>1, <2>2, <2>3, <2>4, <3>1, <3>2, <3>3 DEF TypeOK
  <2>6. ConfigWins
    <3>1. \A i, j \in DOMAIN defs : defs[i].name = defs[j].name => i = j
      BY <2>3 DEF Distinct
    <3>2. \A i \in 1..Len(BuiltinSpecs) : defs[i].name = BuiltinSpecs[i].name
      BY <2>1, SpecsIs DEF Ordered
    <3>3. ASSUME NEW n \in NamesIn(loaded.custom) \ NamesIn(BuiltinSpecs)
          PROVE  HasDef(n) /\ defs[At(defs, n)].kind = "config"
      <4>1. PICK i \in DOMAIN defs : defs[i].name = n /\ defs[i].kind = "config"
        BY <2>1 DEF Ordered
      <4>2. n \in NamesIn(defs)
        BY <4>1 DEF NamesIn
      <4>3. At(defs, n) = i
        BY <3>1, <4>1, <4>2, AtIs
      <4>4. QED
        BY <4>1, <4>2, <4>3 DEF HasDef
    <3>4. QED
      BY <3>1, <3>2, <3>3 DEF ConfigWins
  <2>7. Aligned
    <3> SUFFICES ASSUME ~dirty
                 PROVE  /\ Shape(defs) = Shape(Rebuild(loaded, rows))
                        /\ \A i \in DOMAIN defs : defs[i].kind = "ui" =>
                              LET row == rows[At(rows, defs[i].name)]
                              IN row.cap > 0 => defs[i].cap = row.cap
      BY DEF Aligned
    <3>1. Shape(defs) = Shape(Rebuild(loaded, rows)) /\ CapsKept
      BY DEF RegistryInv
    <3>2. ASSUME NEW i \in DOMAIN defs, defs[i].kind = "ui",
                 rows[At(rows, defs[i].name)].cap > 0
          PROVE  defs[i].cap = rows[At(rows, defs[i].name)].cap
      <4> DEFINE r == Rebuild(loaded, rows)
      <4>1. i \in DOMAIN r /\ r[i].kind = "ui" /\ r[i].name = defs[i].name
        BY <3>2, ShownAsRebuilt
      <4>2. \A k \in DOMAIN r : r[k].kind = "ui" => \E j \in DOMAIN rows : r[k].name = rows[j].name
        BY <2>1, RebuildIs, RowsTyped
      <4> HIDE DEF r
      <4>3. defs[i].name \in NamesIn(rows)
        BY <4>1, <4>2 DEF NamesIn
      <4>4. At(rows, defs[i].name) \in DOMAIN rows
            /\ rows[At(rows, defs[i].name)].name = defs[i].name
        BY <4>3, AtIs
      <4>5. QED
        BY <3>1, <3>2, <4>4 DEF CapsKept
    <3>3. QED
      BY <3>1, <3>2
  <2>8. QED
    BY <2>1, <2>5, <2>6, <2>7 DEF RegistrySound, AckedPersists
<1>2. QED
  BY <1>1, AppliedInit, AppliedNext, RegistryInit, RegistryNext, PTL DEF Spec
=============================================================================
