------------------------------ MODULE Knowledge ------------------------------
(***************************************************************************)
(* What the daemon derives into the knowledge graph: episodes from the     *)
(* facts agents share (graph-reconcile.ts), and communities of nodes       *)
(* (graph-communities.ts).                                                 *)
(*                                                                         *)
(* Facts are numbered in the order of (created_at, id), in which the hub   *)
(* is assumed to show them.  Active facts of one content that are fetched  *)
(* together are one episode, whose source is the set of their ids.         *)
(***************************************************************************)
EXTENDS Naturals, FiniteSets, FiniteSetsExt, SequencesExt

CONSTANTS
    MaxFact,    \* bound: facts 1..MaxFact
    SessionOf,  \* the session of each fact
    ContentOf,  \* its content, lower case and trimmed
    Scopes,     \* sessions a reconciliation is restricted to
    Limit,      \* MAX_FACTS
    Nodes, Pairs,  \* nodes, and the edges there may be
    Workers,    \* reconciliations, or computations of communities, in progress
    None

Facts == 1..MaxFact
Sources == (SUBSET Facts) \ {{}}

VARIABLES
    facts,        \* shared_facts of the hub
    passed,       \* kg_reconcile_cursor
    episodes,     \* the sources kg_episodes has a row of
    doubled,      \* a source got a second row
    workers,
    regrouped,    \* the facts that were fetched under a second source
    jumped,       \* the facts the cursor passed for the sake of another session
    crowded,      \* two reconciliations, or two computations, overlapped
    graph,        \* the valid edges
    communities,  \* rows of kg_communities that are not invalidated
    clustering    \* the computation of communities in progress in each worker

reconcileVars == <<facts, passed, episodes, doubled, workers, regrouped, jumped>>
communityVars == <<graph, communities, clustering>>
knowledgeVars == <<reconcileVars, communityVars, crowded>>

Worker     == [todo : SUBSET Sources, last : 0..MaxFact, over : SUBSET Facts, checked : BOOLEAN]
Clustering == [found : SUBSET SUBSET Nodes, of : SUBSET Pairs, cleared : BOOLEAN]

TypeOK ==
    /\ facts \in [Facts -> {"none", "active", "superseded"}]
    /\ passed \in 0..MaxFact
    /\ episodes \subseteq Sources /\ doubled \in BOOLEAN
    /\ regrouped \subseteq Facts /\ jumped \subseteq Facts
    /\ workers \in [Workers -> Worker \cup {None}]
    /\ graph \subseteq Pairs
    /\ communities \subseteq SUBSET Nodes
    /\ clustering \in [Workers -> Clustering \cup {None}]
    /\ crowded \in BOOLEAN

Init ==
    /\ facts = [f \in Facts |-> "none"] /\ passed = 0 /\ episodes = {} /\ doubled = FALSE
    /\ regrouped = {} /\ jumped = {}
    /\ workers = [w \in Workers |-> None] /\ crowded = FALSE
    /\ graph = {} /\ communities = {} /\ clustering = [w \in Workers |-> None]

Overlaps(doing) == crowded' = (crowded \/ \E w \in Workers : doing[w] # None)

-----------------------------------------------------------------------------
(* graphReconcile.                                                         *)

ShareFact(f) ==
    /\ facts[f] = "none" /\ \A g \in 1..(f - 1) : facts[g] # "none"
    /\ facts' = [facts EXCEPT ![f] = "active"]
    /\ UNCHANGED <<passed, episodes, doubled, workers, regrouped, jumped, communityVars, crowded>>

SupersedeFact(f) ==
    /\ facts[f] = "active"
    /\ facts' = [facts EXCEPT ![f] = "superseded"]
    /\ UNCHANGED <<passed, episodes, doubled, workers, regrouped, jumped, communityVars, crowded>>

\* The next facts beyond the cursor, of one session if the call names one.
Beyond(scope) == {f \in Facts : f > passed /\ facts[f] # "none" /\ (scope = None \/ SessionOf[f] = scope)}
Batch(scope, limit)  == {f \in Beyond(scope) : Cardinality({g \in Beyond(scope) : g <= f}) <= limit}

\* reconcileHeuristic: facts of one content are duplicates.
Group(f, S) == {g \in S : ContentOf[g] = ContentOf[f]}

\* The sources that have an episode or are about to.
Known == episodes \cup UNION {workers[w].todo : w \in {v \in Workers : workers[v] # None}}

FetchFacts(w, scope, limit) ==
    LET batch  == Batch(scope, limit)
        active == {f \in batch : facts[f] = "active"}
        last   == IF batch = {} THEN 0 ELSE Max(batch)
    IN
    /\ workers[w] = None
    /\ workers' = [workers EXCEPT ![w] =
           [todo |-> {Group(f, active) : f \in active}, last |-> last, checked |-> FALSE,
            over |-> IF scope = None THEN {} ELSE {f \in Facts : passed < f /\ f < last /\ SessionOf[f] # scope}]]
    /\ regrouped' = regrouped \cup {f \in active : \E S \in Known \ {Group(f, active)} : f \in S}
    /\ Overlaps(workers)
    /\ UNCHANGED <<facts, passed, episodes, doubled, jumped, communityVars>>

\* The group of the first fact that is left.
FirstGroup(todo) == CHOOSE G \in todo : Min(UNION todo) \in G
Done(w, G) == [workers[w] EXCEPT !.todo = @ \ {G}, !.checked = FALSE]

\* alreadyIngested, then ingestEpisode.
CheckFact(w) ==
    /\ workers[w] # None /\ workers[w].todo # {} /\ ~workers[w].checked
    /\ LET G == FirstGroup(workers[w].todo)
       IN workers' = [workers EXCEPT ![w] = IF G \in episodes THEN Done(w, G) ELSE [@ EXCEPT !.checked = TRUE]]
    /\ UNCHANGED <<facts, passed, episodes, doubled, regrouped, jumped, communityVars, crowded>>

IngestFact(w) ==
    /\ workers[w] # None /\ workers[w].checked
    /\ LET G == FirstGroup(workers[w].todo)
       IN /\ episodes' = episodes \cup {G} /\ doubled' = (doubled \/ G \in episodes)
          /\ workers' = [workers EXCEPT ![w] = Done(w, G)]
    /\ UNCHANGED <<facts, passed, regrouped, jumped, communityVars, crowded>>

\* There is one cursor, whatever session the facts were of.
Ready(w) == workers[w].todo = {}
MoveCursor(w) ==
    /\ workers[w] # None /\ Ready(w)
    /\ passed' = IF workers[w].last = 0 THEN passed ELSE workers[w].last
    /\ jumped' = jumped \cup workers[w].over
    /\ workers' = [workers EXCEPT ![w] = None]
    /\ UNCHANGED <<facts, episodes, doubled, regrouped, communityVars, crowded>>

-----------------------------------------------------------------------------
(* connectedComponents: union-find over the edges, in any order.           *)

Root(parent, n) ==
    LET up[k \in 0..Cardinality(Nodes)] == IF k = 0 THEN n ELSE parent[up[k - 1]]
    IN up[Cardinality(Nodes)]
Union(parent, e) == [parent EXCEPT ![Root(parent, e[1])] = Root(parent, e[2])]
Components(edges) ==
    LET forest == FoldSeq(LAMBDA e, parent : Union(parent, e), [n \in Nodes |-> n], SetToSeq(edges))
    IN {{n \in Nodes : Root(forest, n) = r} : r \in {Root(forest, n) : n \in Nodes}}

-----------------------------------------------------------------------------
(* graphCommunities.                                                       *)

ChangeGraph ==
    /\ \E e \in Pairs : graph' \in {graph \cup {e}, graph \ {e}} \ {graph}
    /\ UNCHANGED <<communities, clustering, reconcileVars, crowded>>

\* The communities on record are returned if there are any, unless the call
\* asks for a refresh.
ComputeCommunities(w) ==
    /\ clustering[w] = None
    /\ clustering' = [clustering EXCEPT ![w] = [found |-> Components(graph), of |-> graph, cleared |-> FALSE]]
    /\ Overlaps(clustering)
    /\ UNCHANGED <<graph, communities, reconcileVars>>

Clear(rows) == {}
InvalidatePrior(w) ==
    /\ clustering[w] # None /\ ~clustering[w].cleared
    /\ communities' = Clear(communities)
    /\ clustering' = [clustering EXCEPT ![w].cleared = TRUE]
    /\ UNCHANGED <<graph, reconcileVars, crowded>>

InsertCommunity(w) ==
    /\ clustering[w] # None /\ clustering[w].cleared
    /\ \E c \in clustering[w].found :
          /\ communities' = communities \cup {c}
          /\ clustering' = [clustering EXCEPT ![w] =
                 IF clustering[w].found = {c} THEN None
                 ELSE [found |-> clustering[w].found \ {c}, of |-> clustering[w].of, cleared |-> TRUE]]
    /\ UNCHANGED <<graph, reconcileVars, crowded>>

\* A statement fails, or the daemon stops.
Abandon(w) ==
    /\ workers[w] # None \/ clustering[w] # None
    /\ workers' = [workers EXCEPT ![w] = None]
    /\ clustering' = [clustering EXCEPT ![w] = None]
    /\ UNCHANGED <<facts, passed, episodes, doubled, regrouped, jumped, graph, communities, crowded>>

ReconcileNext ==
    \/ \E f \in Facts : ShareFact(f) \/ SupersedeFact(f)
    \/ \E w \in Workers : CheckFact(w) \/ IngestFact(w) \/ MoveCursor(w) \/ Abandon(w)
                          \/ \E scope \in Scopes \cup {None}, limit \in 1..Limit : FetchFacts(w, scope, limit)
CommunityNext ==
    \/ ChangeGraph
    \/ \E w \in Workers : ComputeCommunities(w) \/ InvalidatePrior(w) \/ InsertCommunity(w) \/ Abandon(w)

Spec == Init /\ [][ReconcileNext]_knowledgeVars
CommunitySpec == Init /\ [][CommunityNext]_knowledgeVars
-----------------------------------------------------------------------------
(* Properties.                                                             *)

\* Every active fact the cursor has passed is in an episode: over limits, duplicates, crashes and
\* reconciliations that overlap.  The exception is what a reconciliation of one session does to
\* the others, whose facts it jumps over for good.
HasEpisode(f) == \E S \in episodes : f \in S
FactsAreIngested == \A f \in 1..passed : facts[f] = "active" /\ f \notin jumped => HasEpisode(f)

\* A source gets one episode, over crashes and repetitions, unless two reconciliations overlapped,
\* and a fact is in the episode of one source, unless it was fetched again under another: when one
\* of its content came or was superseded after a reconciliation that did not get to move the cursor.
EpisodesAreOnce ==
    /\ ~crowded => ~doubled
    /\ \A S, T \in episodes : S # T => S \cap T \subseteq regrouped

\* A component is closed under the edges, and nothing smaller in it is.
Closed(S, edges) == S # {} /\ \A e \in edges : e[1] \in S <=> e[2] \in S
IsComponent(S, edges) == Closed(S, edges) /\ \A T \in SUBSET S : Closed(T, edges) => T = S

\* What union-find returns are the components, all of them while none is inserted.
ComponentsAreFound ==
    \A w \in Workers : clustering[w] # None =>
        /\ \A S \in clustering[w].found : IsComponent(S, clustering[w].of)
        /\ ~clustering[w].cleared => UNION clustering[w].found = Nodes

\* No node is in two communities, unless two computations overlapped.
CommunitiesAreDisjoint == ~crowded => \A S, T \in communities : S # T => S \cap T = {}
=============================================================================
