--------------------------- MODULE NodeSetChecker ---------------------------
(***************************************************************************)
(* The quorum checker of restate's replicated log                          *)
(* (crates/types/src/replication/checker.rs).                              *)
(*                                                                         *)
(* A checker is built for a node set, a replication property (a number of  *)
(* copies for every location scope that has one) and the storage state and *)
(* location of every node.  Callers tag nodes with an attribute and ask    *)
(* whether the nodes whose attribute is in some set form a write quorum or *)
(* an f-majority.  The code never looks at the nodes when it answers: it   *)
(* keeps, per scope, failure domain and attribute value, the number of     *)
(* tagged nodes, and per scope and attribute value the set of domains that *)
(* have one.  This module models that bookkeeping, and states next to it   *)
(* what the answers have to mean in terms of the nodes themselves.         *)
(*                                                                         *)
(* Abstracted: domain names (a failure domain is a model value; at the     *)
(* node scope the domain of a node is the node); the predicate over        *)
(* attributes is the set of the attribute values that satisfy it.          *)
(***************************************************************************)
EXTENDS Naturals, FiniteSets, FiniteSetsExt

CONSTANTS
    Node,               \* the nodes of the node set
    Scope,              \* scopes with a replication requirement, as numbered in LocationScope
    ReplicationFactor,  \* copies required at each scope
    Domain,             \* failure domains of the scopes above the node scope
    NoDomain,           \* the node has no location at the scope
    StorageStates,      \* storage states the configuration may give to a node
    Attr,               \* attribute values; 0 is the default and merging takes the larger
    NoAttr              \* the node has not been tagged

NodeScope == 0

ASSUME CheckerAssumption ==
    /\ IsFiniteSet(Node)
    /\ NodeScope \in Scope /\ Scope \subseteq 0 .. 2
    /\ ReplicationFactor \in [Scope -> Nat \ {0}]
    /\ IsFiniteSet(Domain) /\ NoDomain \notin Node \cup Domain
    /\ StorageStates \subseteq
         {"Provisioning", "Disabled", "ReadOnly", "Gone", "ReadWrite", "DataLoss"}
    /\ Attr \subseteq Nat /\ IsFiniteSet(Attr) /\ 0 \in Attr
    /\ NoAttr \notin Attr

VARIABLES
    storage,    \* storage state of every node, as of the construction of the checker
    location,   \* failure domain of every node at every scope above the node scope
    checker     \* the checker's own state: tags, counters and replication domains

vars == <<storage, location, checker>>

-----------------------------------------------------------------------------
(* StorageState *)

can_read_from(st) == st # "Disabled"

is_authoritative(st) == st # "DataLoss"

empty(st) == st = "Disabled"

-----------------------------------------------------------------------------
(* The node set as the checker sees it: empty nodes are never added. *)

Effective == {n \in Node : ~empty(storage[n])}

DomainOf(s, n) == IF s = NodeScope THEN n ELSE location[s][n]

AllDomains == Node \cup Domain

Members(s, d) == {n \in Effective : DomainOf(s, n) = d}

FailureDomains(s) == {d \in AllDomains : Members(s, d) # {}}

-----------------------------------------------------------------------------
(* Bookkeeping.  counters[s][d][a] is the Count of attribute a in domain d, *)
(* fds[s][a] the replication domains of a.                                  *)

NoCount == [readable |-> 0, auth |-> 0]

\* Count::increment and Count::decrement
Increment(cnt, st) ==
    [readable |-> IF can_read_from(st) THEN cnt.readable + 1 ELSE cnt.readable,
     auth     |-> IF is_authoritative(st) THEN cnt.auth + 1 ELSE cnt.auth]

\* mutant: a node leaves the authoritative count in which it never was
Decrement_ignores_authority(cnt, st) ==
    IF cnt.readable = 0 THEN cnt
    ELSE [readable |-> IF can_read_from(st) THEN cnt.readable - 1 ELSE cnt.readable,
          auth     |-> cnt.auth - 1]

Decrement(cnt, st) ==
    IF cnt.readable = 0 THEN cnt
    ELSE [readable |-> IF can_read_from(st) THEN cnt.readable - 1 ELSE cnt.readable,
          auth     |-> IF is_authoritative(st) THEN cnt.auth - 1 ELSE cnt.auth]

\* the scopes at which the node has a location; the others skip it
Located(n) == {s \in Scope : DomainOf(s, n) # NoDomain}

AddAttrInternal(chk, n, a) ==
    LET new(s) == Increment(chk.counters[s][DomainOf(s, n)][a], storage[n])
    IN  [chk EXCEPT
          !.counters = [s \in Scope |-> IF s \in Located(n)
              THEN [chk.counters[s] EXCEPT ![DomainOf(s, n)][a] = new(s)]
              ELSE chk.counters[s]],
          !.fds = [s \in Scope |-> IF s \in Located(n) /\ new(s).readable = 1
              THEN [chk.fds[s] EXCEPT ![a] = @ \cup {DomainOf(s, n)}]
              ELSE chk.fds[s]]]

\* mutant: the domain stays in the replication set when its last node leaves
RmAttrInternal_keeps_domain(chk, n, a) ==
    [chk EXCEPT !.counters = [s \in Scope |-> IF s \in Located(n)
        THEN [chk.counters[s] EXCEPT ![DomainOf(s, n)][a] = Decrement(@, storage[n])]
        ELSE chk.counters[s]]]

RmAttrInternal(chk, n, a) ==
    LET new(s) == Decrement(chk.counters[s][DomainOf(s, n)][a], storage[n])
    IN  [chk EXCEPT
          !.counters = [s \in Scope |-> IF s \in Located(n)
              THEN [chk.counters[s] EXCEPT ![DomainOf(s, n)][a] = new(s)]
              ELSE chk.counters[s]],
          !.fds = [s \in Scope |-> IF s \in Located(n) /\ new(s).readable = 0
              THEN [chk.fds[s] EXCEPT ![a] = @ \ {DomainOf(s, n)}]
              ELSE chk.fds[s]]]

SetAttr(chk, n, a) ==
    LET old == chk.attr[n]
        tagged == [chk EXCEPT !.attr[n] = a]
    IN  IF empty(storage[n]) \/ old = a THEN chk
        ELSE AddAttrInternal(IF old = NoAttr THEN tagged
                             ELSE RmAttrInternal(tagged, n, old), n, a)

Merged(old, a) == IF old = NoAttr \/ old < a THEN a ELSE old

-----------------------------------------------------------------------------
(* The answers, computed from the bookkeeping as the code does. *)

WriteQuorumAtScope(s, P) ==
    Cardinality(UNION {checker.fds[s][a] : a \in P}) >= ReplicationFactor[s]

CheckWriteQuorum(P) == \A s \in Scope : WriteQuorumAtScope(s, P)

NumAuth(s, d, P) ==
    MapThenSumSet(LAMBDA a : checker.counters[s][d][a].auth, P)

NumNonAuth(s, d, P) ==
    MapThenSumSet(LAMBDA a : checker.counters[s][d][a].readable
                               - checker.counters[s][d][a].auth, P)

\* count_matching_domains: a domain counts once all of its nodes match, and
\* only when they are all authoritative or all non-authoritative
AuthDomains(s, P) ==
    {d \in FailureDomains(s) :
        NumAuth(s, d, P) > 0 /\ NumAuth(s, d, P) >= Cardinality(Members(s, d))}

NonAuthDomains(s, P) ==
    {d \in FailureDomains(s) \ AuthDomains(s, P) :
        NumNonAuth(s, d, P) > 0 /\ NumNonAuth(s, d, P) >= Cardinality(Members(s, d))}

\* mutant: off by one in the number of domains an f-majority needs
FMajorityNeeded_minus_one(s) ==
    LET domains == Cardinality(FailureDomains(s))
    IN  IF domains > ReplicationFactor[s] THEN domains - ReplicationFactor[s] ELSE 1

\* mutant: one domain too many
FMajorityNeeded_plus_one(s) ==
    LET domains == Cardinality(FailureDomains(s))
    IN  IF domains >= ReplicationFactor[s] THEN domains - ReplicationFactor[s] + 2 ELSE 1

\* domains.saturating_sub(replication) + 1
FMajorityNeeded(s) ==
    LET domains == Cardinality(FailureDomains(s))
    IN  IF domains >= ReplicationFactor[s] THEN domains - ReplicationFactor[s] + 1 ELSE 1

is_complete_set(P) ==
    Cardinality(AuthDomains(NodeScope, P))
        = Cardinality({n \in Effective : is_authoritative(storage[n])})

\* the scopes are visited in order and the first that has enough domains decides
CheckFMajority(P) ==
    LET enough == {s \in Scope : Cardinality(AuthDomains(s, P))
                     + Cardinality(NonAuthDomains(s, P)) >= FMajorityNeeded(s)}
    IN  IF enough # {}
        THEN IF Cardinality(AuthDomains(Min(enough), P)) >= FMajorityNeeded(Min(enough))
             THEN "Success" ELSE "SuccessWithRisk"
        ELSE IF is_complete_set(P) THEN "BestEffort" ELSE "None"

passed(result) == result \in {"Success", "SuccessWithRisk"}

-----------------------------------------------------------------------------
(* Operations *)

\* NodeSetChecker::new
Init ==
    /\ storage \in [Node -> StorageStates]
    /\ location \in [Scope \ {NodeScope} -> [Node -> Domain \cup {NoDomain}]]
    /\ checker = [attr     |-> [n \in Node |-> NoAttr],
                  counters |-> [s \in Scope |-> [d \in AllDomains |-> [a \in Attr |-> NoCount]]],
                  fds      |-> [s \in Scope |-> [a \in Attr |-> {}]]]

set_attribute(n, a) ==
    /\ checker' = SetAttr(checker, n, a)
    /\ UNCHANGED <<storage, location>>

merge_attribute(n, a) ==
    /\ checker' = SetAttr(checker, n, Merged(checker.attr[n], a))
    /\ UNCHANGED <<storage, location>>

fill_with(a) ==
    /\ checker' = FoldSet(LAMBDA n, chk : SetAttr(chk, n, a), checker, Effective)
    /\ UNCHANGED <<storage, location>>

Next ==
    \/ \E n \in Node, a \in Attr : set_attribute(n, a) \/ merge_attribute(n, a)
    \/ \E a \in Attr : fill_with(a)

Spec == Init /\ [][Next]_vars

-----------------------------------------------------------------------------
(* What the answers mean, in terms of the nodes. *)

\* M contains nodes of enough failure domains at every scope
WriteQuorum(M) ==
    \A s \in Scope :
        Cardinality({d \in FailureDomains(s) : Members(s, d) \cap M # {}}) >= ReplicationFactor[s]

Tagged(P) == {n \in Effective : checker.attr[n] \in P}

(* TypeOK: the shape of the checker's state. *)
TypeOK ==
    /\ storage \in [Node -> StorageStates]
    /\ location \in [Scope \ {NodeScope} -> [Node -> Domain \cup {NoDomain}]]
    /\ checker.attr \in [Node -> Attr \cup {NoAttr}]
    /\ \A s \in Scope : checker.counters[s] \in [AllDomains -> [Attr -> [readable : Nat, auth : Nat]]]
    /\ \A s \in Scope : checker.fds[s] \in [Attr -> SUBSET AllDomains]

(* WriteQuorumAnswer: after any sequence of tag, re-tag, merge and fill     *)
(* calls, check_write_quorum, which only looks at the replication domains   *)
(* kept up to date by add_attr_internal and rm_attr_internal, answers       *)
(* exactly whether the nodes whose current tag matches form a write quorum. *)
WriteQuorumAnswer ==
    \A P \in SUBSET Attr : CheckWriteQuorum(P) <=> WriteQuorum(Tagged(P))

(* FMajorityIntersects: when check_fmajority passes for the current tags,   *)
(* the matching nodes share a node with every write quorum that can be      *)
(* chosen from the node set: the guarantee that seal and find-tail rest on. *)
FMajorityIntersects ==
    \A P \in SUBSET Attr :
        passed(CheckFMajority(P)) =>
            \A Q \in SUBSET Effective : WriteQuorum(Q) => Q \cap Tagged(P) # {}

(* FMajorityReached: the other direction, which decides availability.  If   *)
(* no node has lost data, matching nodes that share a node with every write *)
(* quorum are recognised as an f-majority; a checker that asked for more    *)
(* would leave a loglet unsealable although enough nodes have answered.     *)
FMajorityReached ==
    \A P \in SUBSET Attr :
        /\ \A n \in Effective : is_authoritative(storage[n])
        /\ \A s \in Scope : Cardinality(FailureDomains(s)) >= ReplicationFactor[s]
        /\ \A Q \in SUBSET Effective : WriteQuorum(Q) => Q \cap Tagged(P) # {}
        => CheckFMajority(P) = "Success"
=============================================================================
