------------------------ MODULE NodeSetCheckerProofs ------------------------
(***************************************************************************)
(* The checker answers what its answers have to mean, for every node set,  *)
(* every placement of the nodes in failure domains, every assignment of    *)
(* storage states and every replication property.                          *)
(***************************************************************************)
EXTENDS NodeSetChecker, NaturalsInduction, FiniteSetTheorems, TLAPS

-----------------------------------------------------------------------------
(* The inductive invariant: the counters and the replication domains are   *)
(* those that one would compute from the tags of the nodes.                *)

Holders(t, s, d, a) == {n \in Members(s, d) : t[n] = a}

Authoritative(N) == {n \in N : is_authoritative(storage[n])}

CountOf(t, s, d, a) ==
    [readable |-> Cardinality(Holders(t, s, d, a)),
     auth     |-> Cardinality(Authoritative(Holders(t, s, d, a)))]

DomainsWith(t, s, a) == {d \in AllDomains : Holders(t, s, d, a) # {}}

\* the state of a checker whose nodes have the tags t
Book(t) ==
    [attr     |-> t,
     counters |-> [s \in Scope |-> [d \in AllDomains |-> [a \in Attr |-> CountOf(t, s, d, a)]]],
     fds      |-> [s \in Scope |-> [a \in Attr |-> DomainsWith(t, s, a)]]]

\* only nodes that the checker knows are tagged
Tags == {t \in [Node -> Attr \cup {NoAttr}] : \A n \in Node : t[n] # NoAttr => n \in Effective}

NodeSet ==
    /\ storage \in [Node -> StorageStates]
    /\ location \in [Scope \ {NodeScope} -> [Node -> Domain \cup {NoDomain}]]

BookInv == NodeSet /\ checker.attr \in Tags /\ checker = Book(checker.attr)

-----------------------------------------------------------------------------
(* The node set *)

LEMMA NodesAreFinite ==
    /\ IsFiniteSet(Effective) /\ IsFiniteSet(AllDomains)
    /\ \A s, d : IsFiniteSet(Members(s, d)) /\ Members(s, d) \subseteq Effective
    /\ \A N : N \subseteq Effective => IsFiniteSet(N) /\ Cardinality(N) \in Nat
  <1>1. IsFiniteSet(Node) /\ IsFiniteSet(Domain)
    BY CheckerAssumption
  <1>2. Effective \subseteq Node
    BY DEF Effective
  <1>3. \A N : N \subseteq Effective => IsFiniteSet(N)
    BY <1>1, <1>2, FS_Subset
  <1>4. \A N : N \subseteq Effective => Cardinality(N) \in Nat
    BY <1>3, FS_CardinalityType
  <1>5. IsFiniteSet(AllDomains)
    BY <1>1, FS_Union DEF AllDomains
  <1>6. \A s, d : Members(s, d) \subseteq Effective
    BY DEF Members
  <1> QED
    BY <1>3, <1>4, <1>5, <1>6

LEMMA HoldersInside ==
    ASSUME NEW t, NEW s, NEW d, NEW a
    PROVE  /\ Holders(t, s, d, a) \subseteq Effective
           /\ Authoritative(Holders(t, s, d, a)) \subseteq Holders(t, s, d, a)
           /\ Authoritative(Holders(t, s, d, a)) \subseteq Effective
           /\ IsFiniteSet(Holders(t, s, d, a))
           /\ IsFiniteSet(Authoritative(Holders(t, s, d, a)))
           /\ CountOf(t, s, d, a) \in [readable : Nat, auth : Nat]
  <1>1. /\ Holders(t, s, d, a) \subseteq Effective
        /\ Authoritative(Holders(t, s, d, a)) \subseteq Holders(t, s, d, a)
    BY NodesAreFinite DEF Holders, Authoritative
  <1>2. Authoritative(Holders(t, s, d, a)) \subseteq Effective
    BY <1>1
  <1>3. /\ IsFiniteSet(Holders(t, s, d, a)) /\ Cardinality(Holders(t, s, d, a)) \in Nat
        /\ IsFiniteSet(Authoritative(Holders(t, s, d, a)))
        /\ Cardinality(Authoritative(Holders(t, s, d, a))) \in Nat
    BY <1>1, <1>2, NodesAreFinite
  <1> QED
    BY <1>1, <1>2, <1>3 DEF CountOf

\* a node has a failure domain at the scopes where it is located
LEMMA LocatedDomain ==
    ASSUME NodeSet, NEW n \in Node, NEW s \in Scope
    PROVE  /\ s \in Located(n) <=> DomainOf(s, n) \in AllDomains
           /\ s \notin Located(n) => \A d \in AllDomains : n \notin Members(s, d)
           /\ n \in Effective => \A d \in AllDomains : n \in Members(s, d) <=> d = DomainOf(s, n)
  <1>1. NoDomain \notin AllDomains
    BY CheckerAssumption DEF AllDomains
  <1>2. DomainOf(s, n) \in AllDomains \cup {NoDomain}
    BY DEF DomainOf, NodeSet, AllDomains
  <1>3. s \in Located(n) <=> DomainOf(s, n) \in AllDomains
    BY <1>1, <1>2 DEF Located
  <1> QED
    BY <1>3 DEF Members

-----------------------------------------------------------------------------
(* One node changes its tag *)

\* the tags after node n got the tag b
Retag(t, n, b) == [t EXCEPT ![n] = b]

LEMMA TagMoves ==
    ASSUME NodeSet, NEW t \in Tags, NEW n \in Effective, NEW b, NEW s \in Scope,
           NEW d \in AllDomains, NEW a
    PROVE  /\ d # DomainOf(s, n) => Holders(Retag(t, n, b), s, d, a) = Holders(t, s, d, a)
           /\ d = DomainOf(s, n) /\ a = b =>
                Holders(Retag(t, n, b), s, d, a) = Holders(t, s, d, a) \cup {n}
           /\ d = DomainOf(s, n) /\ a # b =>
                Holders(Retag(t, n, b), s, d, a) = Holders(t, s, d, a) \ {n}
  <1> DEFINE u == Retag(t, n, b)
  <1>1. n \in Node /\ t \in [Node -> Attr \cup {NoAttr}]
    BY DEF Effective, Tags
  <1>2. n \in Members(s, d) <=> d = DomainOf(s, n)
    BY <1>1, LocatedDomain
  <1>3. \A m \in Members(s, d) : m \in Node /\ (m # n => u[m] = t[m]) /\ (m = n => u[m] = b)
    BY <1>1 DEF Members, Effective, Retag
  <1> HIDE DEF u
  <1>4. d # DomainOf(s, n) => Holders(u, s, d, a) = Holders(t, s, d, a)
    BY <1>2, <1>3 DEF Holders
  <1>5. d = DomainOf(s, n) /\ a = b => Holders(u, s, d, a) = Holders(t, s, d, a) \cup {n}
    BY <1>2, <1>3 DEF Holders
  <1>6. d = DomainOf(s, n) /\ a # b => Holders(u, s, d, a) = Holders(t, s, d, a) \ {n}
    BY <1>2, <1>3 DEF Holders
  <1> QED
    BY <1>4, <1>5, <1>6 DEF u

LEMMA ReadableWhenEffective ==
    ASSUME NEW n \in Effective
    PROVE  can_read_from(storage[n])
  BY DEF Effective, can_read_from, empty

LEMMA JoinCounts ==
    ASSUME NodeSet, NEW t \in Tags, NEW n \in Effective, NEW b, t[n] # b, NEW s \in Scope,
           DomainOf(s, n) \in AllDomains
    PROVE  CountOf(Retag(t, n, b), s, DomainOf(s, n), b) =
             Increment(CountOf(t, s, DomainOf(s, n), b), storage[n])
  <1> DEFINE d == DomainOf(s, n)
             H == Holders(t, s, d, b)
             K == Holders(Retag(t, n, b), s, d, b)
  <1>1. K = H \cup {n}
    BY TagMoves
  <1>2. n \notin H
    BY DEF Holders
  <1>3. IsFiniteSet(H) /\ IsFiniteSet(Authoritative(H))
    BY HoldersInside
  <1>4. Cardinality(K) = Cardinality(H) + 1
    <2> HIDE DEF H, K
    <2> QED
      BY <1>1, <1>2, <1>3, FS_AddElement
  <1>5. Cardinality(Authoritative(K)) =
          IF is_authoritative(storage[n]) THEN Cardinality(Authoritative(H)) + 1
          ELSE Cardinality(Authoritative(H))
    <2> HIDE DEF H, K
    <2>1. CASE is_authoritative(storage[n])
      <3>1. Authoritative(K) = Authoritative(H) \cup {n} /\ n \notin Authoritative(H)
        BY <1>1, <1>2, <2>1 DEF Authoritative
      <3> QED
        BY <1>3, <2>1, <3>1, FS_AddElement
    <2>2. CASE ~is_authoritative(storage[n])
      <3>1. Authoritative(K) = Authoritative(H)
        BY <1>1, <2>2 DEF Authoritative
      <3> QED
        BY <2>2, <3>1
    <2> QED
      BY <2>1, <2>2
  <1> HIDE DEF H, K
  <1>6. /\ CountOf(Retag(t, n, b), s, d, b) =
             [readable |-> Cardinality(K), auth |-> Cardinality(Authoritative(K))]
        /\ CountOf(t, s, d, b) =
             [readable |-> Cardinality(H), auth |-> Cardinality(Authoritative(H))]
    BY DEF CountOf, H, K
  <1> HIDE DEF d
  <1>7. CountOf(Retag(t, n, b), s, d, b) = Increment(CountOf(t, s, d, b), storage[n])
    BY <1>4, <1>5, <1>6, ReadableWhenEffective DEF Increment
  <1> QED
    BY <1>7 DEF d

LEMMA LeaveCounts ==
    ASSUME NodeSet, NEW t \in Tags, NEW n \in Effective, NEW b, t[n] # b, NEW s \in Scope,
           DomainOf(s, n) \in AllDomains
    PROVE  CountOf(Retag(t, n, b), s, DomainOf(s, n), t[n]) =
             Decrement(CountOf(t, s, DomainOf(s, n), t[n]), storage[n])
  <1> DEFINE d == DomainOf(s, n)
             H == Holders(t, s, d, t[n])
             K == Holders(Retag(t, n, b), s, d, t[n])
  <1>0. n \in Members(s, d)
    BY LocatedDomain DEF Effective
  <1>1. K = H \ {n}
    BY TagMoves
  <1>2. n \in H
    BY <1>0 DEF Holders
  <1>3. IsFiniteSet(H) /\ IsFiniteSet(Authoritative(H))
    BY HoldersInside
  <1>4. Cardinality(K) = Cardinality(H) - 1
    <2> HIDE DEF H, K
    <2> QED
      BY <1>1, <1>2, <1>3, FS_RemoveElement
  <1>5. Cardinality(Authoritative(K)) =
          IF is_authoritative(storage[n]) THEN Cardinality(Authoritative(H)) - 1
          ELSE Cardinality(Authoritative(H))
    <2> HIDE DEF H, K
    <2>1. CASE is_authoritative(storage[n])
      <3>1. Authoritative(K) = Authoritative(H) \ {n} /\ n \in Authoritative(H)
        BY <1>1, <1>2, <2>1 DEF Authoritative
      <3> QED
        BY <1>3, <2>1, <3>1, FS_RemoveElement
    <2>2. CASE ~is_authoritative(storage[n])
      <3>1. Authoritative(K) = Authoritative(H)
        BY <1>1, <2>2 DEF Authoritative
      <3> QED
        BY <2>2, <3>1
    <2> QED
      BY <2>1, <2>2
  <1>6. Cardinality(H) # 0
    <2> HIDE DEF H, K
    <2> QED
      BY <1>2, <1>3, FS_EmptySet
  <1> HIDE DEF H, K
  <1>7. /\ CountOf(Retag(t, n, b), s, d, t[n]) =
             [readable |-> Cardinality(K), auth |-> Cardinality(Authoritative(K))]
        /\ CountOf(t, s, d, t[n]) =
             [readable |-> Cardinality(H), auth |-> Cardinality(Authoritative(H))]
    BY DEF CountOf, H, K
  <1> HIDE DEF d
  <1>8. CountOf(Retag(t, n, b), s, d, t[n]) = Decrement(CountOf(t, s, d, t[n]), storage[n])
    BY <1>4, <1>5, <1>6, <1>7, ReadableWhenEffective DEF Decrement
  <1> QED
    BY <1>8 DEF d

\* no other count moves
LEMMA OthersKeep ==
    ASSUME NodeSet, NEW t \in Tags, NEW n \in Effective, NEW b, NEW s \in Scope,
           NEW d \in AllDomains, NEW a, d # DomainOf(s, n) \/ (a # b /\ a # t[n])
    PROVE  /\ Holders(Retag(t, n, b), s, d, a) = Holders(t, s, d, a)
           /\ CountOf(Retag(t, n, b), s, d, a) = CountOf(t, s, d, a)
  <1>1. Holders(Retag(t, n, b), s, d, a) = Holders(t, s, d, a)
    <2>1. CASE d # DomainOf(s, n)
      BY <2>1, TagMoves
    <2>2. CASE d = DomainOf(s, n) /\ a # b /\ a # t[n]
      <3>1. n \notin Holders(t, s, d, a)
        BY <2>2 DEF Holders
      <3>2. Holders(Retag(t, n, b), s, d, a) = Holders(t, s, d, a) \ {n}
        BY <2>2, TagMoves
      <3> QED
        BY <3>1, <3>2
    <2> QED
      BY <2>1, <2>2
  <1> QED
    BY <1>1 DEF CountOf

-----------------------------------------------------------------------------
(* add_attr_internal and rm_attr_internal *)

\* a checker with the tags t and the counters and replication domains of the tags u
Books(t, u) == [attr |-> t, counters |-> Book(u).counters, fds |-> Book(u).fds]

LEMMA BookFields ==
    ASSUME NEW t
    PROVE  /\ Books(t, t) = Book(t)
           /\ Book(t).counters \in [Scope -> [AllDomains -> [Attr -> [readable : Nat, auth : Nat]]]]
           /\ Book(t).fds \in [Scope -> [Attr -> SUBSET AllDomains]]
           /\ \A s \in Scope : \A d \in AllDomains : \A a \in Attr :
                Book(t).counters[s][d][a] = CountOf(t, s, d, a)
           /\ \A s \in Scope : \A a \in Attr : Book(t).fds[s][a] = DomainsWith(t, s, a)
  <1>1. Books(t, t) = Book(t)
    BY DEF Books, Book
  <1>2. \A s, d, a : CountOf(t, s, d, a) \in [readable : Nat, auth : Nat]
    BY HoldersInside
  <1>3. \A s, a : DomainsWith(t, s, a) \subseteq AllDomains
    BY DEF DomainsWith
  <1>4. Book(t).counters =
          [s \in Scope |-> [d \in AllDomains |-> [a \in Attr |-> CountOf(t, s, d, a)]]]
    BY DEF Book
  <1>5. Book(t).fds = [s \in Scope |-> [a \in Attr |-> DomainsWith(t, s, a)]]
    BY DEF Book
  <1> QED
    BY <1>1, <1>2, <1>3, <1>4, <1>5

\* tables of counters and of domains that agree everywhere are the same
LEMMA SameTables ==
    ASSUME NEW V, NEW x \in [Scope -> [AllDomains -> [Attr -> V]]],
           NEW y \in [Scope -> [AllDomains -> [Attr -> V]]],
           \A s \in Scope : \A d \in AllDomains : \A a \in Attr : x[s][d][a] = y[s][d][a]
    PROVE  x = y
  <1>1. \A s \in Scope : \A d \in AllDomains : x[s][d] = y[s][d]
    OBVIOUS
  <1>2. \A s \in Scope : x[s] = y[s]
    BY <1>1
  <1> QED
    BY <1>2

LEMMA SameDomainSets ==
    ASSUME NEW V, NEW x \in [Scope -> [Attr -> V]], NEW y \in [Scope -> [Attr -> V]],
           \A s \in Scope : \A a \in Attr : x[s][a] = y[s][a]
    PROVE  x = y
  <1>1. \A s \in Scope : x[s] = y[s]
    OBVIOUS
  <1> QED
    BY <1>1

\* what add_attr_internal and rm_attr_internal write: the count c at the
\* domain of the node, and the domain sets with that domain in or out
PutCount(x, n, a, c) ==
    [s \in Scope |-> IF s \in Located(n) THEN [x[s] EXCEPT ![DomainOf(s, n)][a] = c[s]] ELSE x[s]]

\* the table y is x with the count c at the domains of node n
IsPut(y, x, n, a, c, V) ==
    /\ y \in [Scope -> [AllDomains -> [Attr -> V]]]
    /\ \A s \in Scope : \A d \in AllDomains : \A b \in Attr :
         y[s][d][b] = IF d = DomainOf(s, n) /\ b = a THEN c[s] ELSE x[s][d][b]

LEMMA PutCountIs ==
    ASSUME NodeSet, NEW V, NEW x \in [Scope -> [AllDomains -> [Attr -> V]]], NEW n \in Node,
           NEW a \in Attr, NEW c, \A s \in Located(n) : c[s] \in V
    PROVE  IsPut(PutCount(x, n, a, c), x, n, a, c, V)
  <1>1. ASSUME NEW s \in Scope
        PROVE  /\ PutCount(x, n, a, c)[s] \in [AllDomains -> [Attr -> V]]
               /\ \A d \in AllDomains : \A b \in Attr :
                    PutCount(x, n, a, c)[s][d][b] =
                      IF d = DomainOf(s, n) /\ b = a THEN c[s] ELSE x[s][d][b]
    <2>1. s \in Located(n) <=> DomainOf(s, n) \in AllDomains
      BY LocatedDomain
    <2>2. CASE s \in Located(n)
      <3>1. PutCount(x, n, a, c)[s] = [x[s] EXCEPT ![DomainOf(s, n)][a] = c[s]]
        BY <2>2 DEF PutCount
      <3>2. x[s] \in [AllDomains -> [Attr -> V]] /\ c[s] \in V /\ DomainOf(s, n) \in AllDomains
        BY <2>1, <2>2
      <3> QED
        BY <3>1, <3>2
    <2>3. CASE s \notin Located(n)
      <3>1. PutCount(x, n, a, c)[s] = x[s]
        BY <2>3 DEF PutCount
      <3>2. \A d \in AllDomains : d # DomainOf(s, n)
        BY <2>1, <2>3
      <3> QED
        BY <3>1, <3>2
    <2> QED
      BY <2>2, <2>3
  <1>2. DOMAIN PutCount(x, n, a, c) = Scope /\ PutCount(x, n, a, c) = [s \in Scope |-> PutCount(x, n, a, c)[s]]
    BY DEF PutCount
  <1> QED
    BY <1>1, <1>2 DEF IsPut

LEMMA AddIs ==
    ASSUME NEW t, NEW x, NEW z, NEW n, NEW a, NEW c,
           c = [s \in Scope |-> Increment(x[s][DomainOf(s, n)][a], storage[n])],
           NEW R, R = AddAttrInternal([attr |-> t, counters |-> x, fds |-> z], n, a)
    PROVE  /\ R = [attr |-> t, counters |-> PutCount(x, n, a, c), fds |-> R.fds]
           /\ R.fds = [s \in Scope |-> IF s \in Located(n) /\ c[s].readable = 1
                        THEN [z[s] EXCEPT ![a] = z[s][a] \cup {DomainOf(s, n)}] ELSE z[s]]
  <1>1. R.attr = t
    BY DEF AddAttrInternal
  <1>2. R.counters = [s \in Scope |-> IF s \in Located(n)
           THEN [x[s] EXCEPT ![DomainOf(s, n)][a] =
                   Increment(x[s][DomainOf(s, n)][a], storage[n])]
           ELSE x[s]]
    BY DEF AddAttrInternal
  <1>3. R.fds = [s \in Scope |->
           IF s \in Located(n) /\ Increment(x[s][DomainOf(s, n)][a], storage[n]).readable = 1
           THEN [z[s] EXCEPT ![a] = z[s][a] \cup {DomainOf(s, n)}] ELSE z[s]]
    BY DEF AddAttrInternal
  <1>4. R = [attr |-> R.attr, counters |-> R.counters, fds |-> R.fds]
    BY DEF AddAttrInternal
  <1>5. \A s \in Scope : c[s] = Increment(x[s][DomainOf(s, n)][a], storage[n])
    OBVIOUS
  <1>6. R.counters = PutCount(x, n, a, c)
    BY <1>2, <1>5 DEF PutCount
  <1>7. R.fds = [s \in Scope |-> IF s \in Located(n) /\ c[s].readable = 1
                   THEN [z[s] EXCEPT ![a] = z[s][a] \cup {DomainOf(s, n)}] ELSE z[s]]
    BY <1>3, <1>5
  <1> QED
    BY <1>1, <1>4, <1>6, <1>7

LEMMA RmIs ==
    ASSUME NEW t, NEW x, NEW z, NEW n, NEW a, NEW c,
           c = [s \in Scope |-> Decrement(x[s][DomainOf(s, n)][a], storage[n])],
           NEW R, R = RmAttrInternal([attr |-> t, counters |-> x, fds |-> z], n, a)
    PROVE  /\ R = [attr |-> t, counters |-> PutCount(x, n, a, c), fds |-> R.fds]
           /\ R.fds = [s \in Scope |-> IF s \in Located(n) /\ c[s].readable = 0
                        THEN [z[s] EXCEPT ![a] = z[s][a] \ {DomainOf(s, n)}] ELSE z[s]]
  <1>1. R.attr = t
    BY DEF RmAttrInternal
  <1>2. R.counters = [s \in Scope |-> IF s \in Located(n)
           THEN [x[s] EXCEPT ![DomainOf(s, n)][a] =
                   Decrement(x[s][DomainOf(s, n)][a], storage[n])]
           ELSE x[s]]
    BY DEF RmAttrInternal
  <1>3. R.fds = [s \in Scope |->
           IF s \in Located(n) /\ Decrement(x[s][DomainOf(s, n)][a], storage[n]).readable = 0
           THEN [z[s] EXCEPT ![a] = z[s][a] \ {DomainOf(s, n)}] ELSE z[s]]
    BY DEF RmAttrInternal
  <1>4. R = [attr |-> R.attr, counters |-> R.counters, fds |-> R.fds]
    BY DEF RmAttrInternal
  <1>5. \A s \in Scope : c[s] = Decrement(x[s][DomainOf(s, n)][a], storage[n])
    OBVIOUS
  <1>6. R.counters = PutCount(x, n, a, c)
    BY <1>2, <1>5 DEF PutCount
  <1>7. R.fds = [s \in Scope |-> IF s \in Located(n) /\ c[s].readable = 0
                   THEN [z[s] EXCEPT ![a] = z[s][a] \ {DomainOf(s, n)}] ELSE z[s]]
    BY <1>3, <1>5
  <1> QED
    BY <1>1, <1>4, <1>6, <1>7

\* the replication domains, when node n gets the tag b
LEMMA DomainsMove ==
    ASSUME NodeSet, NEW t \in Tags, NEW n \in Effective, NEW b, t[n] # b, NEW s \in Scope, NEW a,
           NEW D, D = DomainOf(s, n)
    PROVE  LET u == Retag(t, n, b)
           IN  /\ s \notin Located(n) \/ (a # b /\ a # t[n]) =>
                    DomainsWith(u, s, a) = DomainsWith(t, s, a)
               /\ s \in Located(n) /\ a = b =>
                    /\ DomainsWith(u, s, a) = DomainsWith(t, s, a) \cup {D}
                    /\ D \in DomainsWith(t, s, a) \/ CountOf(u, s, D, a).readable = 1
               /\ s \in Located(n) /\ a = t[n] =>
                    /\ CountOf(u, s, D, a).readable = 0 =>
                         DomainsWith(u, s, a) = DomainsWith(t, s, a) \ {D}
                    /\ CountOf(u, s, D, a).readable # 0 =>
                         DomainsWith(u, s, a) = DomainsWith(t, s, a)
  <1> DEFINE u == Retag(t, n, b)
  <1>1. n \in Node
    BY DEF Effective
  <1>2. /\ s \in Located(n) <=> D \in AllDomains
        /\ D \in AllDomains => n \in Members(s, D)
    BY <1>1, LocatedDomain
  <1>3. \A d \in AllDomains :
          d # D \/ (a # b /\ a # t[n]) => Holders(u, s, d, a) = Holders(t, s, d, a)
    BY OthersKeep
  <1>4. D \in AllDomains /\ a = b => Holders(u, s, D, a) = Holders(t, s, D, a) \cup {n}
    BY TagMoves
  <1>5. D \in AllDomains /\ a = t[n] => n \in Holders(t, s, D, a)
    BY <1>2 DEF Holders
  <1>6. /\ IsFiniteSet(Holders(u, s, D, a)) /\ IsFiniteSet(Holders(t, s, D, a))
        /\ CountOf(u, s, D, a).readable = Cardinality(Holders(u, s, D, a))
    BY HoldersInside DEF CountOf
  <1>7. CountOf(u, s, D, a).readable = 0 <=> Holders(u, s, D, a) = {}
    BY <1>6, FS_EmptySet
  <1>8. s \notin Located(n) \/ (a # b /\ a # t[n]) => DomainsWith(u, s, a) = DomainsWith(t, s, a)
    BY <1>2, <1>3 DEF DomainsWith
  <1>9. ASSUME s \in Located(n), a = b
        PROVE  /\ DomainsWith(u, s, a) = DomainsWith(t, s, a) \cup {D}
               /\ D \in DomainsWith(t, s, a) \/ CountOf(u, s, D, a).readable = 1
    <2>1. DomainsWith(u, s, a) = DomainsWith(t, s, a) \cup {D}
      BY <1>2, <1>3, <1>4, <1>9 DEF DomainsWith
    <2>2. ASSUME Holders(t, s, D, a) = {} PROVE CountOf(u, s, D, a).readable = 1
      <3>1. Holders(u, s, D, a) = {n}
        BY <1>2, <1>4, <1>9, <2>2
      <3> QED
        BY <1>6, <3>1, FS_Singleton
    <2> QED
      BY <1>2, <1>9, <2>1, <2>2 DEF DomainsWith
  <1>10. ASSUME s \in Located(n), a = t[n], CountOf(u, s, D, a).readable = 0
         PROVE  DomainsWith(u, s, a) = DomainsWith(t, s, a) \ {D}
    BY <1>2, <1>3, <1>7, <1>10 DEF DomainsWith
  <1>11. ASSUME s \in Located(n), a = t[n], CountOf(u, s, D, a).readable # 0
         PROVE  DomainsWith(u, s, a) = DomainsWith(t, s, a)
    BY <1>2, <1>3, <1>5, <1>7, <1>11 DEF DomainsWith
  <1> HIDE DEF u
  <1> QED
    BY <1>8, <1>9, <1>10, <1>11 DEF u

LEMMA AddBook ==
    ASSUME NodeSet, NEW v, NEW t \in Tags, NEW n \in Effective, NEW a \in Attr, t[n] = NoAttr
    PROVE  AddAttrInternal(Books(v, t), n, a) = Books(v, Retag(t, n, a))
  <1> DEFINE u == Retag(t, n, a)
             x == Book(t).counters
             z == Book(t).fds
             c == [s \in Scope |-> Increment(x[s][DomainOf(s, n)][a], storage[n])]
             R == AddAttrInternal(Books(v, t), n, a)
             C == [readable : Nat, auth : Nat]
  <1>0. n \in Node /\ NoAttr \notin Attr /\ t[n] # a
    BY CheckerAssumption DEF Effective
  <1>1. Books(v, t) = [attr |-> v, counters |-> x, fds |-> z]
    BY DEF Books
  <1>2. /\ R = [attr |-> v, counters |-> PutCount(x, n, a, c), fds |-> R.fds]
        /\ R.fds = [s \in Scope |-> IF s \in Located(n) /\ c[s].readable = 1
                     THEN [z[s] EXCEPT ![a] = z[s][a] \cup {DomainOf(s, n)}] ELSE z[s]]
    <2> HIDE DEF x, z
    <2>1. R = AddAttrInternal([attr |-> v, counters |-> x, fds |-> z], n, a)
      BY <1>1
    <2> HIDE DEF R, c
    <2>2. c = [s \in Scope |-> Increment(x[s][DomainOf(s, n)][a], storage[n])]
      BY DEF c
    <2> QED
      BY <2>1, <2>2, AddIs
  <1> HIDE DEF R
  <1>3. ASSUME NEW s \in Located(n)
        PROVE  /\ s \in Scope /\ DomainOf(s, n) \in AllDomains
               /\ c[s] = CountOf(u, s, DomainOf(s, n), a) /\ c[s] \in C
    <2>1. s \in Scope
      BY DEF Located
    <2>2. DomainOf(s, n) \in AllDomains
      BY <1>0, <2>1, LocatedDomain
    <2>3. x[s][DomainOf(s, n)][a] = CountOf(t, s, DomainOf(s, n), a)
      BY <2>1, <2>2, BookFields
    <2>4. c[s] = Increment(CountOf(t, s, DomainOf(s, n), a), storage[n])
      BY <2>1, <2>3
    <2>5. c[s] = CountOf(u, s, DomainOf(s, n), a)
      BY <1>0, <2>1, <2>2, <2>4, JoinCounts
    <2> QED
      BY <2>1, <2>2, <2>5, HoldersInside
  <1> HIDE DEF c
  <1>4. PutCount(x, n, a, c) = Book(u).counters
    <2>1. /\ x \in [Scope -> [AllDomains -> [Attr -> C]]]
          /\ Book(u).counters \in [Scope -> [AllDomains -> [Attr -> C]]]
      BY BookFields
    <2>2. ASSUME NEW s \in Scope, NEW d \in AllDomains, NEW b \in Attr
          PROVE  Book(u).counters[s][d][b] =
                   IF d = DomainOf(s, n) /\ b = a THEN c[s] ELSE x[s][d][b]
      <3>1. Book(u).counters[s][d][b] = CountOf(u, s, d, b) /\ x[s][d][b] = CountOf(t, s, d, b)
        BY BookFields
      <3>2. CASE d = DomainOf(s, n) /\ b = a
        <4>1. s \in Located(n)
          BY <1>0, <3>2, LocatedDomain
        <4> QED
          BY <1>3, <3>1, <3>2, <4>1
      <3>3. CASE d # DomainOf(s, n) \/ b # a
        <4>1. d # DomainOf(s, n) \/ (b # a /\ b # t[n])
          BY <1>0, <3>3
        <4>2. CountOf(u, s, d, b) = CountOf(t, s, d, b)
          BY <4>1, OthersKeep
        <4> QED
          BY <3>1, <3>3, <4>2
      <3> QED
        BY <3>2, <3>3
    <2> HIDE DEF x, u, C
    <2>3. /\ PutCount(x, n, a, c) \in [Scope -> [AllDomains -> [Attr -> C]]]
          /\ \A s \in Scope : \A d \in AllDomains : \A b \in Attr :
                PutCount(x, n, a, c)[s][d][b] =
                  IF d = DomainOf(s, n) /\ b = a THEN c[s] ELSE x[s][d][b]
      <3>1. \A s \in Located(n) : c[s] \in C
        BY <1>3
      <3>2. n \in Node /\ x \in [Scope -> [AllDomains -> [Attr -> C]]]
        BY <1>0, <2>1
      <3>3. IsPut(PutCount(x, n, a, c), x, n, a, c, C)
        BY <3>1, <3>2, PutCountIs
      <3> QED
        BY <3>3 DEF IsPut
    <2>4. \A s \in Scope : \A d \in AllDomains : \A b \in Attr :
            PutCount(x, n, a, c)[s][d][b] = Book(u).counters[s][d][b]
      BY <2>2, <2>3
    <2> QED
      BY <2>1, <2>3, <2>4, SameTables
  <1>5. R.fds = Book(u).fds
    <2>1. z \in [Scope -> [Attr -> SUBSET AllDomains]] /\ Book(u).fds \in [Scope -> [Attr -> SUBSET AllDomains]]
      BY BookFields
    <2>2. ASSUME NEW s \in Scope PROVE R.fds[s] = Book(u).fds[s]
      <3>1. \A b \in Attr : z[s][b] = DomainsWith(t, s, b) /\ Book(u).fds[s][b] = DomainsWith(u, s, b)
        BY BookFields
      <3>2. \A b \in Attr : b # a => Book(u).fds[s][b] = z[s][b]
        <4> SUFFICES ASSUME NEW b \in Attr, b # a PROVE DomainsWith(u, s, b) = DomainsWith(t, s, b)
          BY <3>1
        <4>1. b # t[n]
          BY <1>0
        <4> QED
          BY <1>0, <4>1, DomainsMove
      <3>3. CASE s \in Located(n)
        <4>1. /\ DomainsWith(u, s, a) = DomainsWith(t, s, a) \cup {DomainOf(s, n)}
              /\ DomainOf(s, n) \in DomainsWith(t, s, a) \/ CountOf(u, s, DomainOf(s, n), a).readable = 1
          BY <1>0, <3>3, DomainsMove
        <4>2. c[s].readable = CountOf(u, s, DomainOf(s, n), a).readable
          BY <1>3, <3>3
        <4> HIDE DEF z, u
        <4>3. CASE c[s].readable = 1
          <5>1. R.fds[s] = [z[s] EXCEPT ![a] = z[s][a] \cup {DomainOf(s, n)}]
            BY <1>2, <3>3, <4>3
          <5>2. z[s] \in [Attr -> SUBSET AllDomains] /\ Book(u).fds[s] \in [Attr -> SUBSET AllDomains]
            BY <2>1
          <5>3. Book(u).fds[s][a] = z[s][a] \cup {DomainOf(s, n)}
            BY <3>1, <4>1
          <5>4. \A b \in Attr : R.fds[s][b] = Book(u).fds[s][b]
            BY <3>2, <5>1, <5>2, <5>3
          <5>5. R.fds[s] = [b \in Attr |-> R.fds[s][b]]
            BY <5>1, <5>2
          <5> QED
            BY <5>2, <5>4, <5>5
        <4>4. CASE c[s].readable # 1
          <5>1. R.fds[s] = z[s]
            BY <1>2, <4>4
          <5>2. DomainsWith(u, s, a) = DomainsWith(t, s, a)
            BY <4>1, <4>2, <4>4
          <5> QED
            BY <2>1, <3>1, <3>2, <5>1, <5>2
        <4> QED
          BY <4>3, <4>4
      <3>4. CASE s \notin Located(n)
        <4>1. DomainsWith(u, s, a) = DomainsWith(t, s, a)
          BY <1>0, <3>4, DomainsMove
        <4> HIDE DEF z, u
        <4>2. R.fds[s] = z[s]
          BY <1>2, <3>4
        <4> QED
          BY <2>1, <3>1, <3>2, <4>1, <4>2
      <3> QED
        BY <3>3, <3>4
    <2> HIDE DEF z, u
    <2>3. DOMAIN R.fds = Scope /\ R.fds = [s \in Scope |-> R.fds[s]]
      BY <1>2
    <2> QED
      BY <2>1, <2>2, <2>3
  <1> QED
    BY <1>2, <1>4, <1>5 DEF Books, R

LEMMA RmBook ==
    ASSUME NodeSet, NEW v, NEW t \in Tags, NEW n \in Effective, NEW a \in Attr, t[n] = a
    PROVE  RmAttrInternal(Books(v, t), n, a) = Books(v, Retag(t, n, NoAttr))
  <1> DEFINE u == Retag(t, n, NoAttr)
             x == Book(t).counters
             z == Book(t).fds
             c == [s \in Scope |-> Decrement(x[s][DomainOf(s, n)][a], storage[n])]
             R == RmAttrInternal(Books(v, t), n, a)
             C == [readable : Nat, auth : Nat]
  <1>0. n \in Node /\ NoAttr \notin Attr /\ t[n] # NoAttr
    BY CheckerAssumption DEF Effective
  <1>1. Books(v, t) = [attr |-> v, counters |-> x, fds |-> z]
    BY DEF Books
  <1>2. /\ R = [attr |-> v, counters |-> PutCount(x, n, a, c), fds |-> R.fds]
        /\ R.fds = [s \in Scope |-> IF s \in Located(n) /\ c[s].readable = 0
                     THEN [z[s] EXCEPT ![a] = z[s][a] \ {DomainOf(s, n)}] ELSE z[s]]
    <2> HIDE DEF x, z
    <2>1. R = RmAttrInternal([attr |-> v, counters |-> x, fds |-> z], n, a)
      BY <1>1
    <2> HIDE DEF R, c
    <2>2. c = [s \in Scope |-> Decrement(x[s][DomainOf(s, n)][a], storage[n])]
      BY DEF c
    <2> QED
      BY <2>1, <2>2, RmIs
  <1> HIDE DEF R
  <1>3. ASSUME NEW s \in Located(n)
        PROVE  /\ s \in Scope /\ DomainOf(s, n) \in AllDomains
               /\ c[s] = CountOf(u, s, DomainOf(s, n), a) /\ c[s] \in C
    <2>1. s \in Scope
      BY DEF Located
    <2>2. DomainOf(s, n) \in AllDomains
      BY <1>0, <2>1, LocatedDomain
    <2>3. x[s][DomainOf(s, n)][a] = CountOf(t, s, DomainOf(s, n), a)
      BY <2>1, <2>2, BookFields
    <2>4. c[s] = Decrement(CountOf(t, s, DomainOf(s, n), a), storage[n])
      BY <2>1, <2>3
    <2>5. c[s] = CountOf(u, s, DomainOf(s, n), a)
      BY <1>0, <2>1, <2>2, <2>4, LeaveCounts
    <2> QED
      BY <2>1, <2>2, <2>5, HoldersInside
  <1> HIDE DEF c
  <1>4. PutCount(x, n, a, c) = Book(u).counters
    <2>1. /\ x \in [Scope -> [AllDomains -> [Attr -> C]]]
          /\ Book(u).counters \in [Scope -> [AllDomains -> [Attr -> C]]]
      BY BookFields
    <2>2. ASSUME NEW s \in Scope, NEW d \in AllDomains, NEW b \in Attr
          PROVE  Book(u).counters[s][d][b] =
                   IF d = DomainOf(s, n) /\ b = a THEN c[s] ELSE x[s][d][b]
      <3>1. Book(u).counters[s][d][b] = CountOf(u, s, d, b) /\ x[s][d][b] = CountOf(t, s, d, b)
        BY BookFields
      <3>2. CASE d = DomainOf(s, n) /\ b = a
        <4>1. s \in Located(n)
          BY <1>0, <3>2, LocatedDomain
        <4> QED
          BY <1>3, <3>1, <3>2, <4>1
      <3>3. CASE d # DomainOf(s, n) \/ b # a
        <4>1. d # DomainOf(s, n) \/ (b # NoAttr /\ b # t[n])
          BY <1>0, <3>3
        <4>2. CountOf(u, s, d, b) = CountOf(t, s, d, b)
          BY <4>1, OthersKeep
        <4> QED
          BY <3>1, <3>3, <4>2
      <3> QED
        BY <3>2, <3>3
    <2> HIDE DEF x, u, C
    <2>3. /\ PutCount(x, n, a, c) \in [Scope -> [AllDomains -> [Attr -> C]]]
          /\ \A s \in Scope : \A d \in AllDomains : \A b \in Attr :
                PutCount(x, n, a, c)[s][d][b] =
                  IF d = DomainOf(s, n) /\ b = a THEN c[s] ELSE x[s][d][b]
      <3>1. \A s \in Located(n) : c[s] \in C
        BY <1>3
      <3>2. n \in Node /\ x \in [Scope -> [AllDomains -> [Attr -> C]]]
        BY <1>0, <2>1
      <3>3. IsPut(PutCount(x, n, a, c), x, n, a, c, C)
        BY <3>1, <3>2, PutCountIs
      <3> QED
        BY <3>3 DEF IsPut
    <2>4. \A s \in Scope : \A d \in AllDomains : \A b \in Attr :
            PutCount(x, n, a, c)[s][d][b] = Book(u).counters[s][d][b]
      BY <2>2, <2>3
    <2> QED
      BY <2>1, <2>3, <2>4, SameTables
  <1>5. R.fds = Book(u).fds
    <2>1. z \in [Scope -> [Attr -> SUBSET AllDomains]] /\ Book(u).fds \in [Scope -> [Attr -> SUBSET AllDomains]]
      BY BookFields
    <2>2. ASSUME NEW s \in Scope PROVE R.fds[s] = Book(u).fds[s]
      <3>1. \A b \in Attr : z[s][b] = DomainsWith(t, s, b) /\ Book(u).fds[s][b] = DomainsWith(u, s, b)
        BY BookFields
      <3>2. \A b \in Attr : b # a => Book(u).fds[s][b] = z[s][b]
        <4> SUFFICES ASSUME NEW b \in Attr, b # a PROVE DomainsWith(u, s, b) = DomainsWith(t, s, b)
          BY <3>1
        <4>1. b # t[n] /\ b # NoAttr
          BY <1>0
        <4> QED
          BY <1>0, <4>1, DomainsMove
      <3>3. CASE s \in Located(n)
        <4>1. /\ CountOf(u, s, DomainOf(s, n), a).readable = 0 =>
                   DomainsWith(u, s, a) = DomainsWith(t, s, a) \ {DomainOf(s, n)}
              /\ CountOf(u, s, DomainOf(s, n), a).readable # 0 =>
                   DomainsWith(u, s, a) = DomainsWith(t, s, a)
          <5>1. PICK D : D = DomainOf(s, n)
            OBVIOUS
          <5>2. t[n] # NoAttr /\ s \in Located(n) /\ a = t[n]
            BY <1>0, <3>3
          <5>3. CountOf(u, s, D, a).readable = 0 =>
                   DomainsWith(u, s, a) = DomainsWith(t, s, a) \ {D}
            BY <5>1, <5>2, DomainsMove
          <5>4. CountOf(u, s, D, a).readable # 0 =>
                   DomainsWith(u, s, a) = DomainsWith(t, s, a)
            BY <5>1, <5>2, DomainsMove
          <5> QED
            BY <5>1, <5>3, <5>4
        <4>2. c[s].readable = CountOf(u, s, DomainOf(s, n), a).readable
          BY <1>3, <3>3
        <4> HIDE DEF z, u
        <4>3. CASE c[s].readable = 0
          <5>1. R.fds[s] = [z[s] EXCEPT ![a] = z[s][a] \ {DomainOf(s, n)}]
            BY <1>2, <3>3, <4>3
          <5>2. z[s] \in [Attr -> SUBSET AllDomains] /\ Book(u).fds[s] \in [Attr -> SUBSET AllDomains]
            BY <2>1
          <5>3. Book(u).fds[s][a] = z[s][a] \ {DomainOf(s, n)}
            BY <3>1, <4>1, <4>2, <4>3
          <5>4. \A b \in Attr : R.fds[s][b] = Book(u).fds[s][b]
            BY <3>2, <5>1, <5>2, <5>3
          <5>5. R.fds[s] = [b \in Attr |-> R.fds[s][b]]
            BY <5>1, <5>2
          <5> QED
            BY <5>2, <5>4, <5>5
        <4>4. CASE c[s].readable # 0
          <5>1. R.fds[s] = z[s]
            BY <1>2, <4>4
          <5>2. DomainsWith(u, s, a) = DomainsWith(t, s, a)
            BY <4>1, <4>2, <4>4
          <5> QED
            BY <2>1, <3>1, <3>2, <5>1, <5>2
        <4> QED
          BY <4>3, <4>4
      <3>4. CASE s \notin Located(n)
        <4>1. DomainsWith(u, s, a) = DomainsWith(t, s, a)
          BY <1>0, <3>4, DomainsMove
        <4> HIDE DEF z, u
        <4>2. R.fds[s] = z[s]
          BY <1>2, <3>4
        <4> QED
          BY <2>1, <3>1, <3>2, <4>1, <4>2
      <3> QED
        BY <3>3, <3>4
    <2> HIDE DEF z, u
    <2>3. DOMAIN R.fds = Scope /\ R.fds = [s \in Scope |-> R.fds[s]]
      BY <1>2
    <2> QED
      BY <2>1, <2>2, <2>3
  <1> QED
    BY <1>2, <1>4, <1>5 DEF Books, R

-----------------------------------------------------------------------------
(* set_attribute *)

LEMMA BookSet ==
    ASSUME NodeSet, NEW t \in Tags, NEW n \in Effective, NEW a \in Attr
    PROVE  SetAttr(Book(t), n, a) = Book(Retag(t, n, a)) /\ Retag(t, n, a) \in Tags
  <1> DEFINE u == Retag(t, n, a)
             tagged == [Book(t) EXCEPT !.attr[n] = a]
  <1>0. n \in Node /\ t \in [Node -> Attr \cup {NoAttr}] /\ ~empty(storage[n])
    BY DEF Effective, Tags
  <1>1. \A b \in Attr \cup {NoAttr} : Retag(t, n, b) \in Tags
    BY DEF Effective, Tags, Retag
  <1>2. tagged = Books(u, t) /\ Book(t).attr = t
    <2>1. Book(t) = [attr |-> t, counters |-> Book(t).counters, fds |-> Book(t).fds]
      BY DEF Book
    <2>2. ASSUME NEW x, NEW z, Book(t) = [attr |-> t, counters |-> x, fds |-> z]
          PROVE  tagged = [attr |-> u, counters |-> x, fds |-> z]
      BY <2>2 DEF Retag
    <2> HIDE DEF tagged, u
    <2> QED
      BY <2>1, <2>2 DEF Books
  <1>3. SetAttr(Book(t), n, a) =
          IF t[n] = a THEN Book(t)
          ELSE AddAttrInternal(IF t[n] = NoAttr THEN tagged ELSE RmAttrInternal(tagged, n, t[n]), n, a)
    BY <1>0, <1>2 DEF SetAttr
  <1> HIDE DEF tagged
  <1>4. CASE t[n] = a
    <2>1. u = t
      BY <1>0, <1>4 DEF Retag
    <2> QED
      BY <1>1, <1>3, <1>4, <2>1
  <1>5. CASE t[n] # a /\ t[n] = NoAttr
    <2>1. SetAttr(Book(t), n, a) = AddAttrInternal(Books(u, t), n, a)
      BY <1>2, <1>3, <1>5
    <2>2. AddAttrInternal(Books(u, t), n, a) = Books(u, u)
      BY <1>5, AddBook
    <2> QED
      BY <1>1, <2>1, <2>2, BookFields
  <1>6. CASE t[n] # a /\ t[n] # NoAttr
    <2> DEFINE w == Retag(t, n, NoAttr)
    <2>1. SetAttr(Book(t), n, a) = AddAttrInternal(RmAttrInternal(Books(u, t), n, t[n]), n, a)
      BY <1>2, <1>3, <1>6
    <2>2. t[n] \in Attr
      BY <1>0, <1>6
    <2>3. RmAttrInternal(Books(u, t), n, t[n]) = Books(u, w)
      BY <2>2, RmBook
    <2>4. w \in Tags /\ w[n] = NoAttr /\ Retag(w, n, a) = u
      <3>1. w \in Tags
        BY <1>1
      <3> QED
        BY <1>0, <3>1 DEF Retag
    <2>5. AddAttrInternal(Books(u, w), n, a) = Books(u, Retag(w, n, a))
      <3> HIDE DEF w, u
      <3> QED
        BY <2>4, AddBook
    <2> QED
      BY <1>1, <2>1, <2>3, <2>4, <2>5, BookFields
  <1> QED
    BY <1>4, <1>5, <1>6

-----------------------------------------------------------------------------
(* fill_with, and sums over attribute values: both fold over a finite set  *)

LEMMA LeastNat ==
    ASSUME NEW S, S \subseteq Nat, S # {}
    PROVE  \E x \in S : \A y \in S : x <= y
  <1> DEFINE R == OpToRel(<, Nat)
  <1>1. IsWellFoundedOn(R, Nat)
    BY NatLessThanWellFounded
  <1>2. \A a, b \in Nat : a < b => <<a, b>> \in R
    BY DEF OpToRel
  <1> HIDE DEF R
  <1>3. PICK x \in S : \A y \in S : <<y, x>> \notin R
    BY <1>1, WFMin
  <1>4. \A y \in S : ~(y < x)
    BY <1>2, <1>3
  <1> QED
    BY <1>4

\* the element with which a fold over s begins
First(s) == CHOOSE x \in s : TRUE

LEMMA FoldInduction ==
    ASSUME NEW S, IsFiniteSet(S), NEW B, {} \in B,
           \A s \in SUBSET S : s # {} /\ s \ {First(s)} \in B => s \in B
    PROVE  \A s \in SUBSET S : s \in B
  <1> DEFINE Sizes == {Cardinality(s) : s \in {r \in SUBSET S : r \notin B}}
  <1> SUFFICES ASSUME NEW r \in SUBSET S, r \notin B PROVE FALSE
    OBVIOUS
  <1>1. \A s \in SUBSET S : IsFiniteSet(s) /\ Cardinality(s) \in Nat
    BY FS_Subset, FS_CardinalityType
  <1>2. Sizes \subseteq Nat /\ Sizes # {}
    BY <1>1
  <1>3. PICK k \in Sizes : \A l \in Sizes : k <= l
    <2> HIDE DEF Sizes
    <2> QED
      BY <1>2, LeastNat
  <1>4. PICK s \in SUBSET S : s \notin B /\ k = Cardinality(s)
    OBVIOUS
  <1>5. s # {} /\ First(s) \in s
    <2>1. s # {}
      BY <1>4
    <2> QED
      BY <2>1 DEF First
  <1>6. Cardinality(s \ {First(s)}) = Cardinality(s) - 1
    BY <1>1, <1>5, FS_RemoveElement
  <1>7. s \ {First(s)} \in SUBSET S
    OBVIOUS
  <1>8. s \ {First(s)} \notin B
    BY <1>4, <1>5
  <1>9. Cardinality(s \ {First(s)}) \in Sizes
    BY <1>7, <1>8
  <1>10. Cardinality(s) \in Nat
    BY <1>1
  <1>11. k <= Cardinality(s \ {First(s)})
    BY <1>3, <1>9
  <1> HIDE DEF Sizes
  <1> QED
    BY <1>4, <1>6, <1>10, <1>11

\* the tags t after every node of N got the tag a
Filled(t, N, a) == [n \in Node |-> IF n \in N THEN a ELSE t[n]]

LEMMA FilledIs ==
    ASSUME NodeSet, NEW t \in Tags, NEW a \in Attr
    PROVE  /\ Filled(t, {}, a) = t
           /\ \A N \in SUBSET Effective : Filled(t, N, a) \in Tags
           /\ \A N \in SUBSET Effective : N # {} =>
                Book(Filled(t, N, a)) = SetAttr(Book(Filled(t, N \ {First(N)}, a)), First(N), a)
  <1>1. t \in [Node -> Attr \cup {NoAttr}]
    BY DEF Tags
  <1>2. Filled(t, {}, a) = t
    BY <1>1 DEF Filled
  <1>3. ASSUME NEW N \in SUBSET Effective PROVE Filled(t, N, a) \in Tags
    BY <1>1 DEF Filled, Tags, Effective
  <1>4. ASSUME NEW N \in SUBSET Effective, N # {}
        PROVE  Book(Filled(t, N, a)) = SetAttr(Book(Filled(t, N \ {First(N)}, a)), First(N), a)
    <2>1. First(N) \in N
      BY <1>4 DEF First
    <2>2. PICK n \in Effective : n = First(N)
      BY <2>1
    <2>3. PICK w \in Tags : w = Filled(t, N \ {n}, a)
      <3>1. N \ {n} \in SUBSET Effective
        OBVIOUS
      <3> QED
        BY <1>3, <3>1
    <2>4. Retag(w, n, a) = Filled(t, N, a)
      BY <1>1, <2>1, <2>2, <2>3 DEF Retag, Filled, Effective
    <2>5. SetAttr(Book(w), n, a) = Book(Retag(w, n, a))
      BY BookSet
    <2> QED
      BY <2>2, <2>3, <2>4, <2>5
  <1> QED
    BY <1>2, <1>3, <1>4

LEMMA FillBook ==
    ASSUME BookInv, NEW a \in Attr, fill_with(a)
    PROVE  checker' = Book(Filled(checker.attr, Effective, a))
  <1> DEFINE t == checker.attr
             Run(g) == g = [s \in SUBSET Effective |->
                              IF s = {} THEN checker ELSE SetAttr(g[s \ {First(s)}], First(s), a)]
             f == CHOOSE g : Run(g)
             w == [s \in SUBSET Effective |-> Book(Filled(t, s, a))]
  <1>1. checker' = f[Effective]
    BY DEF fill_with, FoldSet, MapThenFoldSet, First
  <1>2. NodeSet /\ t \in Tags /\ checker = Book(t)
    BY DEF BookInv
  <1>3. Run(w)
    <2>1. \A s \in SUBSET Effective : s # {} => s \ {First(s)} \in SUBSET Effective
      OBVIOUS
    <2>2. ASSUME NEW s \in SUBSET Effective
          PROVE  w[s] = IF s = {} THEN checker ELSE SetAttr(w[s \ {First(s)}], First(s), a)
      <3>1. CASE s = {}
        BY <1>2, <3>1, FilledIs
      <3>2. CASE s # {}
        <4>1. w[s] = Book(Filled(t, s, a)) /\ w[s \ {First(s)}] = Book(Filled(t, s \ {First(s)}, a))
          BY <2>1, <3>2
        <4>2. Book(Filled(t, s, a)) = SetAttr(Book(Filled(t, s \ {First(s)}, a)), First(s), a)
          BY <1>2, <3>2, FilledIs
        <4> QED
          BY <3>2, <4>1, <4>2
      <3> QED
        BY <3>1, <3>2
    <2> QED
      BY <2>2
  <1>4. Run(f)
    <2> HIDE DEF Run, w
    <2> QED
      BY <1>3
  <1> HIDE DEF f
  <1>5. \A s \in SUBSET Effective : f[s] = Book(Filled(t, s, a))
    <2> DEFINE B == {s \in SUBSET Effective : f[s] = Book(Filled(t, s, a))}
    <2>1. {} \in B
      BY <1>2, <1>4, FilledIs
    <2>2. ASSUME NEW s \in SUBSET Effective, s # {}, s \ {First(s)} \in B PROVE s \in B
      <3>1. f[s] = SetAttr(f[s \ {First(s)}], First(s), a)
        BY <1>4, <2>2
      <3>2. f[s \ {First(s)}] = Book(Filled(t, s \ {First(s)}, a))
        BY <2>2
      <3>3. Book(Filled(t, s, a)) = SetAttr(Book(Filled(t, s \ {First(s)}, a)), First(s), a)
        BY <1>2, <2>2, FilledIs
      <3> QED
        BY <3>1, <3>2, <3>3
    <2>3. IsFiniteSet(Effective)
      BY NodesAreFinite
    <2> HIDE DEF B
    <2>4. \A s \in SUBSET Effective : s \in B
      BY <2>1, <2>2, <2>3, FoldInduction
    <2> QED
      BY <2>4 DEF B
  <1> QED
    BY <1>1, <1>5

-----------------------------------------------------------------------------
(* The invariant *)

LEMMA BookInvInit == Init => BookInv
  <1> SUFFICES ASSUME Init PROVE BookInv
    OBVIOUS
  <1> DEFINE t == [n \in Node |-> NoAttr]
  <1>1. NodeSet
    BY DEF Init, NodeSet
  <1>2. t \in Tags
    BY DEF Tags
  <1>3. \A s, d : \A a \in Attr : Holders(t, s, d, a) = {}
    <2> SUFFICES ASSUME NEW s, NEW d, NEW a \in Attr PROVE Holders(t, s, d, a) = {}
      OBVIOUS
    <2>1. \A n \in Members(s, d) : t[n] # a
      BY CheckerAssumption DEF Members, Effective
    <2> HIDE DEF t
    <2> QED
      BY <2>1 DEF Holders
  <1> HIDE DEF t
  <1>4. \A s, d : \A a \in Attr : CountOf(t, s, d, a) = NoCount
    <2> SUFFICES ASSUME NEW s, NEW d, NEW a \in Attr PROVE CountOf(t, s, d, a) = NoCount
      OBVIOUS
    <2>1. Holders(t, s, d, a) = {} /\ Authoritative({}) = {}
      BY <1>3 DEF Authoritative
    <2> QED
      BY <2>1, FS_EmptySet DEF CountOf, NoCount
  <1>5. \A s : \A a \in Attr : DomainsWith(t, s, a) = {}
    BY <1>3 DEF DomainsWith
  <1>6. Book(t).counters = [s \in Scope |-> [d \in AllDomains |-> [a \in Attr |-> NoCount]]]
    BY <1>4 DEF Book
  <1>7. Book(t).fds = [s \in Scope |-> [a \in Attr |-> {}]]
    BY <1>5 DEF Book
  <1>8. Book(t) = [attr |-> t, counters |-> Book(t).counters, fds |-> Book(t).fds]
    BY DEF Book
  <1>9. checker = Book(t)
    BY <1>6, <1>7, <1>8 DEF Init, t
  <1>10. checker.attr = t
    BY <1>8, <1>9
  <1> QED
    BY <1>1, <1>2, <1>9, <1>10 DEF BookInv

\* every operation leaves the books of some tags
LEMMA StepBooks ==
    ASSUME BookInv, Next
    PROVE  UNCHANGED <<storage, location>> /\ \E u \in Tags : checker' = Book(u)
  <1> DEFINE t == checker.attr
  <1>1. NodeSet /\ t \in Tags /\ checker = Book(t)
    BY DEF BookInv
  <1>2. ASSUME NEW n \in Node, NEW a \in Attr PROVE \E u \in Tags : SetAttr(checker, n, a) = Book(u)
    <2>1. CASE n \in Effective
      BY <1>1, <2>1, BookSet
    <2>2. CASE n \notin Effective
      <3>1. SetAttr(checker, n, a) = checker
        BY <2>2 DEF SetAttr, Effective
      <3> QED
        BY <1>1, <3>1
    <2> QED
      BY <2>1, <2>2
  <1>3. ASSUME NEW n \in Node, NEW a \in Attr PROVE Merged(t[n], a) \in Attr
    BY <1>1 DEF Merged, Tags
  <1>4. ASSUME NEW n \in Node, NEW a \in Attr, set_attribute(n, a) \/ merge_attribute(n, a)
        PROVE  UNCHANGED <<storage, location>> /\ \E u \in Tags : checker' = Book(u)
    <2>1. CASE set_attribute(n, a)
      BY <1>2, <2>1 DEF set_attribute
    <2>2. CASE merge_attribute(n, a)
      BY <1>2, <1>3, <2>2 DEF merge_attribute
    <2> QED
      BY <1>4, <2>1, <2>2
  <1>5. ASSUME NEW a \in Attr, fill_with(a)
        PROVE  UNCHANGED <<storage, location>> /\ \E u \in Tags : checker' = Book(u)
    <2>1. checker' = Book(Filled(t, Effective, a))
      BY <1>5, FillBook
    <2>2. Filled(t, Effective, a) \in Tags
      BY <1>1, FilledIs
    <2> QED
      BY <1>5, <2>1, <2>2 DEF fill_with
  <1> QED
    BY <1>4, <1>5 DEF Next

\* the books depend on the node set and the tags only
LEMMA BooksKept ==
    ASSUME UNCHANGED <<storage, location>>, NEW u
    PROVE  /\ NodeSet => NodeSet'
           /\ u \in Tags => (u \in Tags)'
           /\ (Book(u) = Book(u)')
  <1>1. Effective' = Effective
    BY DEF Effective
  <1>2. \A s, d : Members(s, d)' = Members(s, d)
    BY <1>1 DEF Members, DomainOf
  <1>3. NodeSet => NodeSet'
    BY DEF NodeSet
  <1>4. u \in Tags => (u \in Tags)'
    BY <1>1 DEF Tags
  <1>5. \A s, d, a : Holders(u, s, d, a)' = Holders(u, s, d, a)
    BY <1>2 DEF Holders
  <1>6. \A s, d, a : CountOf(u, s, d, a)' = CountOf(u, s, d, a)
    BY <1>5 DEF CountOf, Authoritative
  <1>7. \A s, a : DomainsWith(u, s, a)' = DomainsWith(u, s, a)
    BY <1>5 DEF DomainsWith, AllDomains
  <1>8. Book(u)' = Book(u)
    BY <1>6, <1>7 DEF Book, AllDomains
  <1> QED
    BY <1>3, <1>4, <1>8

LEMMA BookInvNext == BookInv /\ [Next]_vars => BookInv'
  <1> SUFFICES ASSUME BookInv, [Next]_vars PROVE BookInv'
    OBVIOUS
  <1>1. UNCHANGED <<storage, location>> /\ \E u \in Tags : checker' = Book(u)
    <2>1. CASE Next
      BY <2>1, StepBooks
    <2>2. CASE UNCHANGED vars
      BY <2>2 DEF vars, BookInv
    <2> QED
      BY <2>1, <2>2
  <1>2. PICK u \in Tags : checker' = Book(u)
    BY <1>1
  <1>3. NodeSet' /\ (u \in Tags)' /\ Book(u) = Book(u)'
    BY <1>1, <1>2, BooksKept DEF BookInv
  <1>4. checker'.attr = u
    BY <1>2 DEF Book
  <1> QED
    BY <1>2, <1>3, <1>4 DEF BookInv

(* The checker keeps exact books: after any sequence of calls, its counters *)
(* and its replication domains are those of the current tags, for every     *)
(* node set.  (NodeSetChecker::set_attribute, merge_attribute, fill_with.)  *)
THEOREM BooksAlwaysExact == Spec => []BookInv
  BY BookInvInit, BookInvNext, PTL DEF Spec

(* The checker's state keeps its shape; in particular no count ever goes    *)
(* below zero.  (Count::decrement.)                                         *)
THEOREM CheckerTypeCorrect == Spec => []TypeOK
  <1>1. BookInv => TypeOK
    <2> SUFFICES ASSUME BookInv PROVE TypeOK
      OBVIOUS
    <2> DEFINE t == checker.attr
    <2>1. NodeSet /\ t \in Tags /\ checker = Book(t)
      BY DEF BookInv
    <2>2. /\ checker.counters \in [Scope -> [AllDomains -> [Attr -> [readable : Nat, auth : Nat]]]]
          /\ checker.fds \in [Scope -> [Attr -> SUBSET AllDomains]]
      BY <2>1, BookFields
    <2>3. checker.attr \in [Node -> Attr \cup {NoAttr}]
      BY <2>1 DEF Tags
    <2> QED
      BY <2>1, <2>2, <2>3 DEF TypeOK, NodeSet
  <1> QED
    BY <1>1, BooksAlwaysExact, PTL

-----------------------------------------------------------------------------
(* check_write_quorum *)

LEMMA DomainsOfMatching ==
    ASSUME BookInv, NEW s \in Scope, NEW P \in SUBSET Attr
    PROVE  UNION {checker.fds[s][a] : a \in P} =
             {d \in FailureDomains(s) : Members(s, d) \cap Tagged(P) # {}}
  <1> DEFINE t == checker.attr
  <1>1. checker = Book(t)
    BY DEF BookInv
  <1>2. \A a \in P : checker.fds[s][a] = DomainsWith(t, s, a)
    BY <1>1, BookFields
  <1>3. \A d : d \in UNION {checker.fds[s][a] : a \in P} <=> \E a \in P : d \in DomainsWith(t, s, a)
    BY <1>2
  <1>4. \A d \in AllDomains : Members(s, d) \cap Tagged(P) # {} <=>
                                \E a \in P : Holders(t, s, d, a) # {}
    <2> SUFFICES ASSUME NEW d \in AllDomains
                 PROVE  Members(s, d) \cap Tagged(P) # {} <=>
                          \E a \in P : Holders(t, s, d, a) # {}
      OBVIOUS
    <2>1. \A n \in Members(s, d) : n \in Tagged(P) <=> t[n] \in P
      BY DEF Tagged, Members
    <2>2. \A a, n : n \in Holders(t, s, d, a) <=> n \in Members(s, d) /\ t[n] = a
      BY DEF Holders
    <2> QED
      BY <2>1, <2>2
  <1>5. \A d : d \in FailureDomains(s) /\ Members(s, d) \cap Tagged(P) # {} <=>
                 d \in AllDomains /\ Members(s, d) \cap Tagged(P) # {}
    BY DEF FailureDomains
  <1>6. \A d : (\E a \in P : d \in DomainsWith(t, s, a)) <=>
                 d \in AllDomains /\ \E a \in P : Holders(t, s, d, a) # {}
    BY DEF DomainsWith
  <1> QED
    BY <1>3, <1>4, <1>5, <1>6

(* For every node set and every placement of it: what check_write_quorum    *)
(* answers from its replication domains is whether the matching nodes form  *)
(* a write quorum.  (NodeSetChecker::check_write_quorum.)                   *)
THEOREM WriteQuorumAlwaysExact == Spec => []WriteQuorumAnswer
  <1>1. BookInv => WriteQuorumAnswer
    BY DomainsOfMatching DEF WriteQuorumAnswer, CheckWriteQuorum, WriteQuorumAtScope, WriteQuorum
  <1> QED
    BY <1>1, BooksAlwaysExact, PTL

-----------------------------------------------------------------------------
(* check_fmajority: the sums over the matching attribute values *)

Matching(t, N, P) == {n \in N : t[n] \in P}

LEMMA MatchingSplits ==
    ASSUME NEW t, NEW N, IsFiniteSet(N), NEW P, NEW x \in P
    PROVE  /\ Cardinality(Matching(t, N, P)) =
                Cardinality({n \in N : t[n] = x}) + Cardinality(Matching(t, N, P \ {x}))
           /\ Cardinality(Matching(t, N, P)) \in Nat
           /\ Cardinality(Matching(t, N, P \ {x})) \in Nat
  <1> DEFINE X == {n \in N : t[n] = x}
             Y == Matching(t, N, P \ {x})
  <1>1. Matching(t, N, P) = X \cup Y /\ X \cap Y = {}
    BY DEF Matching
  <1>2. X \in SUBSET N /\ Y \in SUBSET N /\ Matching(t, N, P) \in SUBSET N
    BY DEF Matching
  <1> HIDE DEF X, Y
  <1>3. IsFiniteSet(X) /\ IsFiniteSet(Y) /\ IsFiniteSet(Matching(t, N, P))
    BY <1>2, FS_Subset
  <1>4. Cardinality(X \cup Y) = Cardinality(X) + Cardinality(Y) - Cardinality(X \cap Y)
    BY <1>3, FS_Union
  <1>5. /\ Cardinality(X) \in Nat /\ Cardinality(Y) \in Nat
        /\ Cardinality(Matching(t, N, P)) \in Nat /\ Cardinality(X \cap Y) = 0
    BY <1>1, <1>3, FS_CardinalityType, FS_EmptySet
  <1>6. Cardinality(Matching(t, N, P)) = Cardinality(X) + Cardinality(Y)
    BY <1>1, <1>4, <1>5
  <1> QED
    BY <1>5, <1>6 DEF X, Y

\* a function with the equation of a sum over P
LEMMA SumIsUnique ==
    ASSUME NEW t, NEW N, IsFiniteSet(N), NEW P, IsFiniteSet(P), NEW f,
           f[{}] = 0,
           \A s \in SUBSET P : s # {} =>
             f[s] = Cardinality({n \in N : t[n] = First(s)}) + f[s \ {First(s)}]
    PROVE  f[P] = Cardinality(Matching(t, N, P))
  <1> DEFINE B == {s \in SUBSET P : f[s] = Cardinality(Matching(t, N, s))}
  <1>1. {} \in B
    <2>1. Matching(t, N, {}) = {}
      BY DEF Matching
    <2> QED
      BY <2>1, FS_EmptySet
  <1>2. ASSUME NEW s \in SUBSET P, s # {}, s \ {First(s)} \in B PROVE s \in B
    <2>1. First(s) \in s
      BY <1>2 DEF First
    <2>2. Cardinality(Matching(t, N, s)) =
            Cardinality({n \in N : t[n] = First(s)}) + Cardinality(Matching(t, N, s \ {First(s)}))
      BY <2>1, MatchingSplits
    <2> QED
      BY <1>2, <2>2
  <1> HIDE DEF B
  <1>3. P \in B
    BY <1>1, <1>2, FoldInduction
  <1> QED
    BY <1>3 DEF B

\* such a function exists
LEMMA SumExists ==
    ASSUME NEW t, NEW N, IsFiniteSet(N), NEW P, NEW w,
           w = [s \in SUBSET P |-> Cardinality(Matching(t, N, s))]
    PROVE  w[{}] = 0 /\ \A s \in SUBSET P : s # {} =>
             w[s] = Cardinality({n \in N : t[n] = First(s)}) + w[s \ {First(s)}]
  <1>1. w[{}] = 0
    <2>1. Matching(t, N, {}) = {}
      BY DEF Matching
    <2>2. w[{}] = Cardinality(Matching(t, N, {}))
      OBVIOUS
    <2> QED
      BY <2>1, <2>2, FS_EmptySet
  <1>2. ASSUME NEW s \in SUBSET P, s # {}
        PROVE  w[s] = Cardinality({n \in N : t[n] = First(s)}) + w[s \ {First(s)}]
    <2>1. First(s) \in s
      BY <1>2 DEF First
    <2>2. Cardinality(Matching(t, N, s)) =
            Cardinality({n \in N : t[n] = First(s)}) + Cardinality(Matching(t, N, s \ {First(s)}))
      BY <2>1, MatchingSplits
    <2>3. s \ {First(s)} \in SUBSET P
      OBVIOUS
    <2> QED
      BY <2>2, <2>3
  <1> QED
    BY <1>1, <1>2

LEMMA NumAuthIs ==
    ASSUME BookInv, NEW s \in Scope, NEW d \in AllDomains, NEW P \in SUBSET Attr
    PROVE  NumAuth(s, d, P) = Cardinality(Matching(checker.attr, Authoritative(Members(s, d)), P))
  <1> DEFINE t == checker.attr
             N == Authoritative(Members(s, d))
             Run(g) == g = [r \in SUBSET P |-> IF r = {} THEN 0
                              ELSE (checker.counters[s][d][First(r)].auth) + g[r \ {First(r)}]]
             f == CHOOSE g : Run(g)
             w == [r \in SUBSET P |-> Cardinality(Matching(t, N, r))]
  <1>1. NumAuth(s, d, P) = f[P]
    BY DEF NumAuth, MapThenSumSet, MapThenFoldSet, First
  <1>2. IsFiniteSet(N) /\ IsFiniteSet(P)
    <2>1. N \subseteq Effective
      BY NodesAreFinite DEF Authoritative
    <2>2. IsFiniteSet(Attr)
      BY CheckerAssumption
    <2> HIDE DEF N
    <2> QED
      BY <2>1, <2>2, NodesAreFinite, FS_Subset
  <1>3. \A a \in P : checker.counters[s][d][a].auth = Cardinality({n \in N : t[n] = a})
    <2> SUFFICES ASSUME NEW a \in P
                 PROVE  checker.counters[s][d][a].auth = Cardinality({n \in N : t[n] = a})
      OBVIOUS
    <2>1. checker.counters[s][d][a] = CountOf(t, s, d, a)
      BY BookFields DEF BookInv
    <2>2. Authoritative(Holders(t, s, d, a)) = {n \in N : t[n] = a}
      BY DEF Authoritative, Holders
    <2> QED
      BY <2>1, <2>2 DEF CountOf
  <1> HIDE DEF N, t
  <1>4. \A r \in SUBSET P : r # {} => First(r) \in P
    BY DEF First
  <1>5. Run(w)
    <2>1. w[{}] = 0 /\ \A r \in SUBSET P : r # {} =>
            w[r] = Cardinality({n \in N : t[n] = First(r)}) + w[r \ {First(r)}]
      <3>1. w = [r \in SUBSET P |-> Cardinality(Matching(t, N, r))]
        OBVIOUS
      <3> HIDE DEF w
      <3> QED
        BY <1>2, <3>1, SumExists
    <2>2. DOMAIN w = SUBSET P /\ w = [r \in SUBSET P |-> w[r]]
      OBVIOUS
    <2> HIDE DEF w
    <2>3. \A r \in SUBSET P : w[r] = IF r = {} THEN 0
                   ELSE (checker.counters[s][d][First(r)].auth) + w[r \ {First(r)}]
      BY <1>3, <1>4, <2>1
    <2> QED
      BY <2>2, <2>3
  <1>6. Run(f)
    <2> HIDE DEF Run, w
    <2> QED
      BY <1>5
  <1> HIDE DEF f
  <1>7. f[{}] = 0
    BY <1>6
  <1>8. \A r \in SUBSET P : r # {} =>
          f[r] = Cardinality({n \in N : t[n] = First(r)}) + f[r \ {First(r)}]
    <2>1. \A r \in SUBSET P : r # {} => f[r] = (checker.counters[s][d][First(r)].auth) + f[r \ {First(r)}]
      BY <1>6
    <2> HIDE DEF Run
    <2> QED
      BY <1>3, <1>4, <2>1
  <1> HIDE DEF Run
  <1>9. f[P] = Cardinality(Matching(t, N, P))
    BY <1>2, <1>7, <1>8, SumIsUnique
  <1> QED
    BY <1>1, <1>9 DEF N, t

LEMMA NumNonAuthIs ==
    ASSUME BookInv, NEW s \in Scope, NEW d \in AllDomains, NEW P \in SUBSET Attr
    PROVE  NumNonAuth(s, d, P) = Cardinality(Matching(checker.attr, Members(s, d) \ Authoritative(Members(s, d)), P))
  <1> DEFINE t == checker.attr
             N == Members(s, d) \ Authoritative(Members(s, d))
             Run(g) == g = [r \in SUBSET P |-> IF r = {} THEN 0
                              ELSE (checker.counters[s][d][First(r)].readable - checker.counters[s][d][First(r)].auth) + g[r \ {First(r)}]]
             f == CHOOSE g : Run(g)
             w == [r \in SUBSET P |-> Cardinality(Matching(t, N, r))]
  <1>1. NumNonAuth(s, d, P) = f[P]
    BY DEF NumNonAuth, MapThenSumSet, MapThenFoldSet, First
  <1>2. IsFiniteSet(N) /\ IsFiniteSet(P)
    <2>1. N \subseteq Effective
      BY NodesAreFinite DEF Authoritative
    <2>2. IsFiniteSet(Attr)
      BY CheckerAssumption
    <2> HIDE DEF N
    <2> QED
      BY <2>1, <2>2, NodesAreFinite, FS_Subset
  <1>3. \A a \in P : checker.counters[s][d][a].readable - checker.counters[s][d][a].auth = Cardinality({n \in N : t[n] = a})
    <2> SUFFICES ASSUME NEW a \in P
                 PROVE  checker.counters[s][d][a].readable - checker.counters[s][d][a].auth
                          = Cardinality({n \in N : t[n] = a})
      OBVIOUS
    <2> DEFINE H == Holders(t, s, d, a)
    <2>1. checker.counters[s][d][a] = CountOf(t, s, d, a)
      BY BookFields DEF BookInv
    <2>2. H \ Authoritative(H) = {n \in N : t[n] = a} /\ H \cap Authoritative(H) = Authoritative(H)
      BY DEF Authoritative, Holders
    <2>3. CountOf(t, s, d, a) = [readable |-> Cardinality(H), auth |-> Cardinality(Authoritative(H))]
      BY DEF CountOf
    <2>4. IsFiniteSet(H)
      BY HoldersInside
    <2> HIDE DEF H
    <2>5. Cardinality(H \ Authoritative(H)) = Cardinality(H) - Cardinality(H \cap Authoritative(H))
      BY <2>4, FS_Difference
    <2> QED
      BY <2>1, <2>2, <2>3, <2>5
  <1> HIDE DEF N, t
  <1>4. \A r \in SUBSET P : r # {} => First(r) \in P
    BY DEF First
  <1>5. Run(w)
    <2>1. w[{}] = 0 /\ \A r \in SUBSET P : r # {} =>
            w[r] = Cardinality({n \in N : t[n] = First(r)}) + w[r \ {First(r)}]
      <3>1. w = [r \in SUBSET P |-> Cardinality(Matching(t, N, r))]
        OBVIOUS
      <3> HIDE DEF w
      <3> QED
        BY <1>2, <3>1, SumExists
    <2>2. DOMAIN w = SUBSET P /\ w = [r \in SUBSET P |-> w[r]]
      OBVIOUS
    <2> HIDE DEF w
    <2>3. \A r \in SUBSET P : w[r] = IF r = {} THEN 0
                   ELSE (checker.counters[s][d][First(r)].readable - checker.counters[s][d][First(r)].auth) + w[r \ {First(r)}]
      BY <1>3, <1>4, <2>1
    <2> QED
      BY <2>2, <2>3
  <1>6. Run(f)
    <2> HIDE DEF Run, w
    <2> QED
      BY <1>5
  <1> HIDE DEF f
  <1>7. f[{}] = 0
    BY <1>6
  <1>8. \A r \in SUBSET P : r # {} =>
          f[r] = Cardinality({n \in N : t[n] = First(r)}) + f[r \ {First(r)}]
    <2>1. \A r \in SUBSET P : r # {} => f[r] = (checker.counters[s][d][First(r)].readable - checker.counters[s][d][First(r)].auth) + f[r \ {First(r)}]
      BY <1>6
    <2> HIDE DEF Run
    <2> QED
      BY <1>3, <1>4, <2>1
  <1> HIDE DEF Run
  <1>9. f[P] = Cardinality(Matching(t, N, P))
    BY <1>2, <1>7, <1>8, SumIsUnique
  <1> QED
    BY <1>1, <1>9 DEF N, t

-----------------------------------------------------------------------------
(* check_fmajority: the domains that count *)

\* all nodes of the domain match
FullDomains(s, P) == {d \in FailureDomains(s) : Members(s, d) \subseteq Tagged(P)}

LEMMA DomainsAreFinite ==
    ASSUME NEW s \in Scope, NEW P
    PROVE  /\ IsFiniteSet(FailureDomains(s)) /\ Cardinality(FailureDomains(s)) \in Nat
           /\ \A D \in SUBSET FailureDomains(s) :
                /\ IsFiniteSet(D) /\ Cardinality(D) \in Nat
                /\ Cardinality(D) <= Cardinality(FailureDomains(s))
           /\ FullDomains(s, P) \in SUBSET FailureDomains(s)
           /\ AuthDomains(s, P) \in SUBSET FailureDomains(s)
           /\ NonAuthDomains(s, P) \in SUBSET FailureDomains(s)
           /\ ReplicationFactor[s] \in Nat \ {0}
  <1>1. FailureDomains(s) \in SUBSET AllDomains
    BY DEF FailureDomains
  <1>2. IsFiniteSet(FailureDomains(s))
    BY <1>1, NodesAreFinite, FS_Subset
  <1>3. \A D \in SUBSET FailureDomains(s) :
           IsFiniteSet(D) /\ Cardinality(D) <= Cardinality(FailureDomains(s))
    BY <1>2, FS_Subset
  <1>4. \A D \in SUBSET FailureDomains(s) : Cardinality(D) \in Nat
    BY <1>3, FS_CardinalityType
  <1>5. /\ FullDomains(s, P) \in SUBSET FailureDomains(s)
        /\ AuthDomains(s, P) \in SUBSET FailureDomains(s)
        /\ NonAuthDomains(s, P) \in SUBSET FailureDomains(s)
    BY DEF FullDomains, AuthDomains, NonAuthDomains
  <1>6. ReplicationFactor[s] \in Nat \ {0}
    BY CheckerAssumption
  <1> QED
    BY <1>2, <1>3, <1>4, <1>5, <1>6

\* as many matching nodes as the domain has: all of them match
LEMMA AllMatch ==
    ASSUME BookInv, NEW s \in Scope, NEW d, NEW P, NEW N \in SUBSET Members(s, d),
           Cardinality(Matching(checker.attr, N, P)) >= Cardinality(Members(s, d))
    PROVE  Members(s, d) \subseteq Tagged(P)
  <1> DEFINE X == Matching(checker.attr, N, P)
  <1>1. X \in SUBSET Members(s, d) /\ X \subseteq Effective
    BY NodesAreFinite DEF Matching
  <1>2. IsFiniteSet(Members(s, d))
    BY NodesAreFinite
  <1>3. X \subseteq Tagged(P)
    BY <1>1 DEF Matching, Tagged
  <1> HIDE DEF X
  <1>4. /\ IsFiniteSet(X) /\ Cardinality(X) <= Cardinality(Members(s, d))
        /\ Cardinality(Members(s, d)) = Cardinality(X) => Members(s, d) = X
    BY <1>1, <1>2, FS_Subset
  <1>5. Cardinality(X) \in Nat /\ Cardinality(Members(s, d)) \in Nat
    BY <1>2, <1>4, FS_CardinalityType
  <1>6. Cardinality(X) >= Cardinality(Members(s, d))
    BY DEF X
  <1>7. Members(s, d) = X
    BY <1>4, <1>5, <1>6
  <1> QED
    BY <1>3, <1>7

LEMMA CountedAreFull ==
    ASSUME BookInv, NEW s \in Scope, NEW P \in SUBSET Attr
    PROVE  Cardinality(AuthDomains(s, P)) + Cardinality(NonAuthDomains(s, P))
             <= Cardinality(FullDomains(s, P))
  <1> DEFINE A == AuthDomains(s, P)
             B == NonAuthDomains(s, P)
             F == FullDomains(s, P)
  <1>0. FailureDomains(s) \subseteq AllDomains
    BY DEF FailureDomains
  <1>1. A \subseteq F
    <2> SUFFICES ASSUME NEW d \in A PROVE d \in F
      OBVIOUS
    <2>1. d \in FailureDomains(s) /\ NumAuth(s, d, P) >= Cardinality(Members(s, d))
      BY DEF AuthDomains
    <2>2. NumAuth(s, d, P) = Cardinality(Matching(checker.attr, Authoritative(Members(s, d)), P))
      BY <1>0, <2>1, NumAuthIs
    <2>3. Authoritative(Members(s, d)) \in SUBSET Members(s, d)
      BY DEF Authoritative
    <2>4. Members(s, d) \subseteq Tagged(P)
      BY <2>1, <2>2, <2>3, AllMatch
    <2> QED
      BY <2>1, <2>4 DEF FullDomains
  <1>2. B \subseteq F
    <2> SUFFICES ASSUME NEW d \in B PROVE d \in F
      OBVIOUS
    <2>1. d \in FailureDomains(s) /\ NumNonAuth(s, d, P) >= Cardinality(Members(s, d))
      BY DEF NonAuthDomains
    <2>2. NumNonAuth(s, d, P) =
            Cardinality(Matching(checker.attr, Members(s, d) \ Authoritative(Members(s, d)), P))
      BY <1>0, <2>1, NumNonAuthIs
    <2>3. Members(s, d) \ Authoritative(Members(s, d)) \in SUBSET Members(s, d)
      OBVIOUS
    <2>4. Members(s, d) \subseteq Tagged(P)
      BY <2>1, <2>2, <2>3, AllMatch
    <2> QED
      BY <2>1, <2>4 DEF FullDomains
  <1>3. A \cap B = {}
    BY DEF NonAuthDomains
  <1>4. /\ IsFiniteSet(A) /\ IsFiniteSet(B) /\ IsFiniteSet(F)
        /\ Cardinality(A) \in Nat /\ Cardinality(B) \in Nat /\ Cardinality(F) \in Nat
    BY DomainsAreFinite
  <1> HIDE DEF A, B, F
  <1>5. Cardinality(A \cup B) = Cardinality(A) + Cardinality(B) - Cardinality(A \cap B)
    BY <1>4, FS_Union
  <1>6. Cardinality(A \cap B) = 0
    BY <1>3, FS_EmptySet
  <1>7. Cardinality(A \cup B) <= Cardinality(F)
    <2>1. A \cup B \in SUBSET F
      BY <1>1, <1>2
    <2> QED
      BY <1>4, <2>1, FS_Subset
  <1>8. Cardinality(A) + Cardinality(B) <= Cardinality(F)
    BY <1>4, <1>5, <1>6, <1>7
  <1> QED
    BY <1>8 DEF A, B, F

\* enough full domains meet every write quorum
LEMMA FullDomainsMeet ==
    ASSUME NEW s \in Scope, NEW P, Cardinality(FullDomains(s, P)) >= FMajorityNeeded(s),
           NEW Q \in SUBSET Effective, WriteQuorum(Q)
    PROVE  Q \cap Tagged(P) # {}
  <1> DEFINE D == FailureDomains(s)
             F == FullDomains(s, P)
             E == {d \in D : Members(s, d) \cap Q # {}}
             R == ReplicationFactor[s]
  <1>1. Cardinality(E) >= R
    BY DEF WriteQuorum
  <1>2. E \in SUBSET D
    OBVIOUS
  <1>3. /\ IsFiniteSet(D) /\ F \in SUBSET D /\ R \in Nat /\ Cardinality(D) \in Nat
        /\ Cardinality(E) <= Cardinality(D) /\ Cardinality(E) \in Nat /\ Cardinality(F) \in Nat
    <2> HIDE DEF E
    <2> QED
      BY <1>2, DomainsAreFinite
  <1>4. Cardinality(F) >= IF Cardinality(D) >= R THEN Cardinality(D) - R + 1 ELSE 1
    BY DEF FMajorityNeeded
  <1>5. \A d \in F : Members(s, d) \subseteq Tagged(P)
    BY DEF FullDomains
  <1> HIDE DEF D, F, R
  <1>6. Cardinality(E) + Cardinality(F) > Cardinality(D)
    <2> HIDE DEF E
    <2> QED
      BY <1>1, <1>3, <1>4
  <1>7. E \cap F # {}
    <2> HIDE DEF E
    <2> QED
      BY <1>2, <1>3, <1>6, FS_MajoritiesIntersect
  <1>8. PICK d \in F : Members(s, d) \cap Q # {}
    BY <1>7
  <1> QED
    BY <1>5, <1>8

(* For every node set, placement and replication property: when             *)
(* check_fmajority passes, the matching nodes share a node with every write *)
(* quorum.  This is what ReplicatedLoglet assumes of its two families of    *)
(* quorums (QuorumAssumption), and with it every seal, find-tail and repair.*)
(* (NodeSetChecker::check_fmajority.)                                       *)
THEOREM FMajorityAlwaysIntersects == Spec => []FMajorityIntersects
  <1>1. BookInv => FMajorityIntersects
    <2> SUFFICES ASSUME BookInv, NEW P \in SUBSET Attr, passed(CheckFMajority(P)),
                        NEW Q \in SUBSET Effective, WriteQuorum(Q)
                 PROVE  Q \cap Tagged(P) # {}
      BY DEF FMajorityIntersects
    <2>1. PICK s \in Scope : Cardinality(AuthDomains(s, P)) + Cardinality(NonAuthDomains(s, P))
                               >= FMajorityNeeded(s)
      BY DEF CheckFMajority, passed
    <2>2. FMajorityNeeded(s) \in Nat
      BY DomainsAreFinite DEF FMajorityNeeded
    <2>3. /\ Cardinality(AuthDomains(s, P)) \in Nat /\ Cardinality(NonAuthDomains(s, P)) \in Nat
          /\ Cardinality(FullDomains(s, P)) \in Nat
      BY DomainsAreFinite
    <2>4. Cardinality(FullDomains(s, P)) >= FMajorityNeeded(s)
      BY <2>1, <2>2, <2>3, CountedAreFull
    <2> QED
      BY <2>4, FullDomainsMeet
  <1> QED
    BY <1>1, BooksAlwaysExact, PTL

-----------------------------------------------------------------------------
(* check_fmajority: availability *)

\* if no node lost data, the full domains are the authoritative ones
LEMMA FullAreCounted ==
    ASSUME BookInv, NEW s \in Scope, NEW P \in SUBSET Attr,
           \A n \in Effective : is_authoritative(storage[n])
    PROVE  AuthDomains(s, P) = FullDomains(s, P) /\ NonAuthDomains(s, P) = {}
  <1>1. ASSUME NEW d \in FailureDomains(s)
        PROVE  /\ NumNonAuth(s, d, P) = 0
               /\ Members(s, d) \subseteq Tagged(P) =>
                    /\ NumAuth(s, d, P) = Cardinality(Members(s, d))
                    /\ NumAuth(s, d, P) > 0
               /\ NumAuth(s, d, P) >= Cardinality(Members(s, d)) => Members(s, d) \subseteq Tagged(P)
    <2>1. d \in AllDomains /\ Members(s, d) # {} /\ Members(s, d) \subseteq Effective
      BY NodesAreFinite DEF FailureDomains
    <2>2. Authoritative(Members(s, d)) = Members(s, d)
      BY <2>1 DEF Authoritative
    <2>3. NumNonAuth(s, d, P) = 0
      <3>1. Matching(checker.attr, Members(s, d) \ Authoritative(Members(s, d)), P) = {}
        BY <2>2 DEF Matching
      <3> QED
        BY <2>1, <3>1, NumNonAuthIs, FS_EmptySet
    <2>4. NumAuth(s, d, P) = Cardinality(Matching(checker.attr, Members(s, d), P))
      BY <2>1, <2>2, NumAuthIs
    <2>5. ASSUME Members(s, d) \subseteq Tagged(P)
          PROVE  NumAuth(s, d, P) = Cardinality(Members(s, d)) /\ NumAuth(s, d, P) > 0
      <3>1. Matching(checker.attr, Members(s, d), P) = Members(s, d)
        BY <2>5 DEF Matching, Tagged
      <3>2. Cardinality(Members(s, d)) \in Nat /\ Cardinality(Members(s, d)) # 0
        BY <2>1, NodesAreFinite, FS_EmptySet
      <3> QED
        BY <2>4, <3>1, <3>2
    <2>6. ASSUME NumAuth(s, d, P) >= Cardinality(Members(s, d))
          PROVE  Members(s, d) \subseteq Tagged(P)
      <3>1. Members(s, d) \in SUBSET Members(s, d)
        OBVIOUS
      <3> QED
        BY <2>4, <2>6, <3>1, AllMatch
    <2> QED
      BY <2>3, <2>5, <2>6
  <1>2. NonAuthDomains(s, P) = {}
    BY <1>1 DEF NonAuthDomains
  <1>3. ASSUME NEW d \in FailureDomains(s)
        PROVE  d \in AuthDomains(s, P) <=> d \in FullDomains(s, P)
    <2>1. CASE Members(s, d) \subseteq Tagged(P)
      <3>1. NumAuth(s, d, P) = Cardinality(Members(s, d)) /\ NumAuth(s, d, P) > 0
        BY <1>1, <2>1
      <3>2. Cardinality(Members(s, d)) \in Nat
        BY NodesAreFinite
      <3>3. NumAuth(s, d, P) >= Cardinality(Members(s, d))
        BY <3>1, <3>2
      <3> QED
        BY <2>1, <3>1, <3>3 DEF AuthDomains, FullDomains
    <2>2. CASE ~(Members(s, d) \subseteq Tagged(P))
      BY <1>1, <2>2 DEF AuthDomains, FullDomains
    <2> QED
      BY <2>1, <2>2
  <1>4. AuthDomains(s, P) \subseteq FailureDomains(s) /\ FullDomains(s, P) \subseteq FailureDomains(s)
    BY DomainsAreFinite
  <1> QED
    BY <1>2, <1>3, <1>4

\* a set of nodes that meets every write quorum fills enough domains somewhere
LEMMA MeetsFills ==
    ASSUME NEW P, \A s \in Scope : Cardinality(FailureDomains(s)) >= ReplicationFactor[s],
           \A Q \in SUBSET Effective : WriteQuorum(Q) => Q \cap Tagged(P) # {}
    PROVE  \E s \in Scope : Cardinality(FullDomains(s, P)) >= FMajorityNeeded(s)
  <1> DEFINE Q == Effective \ Tagged(P)
  <1>1. ~WriteQuorum(Q)
    <2>1. Q \in SUBSET Effective /\ Q \cap Tagged(P) = {}
      OBVIOUS
    <2> HIDE DEF Q
    <2> QED
      BY <2>1
  <1>2. PICK s \in Scope : ~(Cardinality({d \in FailureDomains(s) : Members(s, d) \cap Q # {}})
                               >= ReplicationFactor[s])
    BY <1>1 DEF WriteQuorum
  <1> DEFINE D == FailureDomains(s)
             F == FullDomains(s, P)
             R == ReplicationFactor[s]
  <1>3. {d \in D : Members(s, d) \cap Q # {}} = D \ F
    <2>1. \A d \in D : Members(s, d) \cap Q # {} <=> ~(Members(s, d) \subseteq Tagged(P))
      BY NodesAreFinite
    <2> HIDE DEF Q
    <2> QED
      BY <2>1 DEF FullDomains
  <1>4. ~(Cardinality(D \ F) >= R)
    BY <1>2, <1>3
  <1>5. /\ IsFiniteSet(D) /\ F \in SUBSET D /\ R \in Nat /\ Cardinality(D) \in Nat
        /\ Cardinality(F) \in Nat /\ Cardinality(D) >= R
    BY DomainsAreFinite
  <1>6. FMajorityNeeded(s) = IF Cardinality(D) >= R THEN Cardinality(D) - R + 1 ELSE 1
    BY DEF FMajorityNeeded
  <1> HIDE DEF D, F, R
  <1>7. Cardinality(D \ F) = Cardinality(D) - Cardinality(F)
    <2>1. D \cap F = F
      BY <1>5
    <2> QED
      BY <1>5, <2>1, FS_Difference
  <1>8. Cardinality(F) >= FMajorityNeeded(s)
    BY <1>4, <1>5, <1>6, <1>7
  <1> QED
    BY <1>8 DEF F

(* For every node set without lost data in which every scope has enough     *)
(* domains: matching nodes that share a node with every write quorum are    *)
(* recognised.  check_fmajority asks for no more than the intersection      *)
(* needs.  (NodeSetChecker::check_fmajority, FMajorityResult::Success.)     *)
THEOREM FMajorityAlwaysReached == Spec => []FMajorityReached
  <1>1. BookInv => FMajorityReached
    <2> SUFFICES ASSUME BookInv, NEW P \in SUBSET Attr,
                        \A n \in Effective : is_authoritative(storage[n]),
                        \A s \in Scope : Cardinality(FailureDomains(s)) >= ReplicationFactor[s],
                        \A Q \in SUBSET Effective : WriteQuorum(Q) => Q \cap Tagged(P) # {}
                 PROVE  CheckFMajority(P) = "Success"
      BY DEF FMajorityReached
    <2> DEFINE enough == {s \in Scope : Cardinality(AuthDomains(s, P))
                            + Cardinality(NonAuthDomains(s, P)) >= FMajorityNeeded(s)}
    <2>1. \A s \in Scope : /\ AuthDomains(s, P) = FullDomains(s, P)
                           /\ Cardinality(NonAuthDomains(s, P)) = 0
                           /\ Cardinality(FullDomains(s, P)) \in Nat
      BY FullAreCounted, DomainsAreFinite, FS_EmptySet
    <2>2. \A s \in Scope : s \in enough <=> Cardinality(AuthDomains(s, P)) >= FMajorityNeeded(s)
      <3> SUFFICES ASSUME NEW s \in Scope
                   PROVE  s \in enough <=> Cardinality(AuthDomains(s, P)) >= FMajorityNeeded(s)
        OBVIOUS
      <3>1. Cardinality(AuthDomains(s, P)) + Cardinality(NonAuthDomains(s, P))
              = Cardinality(AuthDomains(s, P))
        BY <2>1
      <3> QED
        BY <3>1
    <2>3. enough # {} /\ enough \subseteq Scope
      <3>1. PICK s \in Scope : Cardinality(FullDomains(s, P)) >= FMajorityNeeded(s)
        BY MeetsFills
      <3>2. s \in enough
        <4> HIDE DEF enough
        <4> QED
          BY <2>1, <2>2, <3>1
      <3> QED
        BY <3>2
    <2>4. Min(enough) \in enough
      <3> HIDE DEF enough
      <3>1. enough \subseteq Nat
        BY <2>3, CheckerAssumption
      <3> QED
        BY <2>3, <3>1, LeastNat DEF Min
    <2>5. Cardinality(AuthDomains(Min(enough), P)) >= FMajorityNeeded(Min(enough))
      <3> HIDE DEF enough
      <3> QED
        BY <2>2, <2>3, <2>4
    <2>6. CheckFMajority(P) =
            IF enough # {}
            THEN IF Cardinality(AuthDomains(Min(enough), P)) >= FMajorityNeeded(Min(enough))
                 THEN "Success" ELSE "SuccessWithRisk"
            ELSE IF is_complete_set(P) THEN "BestEffort" ELSE "None"
      BY DEF CheckFMajority
    <2> HIDE DEF enough
    <2> QED
      BY <2>3, <2>5, <2>6
  <1> QED
    BY <1>1, BooksAlwaysExact, PTL
=============================================================================
