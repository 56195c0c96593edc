---------------------------- MODULE PipelineProofs ----------------------------
(***************************************************************************)
(* What is proved of the set-up of a pipeline.  Of Pipeline: the types,    *)
(* that shared and constant outputs are respected, that the lists of       *)
(* connections lose nothing, and that the verdict of setup_pipeline does   *)
(* not depend on their order.  Then of Frequencies, the check with which   *)
(* setup_pipeline ends: what it accepts runs, what it rejects cannot.      *)
(***************************************************************************)
EXTENDS Pipeline, Frequencies, ListsProofs, FiniteSetTheorems

Conn    == Outputs \X Inputs
Pinning == Conn \X {"push_upstream", "push_downstream"}
Owners  == ProcSet \cup Clusters

(* Lists as sets of their elements.                                        *)
LEMMA SetOfList ==
  ASSUME NEW T, NEW s \in Seq(T)
  PROVE  /\ ToSet(s) = Elems(s) /\ ToSet(s) \subseteq T
         /\ \A x \in T : Append(s, x) \in Seq(T) /\ ToSet(Append(s, x)) = ToSet(s) \cup {x}
         /\ s # <<>> => /\ Head(s) \in T /\ Tail(s) \in Seq(T) /\ Head(s) \in ToSet(s)
                        /\ ToSet(s) = {Head(s)} \cup ToSet(Tail(s))
         /\ \A S : Chosen(s, S) \in Seq(T) /\ ToSet(Chosen(s, S)) = ToSet(s) \cap S
<1>1. \A t \in Seq(T) : ToSet(t) = Elems(t)
  BY LenProperties DEF ToSet, Elems
<1>2. ToSet(s) \subseteq T
  BY <1>1, ListOfSeq
<1>3. ASSUME NEW x \in T
      PROVE  Append(s, x) \in Seq(T) /\ ToSet(Append(s, x)) = ToSet(s) \cup {x}
  <2>1. /\ Append(s, x) \in Seq(T) /\ Len(s) \in Nat /\ Len(Append(s, x)) = Len(s) + 1
        /\ Append(s, x)[Len(s) + 1] = x /\ \A i \in 1..Len(s) : Append(s, x)[i] = s[i]
    BY AppendProperties, LenProperties
  <2>2. Elems(Append(s, x)) = Elems(s) \cup {x}
    <3> DEFINE a == Append(s, x)
               n == Len(s)
    <3>1. /\ n \in Nat /\ Len(a) = n + 1 /\ a[n + 1] = x /\ \A i \in 1..n : a[i] = s[i]
          /\ Elems(s) = {s[i] : i \in 1..n} /\ Elems(a) = {a[i] : i \in 1..Len(a)}
      BY <2>1 DEF Elems
    <3> HIDE DEF a, n
    <3>2. 1..Len(a) = 1..n \cup {n + 1}
      BY <3>1
    <3>3. Elems(a) = Elems(s) \cup {x}
      BY <3>1, <3>2
    <3> QED BY <3>3 DEF a
  <2> QED BY <1>1, <2>1, <2>2
<1>4. ASSUME s # <<>>
      PROVE  /\ Head(s) \in T /\ Tail(s) \in Seq(T) /\ Head(s) \in ToSet(s)
             /\ ToSet(s) = {Head(s)} \cup ToSet(Tail(s))
  <2>1. Head(s) \in T /\ Tail(s) \in Seq(T) /\ Elems(s) = {Head(s)} \cup Elems(Tail(s))
    BY <1>4, HeadAndTail
  <2>2. ToSet(s) = Elems(s) /\ ToSet(Tail(s)) = Elems(Tail(s))
    BY <1>1, <2>1
  <2> QED BY <2>1, <2>2
<1>5. ASSUME NEW S PROVE Chosen(s, S) \in Seq(T) /\ ToSet(Chosen(s, S)) = ToSet(s) \cap S
  BY <1>1, ChosenElements
<1> QED
  BY <1>1, <1>2, <1>3, <1>4, <1>5

LEMMA SmallLists ==
  /\ ToSet(<<>>) = {} /\ \A T : <<>> \in Seq(T)
  /\ \A T : \A x \in T : <<x>> \in Seq(T) /\ ToSet(<<x>>) = {x}
<1>1. ToSet(<<>>) = {}
  BY DEF ToSet
<1>2. \A T : <<>> \in Seq(T)
  OBVIOUS
<1>3. ASSUME NEW T, NEW x \in T PROVE <<x>> \in Seq(T) /\ ToSet(<<x>>) = {x}
  BY <1>3 DEF ToSet
<1> QED
  BY <1>1, <1>2, <1>3

-----------------------------------------------------------------------------
(* The inductive invariant of the types.                                   *)

Stages == {"idle", "replay", "map", "configure", "pin", "propagate"}

ListsTyped ==
  /\ planned_connections \in Seq(Conn) /\ connections \in Seq(Conn)
  /\ cluster_connections \in Seq(Conn) /\ data_dep_connections \in Seq(Conn)
  /\ untyped_connections \in Seq(Conn) /\ type_pinnings \in Seq(Pinning)

Tasks == [stage : Stages, calls : Seq(Conn),
          work : Seq(Conn) \cup Seq(ProcSet) \cup Seq(Pinning),
          kyu : Seq(Owners), name : Owners \cup {""}, scan : Seq(Conn)]

TaskTyped ==
  /\ task \in Tasks
  /\ task.stage = "map" => task.work \in Seq(Conn)
  /\ task.stage = "configure" => task.work \in Seq(ProcSet)
  /\ task.stage \in {"pin", "propagate"} => task.work \in Seq(Pinning)
  /\ task.stage = "propagate" => task.work # <<>>
  /\ task.stage # "propagate" => task.scan = <<>>
  /\ task.stage = "idle" => task.calls = <<>>

(* Only a port that was declared as depending on flow or data gets a type  *)
(* of another.                                                             *)
Open(p) == Declared[p] \in {type_flow_dependent, type_data_dependent}

TypesKnown ==
  /\ type \in [Ports -> Types] /\ declared \in [Ports -> Types]
  /\ \A p \in Ports : type[p] = type_data_dependent => Declared[p] = type_data_dependent
  /\ \A p \in Ports : ~Open(p) => type[p] = Declared[p]

(* The connections of the lists, by what connect found out about them.     *)
Waiting == ToSet(untyped_connections) \cup ToSet(task.scan)
Pinned_ == ToSet(type_pinnings) \cup
             (IF task.stage \in {"pin", "propagate"} THEN ToSet(task.work) ELSE {})
PinPort(x) == IF x[2] = "push_upstream" THEN x[1][1] ELSE x[1][2]

KindsKnown ==
  /\ \A c \in Waiting :
       ~OfCluster(c) /\ type[c[1]] # type_data_dependent /\ Open(c[1]) /\ Open(c[2])
  /\ \A x \in Pinned_ :
       ~OfCluster(x[1]) /\ type[x[1][1]] # type_data_dependent /\ Open(PinPort(x))
  /\ task.stage \in {"configure", "pin", "propagate"} =>
       \A c \in ToSet(task.calls) : ~OfCluster(c) /\ type[c[1]] # type_data_dependent
  /\ \A c \in ToSet(cluster_connections) : OfCluster(c)
  /\ task.stage = "map" => \A c \in ToSet(task.work) : OfCluster(c)
  /\ \A c \in ToSet(data_dep_connections) : ~OfCluster(c)

Marks ==
  /\ DOMAIN connected_shared_ports \subseteq Shared
  /\ \A p \in DOMAIN connected_shared_ports : connected_shared_ports[p] \in BOOLEAN

FlagsInv ==
  /\ setup \in BOOLEAN /\ setup_in_progress \in BOOLEAN
  /\ setup_successful \in BOOLEAN /\ running \in BOOLEAN
  /\ task.stage # "idle" => setup_in_progress
  /\ setup_successful => setup /\ ~setup_in_progress
  /\ running => setup_successful
  /\ task.stage = "idle" /\ setup => ~setup_in_progress
  /\ task.stage = "replay" => ~setup
  /\ task.stage \notin {"idle", "replay"} => setup

ListsInv == ListsTyped /\ TaskTyped /\ TypesKnown /\ KindsKnown /\ Marks

LEMMA TheTypes ==
  /\ \A p \in Ports : Declared[p] \in Types
  /\ \A p \in Outputs : Declared[p] = type_data_dependent => Provides[p] \in Types
  /\ \A p \in Inputs : Declared[p] # type_data_dependent
  /\ \A p \in Ports : Owner[p] \in Owners
  /\ \A c \in Conn : c = <<c[1], c[2]>> /\ c[1] \in Outputs /\ c[2] \in Inputs /\ c[1] \in Ports /\ c[2] \in Ports
  /\ Wanted \subseteq Conn /\ \A x \in Pinning : x = <<x[1], x[2]>> /\ x[1] \in Conn
  /\ Procs \in Seq(ProcSet)
BY PipelineAssumption DEF Types, Owners, Conn, Pinning, Ports

-----------------------------------------------------------------------------
(* What connect does with the lists.                                       *)

Gains(T, list, now, x) == now \in Seq(T) /\ ToSet(now) = ToSet(list) \cup {x}

LEMMA Gaining ==
  ASSUME NEW T, NEW s \in Seq(T), NEW x \in T PROVE Gains(T, s, Append(s, x), x)
BY SetOfList DEF Gains

ToCluster(c) ==
  /\ Gains(Conn, cluster_connections, cluster_connections', c) /\ OfCluster(c)
  /\ UNCHANGED <<connections, data_dep_connections, untyped_connections, type_pinnings>>
ToDataDep(c) ==
  /\ Gains(Conn, data_dep_connections, data_dep_connections', c) /\ ~OfCluster(c)
  /\ type[c[1]] = type_data_dependent
  /\ UNCHANGED <<connections, cluster_connections, untyped_connections, type_pinnings>>
ToUntyped(c) ==
  /\ Gains(Conn, untyped_connections, untyped_connections', c) /\ ~OfCluster(c)
  /\ type[c[1]] = type_flow_dependent /\ type[c[2]] = type_flow_dependent
  /\ UNCHANGED <<connections, cluster_connections, data_dep_connections, type_pinnings>>
ToPinnings(c) ==
  /\ \E push \in {"push_upstream", "push_downstream"} :
       /\ Gains(Pinning, type_pinnings, type_pinnings', <<c, push>>)
       /\ type[PinPort(<<c, push>>)] = type_flow_dependent
  /\ ~OfCluster(c) /\ type[c[1]] # type_data_dependent
  /\ UNCHANGED <<connections, cluster_connections, data_dep_connections, untyped_connections>>
ToConnections(c) ==
  /\ Gains(Conn, connections, connections', c) /\ ~OfCluster(c)
  /\ type[c[1]] # type_data_dependent /\ check_connection_flags(c)
  /\ UNCHANGED <<cluster_connections, data_dep_connections, untyped_connections, type_pinnings>>
Nowhere(c) ==
  /\ Refused(c) /\ ~OfCluster(c)
  /\ UNCHANGED <<connections, cluster_connections, data_dep_connections, untyped_connections,
                 type_pinnings>>

SortedIn(c) ==
  \/ ToCluster(c) \/ ToDataDep(c) \/ ToUntyped(c) \/ ToPinnings(c) \/ ToConnections(c) \/ Nowhere(c)

LEMMA Connecting ==
  ASSUME ListsInv, NEW c \in Conn, Connect(c)
  PROVE  SortedIn(c) /\ (Nowhere(c) <=> Refused(c)) /\ Marks'
<1>1. /\ connections \in Seq(Conn) /\ cluster_connections \in Seq(Conn)
      /\ data_dep_connections \in Seq(Conn) /\ untyped_connections \in Seq(Conn)
      /\ type_pinnings \in Seq(Pinning)
  BY DEF ListsInv, ListsTyped
<1>2. /\ \A T : \A s \in Seq(T) : \A x \in T : Gains(T, s, Append(s, x), x)
      /\ \A T, s, x : Gains(T, s, s, x) => x \in ToSet(s)
  BY Gaining DEF Gains
<1>3. \A push \in {"push_upstream", "push_downstream"} : <<c, push>> \in Pinning
  BY DEF Pinning
<1> DEFINE o == Outcome(c)
<1>4. /\ connections' = IF o = "compatible" THEN Append(connections, c) ELSE connections
      /\ cluster_connections' = IF o = "cluster" THEN Append(cluster_connections, c) ELSE cluster_connections
      /\ data_dep_connections' = IF o = "data_dep" THEN Append(data_dep_connections, c) ELSE data_dep_connections
      /\ untyped_connections' = IF o = "untyped" THEN Append(untyped_connections, c) ELSE untyped_connections
      /\ type_pinnings' = IF o \in {"push_upstream", "push_downstream"}
                          THEN Append(type_pinnings, <<c, o>>) ELSE type_pinnings
  BY DEF Connect, Put
<1>5. /\ o \in {"cluster", "flags", "data_dep", "untyped", "push_upstream", "push_downstream",
               "mismatch", "compatible"}
      /\ o = "cluster" <=> OfCluster(c)
      /\ o \notin {"cluster", "flags"} => check_connection_flags(c)
      /\ o = "data_dep" => type[c[1]] = type_data_dependent
      /\ o \in {"untyped", "push_upstream", "push_downstream", "mismatch", "compatible"} =>
           type[c[1]] # type_data_dependent
      /\ o = "untyped" => type[c[1]] = type_flow_dependent /\ type[c[2]] = type_flow_dependent
      /\ o = "push_upstream" => type[c[1]] = type_flow_dependent
      /\ o = "push_downstream" => type[c[2]] = type_flow_dependent
  BY DEF Outcome, check_connection_types
<1>6. Refused(c) <=> o \in {"flags", "mismatch"}
  BY DEF Refused
<1>7. Marks'
  <2>1. CASE ~(c[1] \in Shared /\ ~Marked(c[1]) /\ Outcome(c) \notin {"cluster", "flags"})
    BY <2>1 DEF Connect, ListsInv, Marks
  <2>2. CASE c[1] \in Shared /\ ~Marked(c[1]) /\ Outcome(c) \notin {"cluster", "flags"}
    <3>1. connected_shared_ports' =
            [p \in DOMAIN connected_shared_ports \cup {c[1]} |->
               IF p = c[1] THEN c[2] \in Mutable ELSE connected_shared_ports[p]]
      BY <2>2 DEF Connect
    <3>2. /\ DOMAIN connected_shared_ports' = DOMAIN connected_shared_ports \cup {c[1]}
          /\ \A p \in DOMAIN connected_shared_ports' :
               connected_shared_ports'[p] = IF p = c[1] THEN c[2] \in Mutable ELSE connected_shared_ports[p]
      BY <3>1, Zenon
    <3>3. \A p \in DOMAIN connected_shared_ports' : connected_shared_ports'[p] \in BOOLEAN
      <4> TAKE p \in DOMAIN connected_shared_ports'
      <4>1. CASE p = c[1]
        <5>1. connected_shared_ports'[p] = (c[2] \in Mutable)
          BY <3>2, <4>1, Zenon
        <5> QED BY <5>1
      <4>2. CASE p # c[1]
        <5>1. p \in DOMAIN connected_shared_ports /\ connected_shared_ports'[p] = connected_shared_ports[p]
          BY <3>2, <4>2
        <5> QED BY <5>1 DEF ListsInv, Marks
      <4> QED BY <4>1, <4>2
    <3>4. DOMAIN connected_shared_ports' \subseteq Shared
      BY <2>2, <3>2 DEF ListsInv, Marks
    <3> QED BY <3>3, <3>4 DEF Marks
  <2> QED BY <2>1, <2>2
<1> HIDE DEF o
<1>8. PinPort(<<c, "push_upstream">>) = c[1] /\ PinPort(<<c, "push_downstream">>) = c[2]
  BY DEF PinPort
<1>9. CASE o = "cluster"
  <2>1. ToCluster(c)
    BY <1>1, <1>2, <1>4, <1>5, <1>9 DEF ToCluster
  <2> QED BY <1>5, <1>6, <1>7, <1>9, <2>1 DEF SortedIn, Nowhere
<1>10. CASE o = "data_dep"
  <2>1. ToDataDep(c)
    BY <1>1, <1>2, <1>4, <1>5, <1>10 DEF ToDataDep
  <2> QED BY <1>5, <1>6, <1>7, <1>10, <2>1 DEF SortedIn, Nowhere
<1>11. CASE o = "untyped"
  <2>1. ToUntyped(c)
    BY <1>1, <1>2, <1>4, <1>5, <1>11 DEF ToUntyped
  <2> QED BY <1>5, <1>6, <1>7, <1>11, <2>1 DEF SortedIn, Nowhere
<1>12. CASE o \in {"push_upstream", "push_downstream"}
  <2>1. Gains(Pinning, type_pinnings, type_pinnings', <<c, o>>)
    BY <1>1, <1>2, <1>3, <1>4, <1>12
  <2>2. type[PinPort(<<c, o>>)] = type_flow_dependent
    BY <1>5, <1>8, <1>12
  <2>3. ToPinnings(c)
    BY <1>4, <1>5, <1>12, <2>1, <2>2 DEF ToPinnings
  <2> QED BY <1>5, <1>6, <1>7, <1>12, <2>3 DEF SortedIn, Nowhere
<1>13. CASE o = "compatible"
  <2>1. ToConnections(c)
    BY <1>1, <1>2, <1>4, <1>5, <1>13 DEF ToConnections
  <2> QED BY <1>5, <1>6, <1>7, <1>13, <2>1 DEF SortedIn, Nowhere
<1>14. CASE o \in {"flags", "mismatch"}
  <2>1. Nowhere(c)
    BY <1>4, <1>5, <1>6, <1>14 DEF Nowhere
  <2> QED BY <1>6, <1>7, <1>14, <2>1 DEF SortedIn
<1> QED
  BY <1>5, <1>9, <1>10, <1>11, <1>12, <1>13, <1>14

(* The lists after connect, with the stage or its end as the caller likes. *)
LEMMA ListsConnected ==
  ASSUME ListsInv, NEW c \in Conn, Connect(c), type' = type, declared' = declared,
         planned_connections' \in Seq(Conn), TaskTyped',
         task'.stage \in {"configure", "pin", "propagate"} =>
           task'.stage = task.stage /\ ToSet(task'.calls) \subseteq ToSet(task.calls),
         task'.stage \in {"map", "pin", "propagate"} =>
           task'.stage = task.stage /\ task'.work = task.work,
         ToSet(task'.scan) \subseteq ToSet(task.scan)
  PROVE  ListsInv'
<1>1. SortedIn(c) /\ Marks'
  BY Connecting
<1>2. \A p \in Ports : type[p] = type_flow_dependent => Open(p)
  BY DEF ListsInv, TypesKnown, Open
<1>3. c[1] \in Ports /\ c[2] \in Ports
  BY TheTypes
<1>4. ListsTyped'
  BY <1>1 DEF SortedIn, ToCluster, ToDataDep, ToUntyped, ToPinnings, ToConnections, Nowhere, Gains,
              ListsInv, ListsTyped
<1>5. TypesKnown'
  BY DEF ListsInv, TypesKnown
<1>6. \A x \in Conn : OfCluster(x)' = OfCluster(x)
  BY DEF OfCluster
<1>7. \A x \in Waiting' : x \in Waiting \/ (x = c /\ ToUntyped(c))
  BY <1>1 DEF Waiting, SortedIn, ToCluster, ToDataDep, ToUntyped, ToPinnings, ToConnections, Nowhere, Gains
<1>8. \A x \in Pinned_' : x \in Pinned_ \/ (ToPinnings(c) /\ x[1] = c /\ type[PinPort(x)] = type_flow_dependent)
  <2>1. \A x \in ToSet(type_pinnings') :
          x \in ToSet(type_pinnings) \/ (ToPinnings(c) /\ x[1] = c /\ type[PinPort(x)] = type_flow_dependent)
    <3>1. CASE ToPinnings(c)
      <4>1. PICK push \in {"push_upstream", "push_downstream"} :
              /\ ToSet(type_pinnings') = ToSet(type_pinnings) \cup {<<c, push>>}
              /\ type[PinPort(<<c, push>>)] = type_flow_dependent
        BY <3>1 DEF ToPinnings, Gains
      <4>2. <<c, push>>[1] = c
        OBVIOUS
      <4> QED BY <3>1, <4>1, <4>2
    <3>2. CASE ~ToPinnings(c)
      <4>1. type_pinnings' = type_pinnings
        BY <1>1, <3>2 DEF SortedIn, ToCluster, ToDataDep, ToUntyped, ToConnections, Nowhere
      <4> QED BY <4>1
    <3> QED BY <3>1, <3>2
  <2> QED BY <2>1 DEF Pinned_
<1>9. \A x \in Pinned_' : PinPort(x) \in Ports
  <2>1. Pinned_' \subseteq Pinning
    <3>1. ToSet(type_pinnings') \subseteq Pinning
      BY <1>4, SetOfList DEF ListsTyped
    <3>2. task'.stage \in {"pin", "propagate"} => ToSet(task'.work) \subseteq Pinning
      BY SetOfList DEF TaskTyped
    <3> QED BY <3>1, <3>2 DEF Pinned_
  <2>2. \A x \in Pinning : PinPort(x) \in Ports
    BY TheTypes DEF PinPort
  <2> QED BY <2>1, <2>2
<1>10. \A x \in Waiting' : ~OfCluster(x) /\ type[x[1]] # type_data_dependent /\ Open(x[1]) /\ Open(x[2])
  BY <1>2, <1>3, <1>7 DEF ToUntyped, ListsInv, KindsKnown, type_flow_dependent, type_data_dependent
<1>11. \A x \in Pinned_' : ~OfCluster(x[1]) /\ type[x[1][1]] # type_data_dependent /\ Open(PinPort(x))
  BY <1>2, <1>8, <1>9 DEF ToPinnings, ListsInv, KindsKnown
<1>12. task'.stage \in {"configure", "pin", "propagate"} =>
         \A x \in ToSet(task'.calls) : ~OfCluster(x) /\ type[x[1]] # type_data_dependent
  BY DEF ListsInv, KindsKnown
<1>13. \A x \in ToSet(cluster_connections') : OfCluster(x)
  BY <1>1 DEF SortedIn, ToCluster, ToDataDep, ToUntyped, ToPinnings, ToConnections, Nowhere, Gains,
              ListsInv, KindsKnown
<1>14. task'.stage = "map" => \A x \in ToSet(task'.work) : OfCluster(x)
  BY DEF ListsInv, KindsKnown
<1>15. \A x \in ToSet(data_dep_connections') : ~OfCluster(x)
  BY <1>1 DEF SortedIn, ToCluster, ToDataDep, ToUntyped, ToPinnings, ToConnections, Nowhere, Gains,
              ListsInv, KindsKnown
<1>16. KindsKnown'
  BY <1>10, <1>11, <1>12, <1>13, <1>14, <1>15 DEF KindsKnown, OfCluster, Open, PinPort
<1> QED
  BY <1>1, <1>4, <1>5, <1>16 DEF ListsInv

-----------------------------------------------------------------------------
(* The steps that move connections from list to list.                      *)

LEMMA ListsMoved ==
  ASSUME ListsInv, ListsTyped', TaskTyped', Marks', TypesKnown',
         \/ Waiting' = {} /\ Pinned_' = {}
         \/ \A p \in Ports : type[p] # type_data_dependent => type'[p] # type_data_dependent,
         Waiting' \subseteq Waiting, Pinned_' \subseteq Pinned_,
         ToSet(cluster_connections') \subseteq ToSet(cluster_connections),
         ToSet(data_dep_connections') \subseteq ToSet(data_dep_connections),
         task'.stage = "map" => \A c \in ToSet(task'.work) : OfCluster(c),
         task'.stage \in {"configure", "pin", "propagate"} =>
           \A c \in ToSet(task'.calls) : ~OfCluster(c) /\ type'[c[1]] # type_data_dependent
  PROVE  ListsInv'
<1>1. \A x : OfCluster(x)' = OfCluster(x)
  BY DEF OfCluster
<1>2. \A x : PinPort(x)' = PinPort(x) /\ \A p : Open(p)' = Open(p)
  BY DEF Open, PinPort
<1>3. Waiting \subseteq Conn /\ Pinned_ \subseteq Pinning
  <2>1. ToSet(untyped_connections) \subseteq Conn /\ ToSet(type_pinnings) \subseteq Pinning
    BY SetOfList DEF ListsInv, ListsTyped
  <2>2. ToSet(task.scan) \subseteq Conn
    <3>1. task.scan \in Seq(Conn)
      BY DEF ListsInv, TaskTyped, Tasks
    <3> QED BY ONLY <3>1, SetOfList
  <2>3. task.stage \in {"pin", "propagate"} => ToSet(task.work) \subseteq Pinning
    BY SetOfList DEF ListsInv, TaskTyped
  <2> QED BY <2>1, <2>2, <2>3 DEF Waiting, Pinned_
<1>4. /\ \A c \in Waiting' : ~OfCluster(c) /\ type[c[1]] # type_data_dependent /\ Open(c[1]) /\ Open(c[2])
                             /\ c[1] \in Ports
      /\ \A x \in Pinned_' : ~OfCluster(x[1]) /\ type[x[1][1]] # type_data_dependent /\ Open(PinPort(x))
                             /\ x[1][1] \in Ports
  BY <1>3, TheTypes DEF ListsInv, KindsKnown
<1>5. /\ \A c \in Waiting' : ~OfCluster(c) /\ type'[c[1]] # type_data_dependent /\ Open(c[1]) /\ Open(c[2])
      /\ \A x \in Pinned_' : ~OfCluster(x[1]) /\ type'[x[1][1]] # type_data_dependent /\ Open(PinPort(x))
  BY <1>4
<1>6. \A c \in ToSet(cluster_connections') : OfCluster(c)
  BY DEF ListsInv, KindsKnown
<1>7. \A c \in ToSet(data_dep_connections') : ~OfCluster(c)
  BY DEF ListsInv, KindsKnown
<1>8. KindsKnown'
  BY <1>1, <1>2, <1>5, <1>6, <1>7 DEF KindsKnown
<1> QED
  BY <1>8 DEF ListsInv

LEMMA IdleTask ==
  ASSUME task' = Idle
  PROVE  /\ TaskTyped' /\ task'.stage = "idle" /\ ToSet(task'.calls) = {} /\ ToSet(task'.scan) = {}
         /\ task'.calls = <<>>
         /\ Waiting' = ToSet(untyped_connections') /\ Pinned_' = ToSet(type_pinnings')
<1>1. /\ task'.stage = "idle" /\ task'.calls = <<>> /\ task'.scan = <<>>
      /\ task' = [stage |-> "idle", calls |-> <<>>, work |-> <<>>, kyu |-> <<>>, name |-> "", scan |-> <<>>]
  BY DEF Idle
<1>2. task' \in Tasks
  <2>1. <<>> \in Seq(Conn) /\ <<>> \in Seq(Owners) /\ "idle" \in Stages
    BY SmallLists DEF Stages
  <2>2. <<>> \in Seq(Conn) \cup Seq(ProcSet) \cup Seq(Pinning) /\ "" \in Owners \cup {""}
    BY <2>1
  <2> DEFINE R == [stage |-> "idle", calls |-> <<>>, work |-> <<>>, kyu |-> <<>>, name |-> "", scan |-> <<>>]
  <2>3. R \in Tasks
    BY <2>1, <2>2, Zenon DEF Tasks
  <2> QED BY <1>1, <2>3
<1>3. TaskTyped'
  BY <1>1, <1>2 DEF TaskTyped
<1>4. ToSet(<<>>) = {}
  BY SmallLists
<1>5. Waiting' = ToSet(untyped_connections') \cup ToSet(task'.scan)
  BY DEF Waiting
<1>6. Pinned_' = ToSet(type_pinnings')
  BY <1>1 DEF Pinned_
<1> QED
  BY <1>1, <1>3, <1>4, <1>5, <1>6

LEMMA TypesStay ==
  ASSUME ListsInv, type' = type, declared' = declared
  PROVE  TypesKnown'
BY DEF ListsInv, TypesKnown

(* A port gets a type, and those with its tag.                             *)
LEMMA TypesSet ==
  ASSUME ListsInv, NEW p \in Ports, NEW t \in Types, Open(p), t # type_data_dependent,
         type' = Typed(p, t), declared' = declared
  PROVE  /\ TypesKnown'
         /\ \A r \in Ports : type[r] # type_data_dependent => type'[r] # type_data_dependent
<1>1. type \in [Ports -> Types] /\ TypesKnown
  BY DEF ListsInv, TypesKnown
<1>2. \A r \in Tagged(p) : r \in Ports /\ Open(r)
  BY PipelineAssumption DEF Tagged, Open
<1>3. PICK S : /\ S \subseteq Ports /\ \A r \in S : Open(r)
               /\ type' = [r \in Ports |-> IF r \in S THEN t ELSE type[r]]
  <2>1. CASE t \in {type_any, type[p]}
    <3>1. type' = type
      BY <2>1 DEF Typed
    <3>2. type = [r \in Ports |-> type[r]]
      BY <1>1
    <3>e. PICK N : N = {}
      OBVIOUS
    <3>3. \A r : r \notin N
      BY <3>e
    <3>4. [r \in Ports |-> type[r]] = [r \in Ports |-> IF r \in N THEN t ELSE type[r]]
      BY <3>3
    <3>5. N \subseteq Ports /\ \A r \in N : Open(r)
      BY <3>3
    <3> QED BY <3>1, <3>2, <3>4, <3>5
  <2>2. CASE t \notin {type_any, type[p]}
    <3> DEFINE S == IF type[p] = type_flow_dependent THEN Tagged(p) ELSE {p}
    <3>1. type' = [r \in Ports |-> IF r \in S THEN t ELSE type[r]]
      BY <2>2 DEF Typed
    <3>2. S \subseteq Ports /\ \A r \in S : Open(r)
      BY <1>2
    <3> QED BY <3>1, <3>2
  <2> QED BY <2>1, <2>2
<1>4. type' \in [Ports -> Types] /\ \A r \in Ports : type'[r] = IF r \in S THEN t ELSE type[r]
  BY <1>1, <1>3
<1>5. \A r \in Ports : type'[r] = type_data_dependent => Declared[r] = type_data_dependent
  BY <1>1, <1>4 DEF TypesKnown
<1>6. \A r \in Ports : ~Open(r) => type'[r] = Declared[r]
  BY <1>1, <1>3, <1>4 DEF TypesKnown
<1>7. TypesKnown'
  BY <1>1, <1>4, <1>5, <1>6 DEF TypesKnown, Open
<1> QED
  BY <1>4, <1>7

LEMMA ListsAskFor ==
  ASSUME ListsInv, NEW c \in Wanted, AskFor(c) PROVE ListsInv'
<1>1. c \in Conn
  BY TheTypes
<1>2. /\ Connect(c) /\ type' = type /\ declared' = declared /\ task' = task
      /\ planned_connections' \in {planned_connections, Append(planned_connections, c)}
  BY DEF AskFor
<1>3. planned_connections' \in Seq(Conn)
  <2>1. planned_connections \in Seq(Conn)
    BY DEF ListsInv, ListsTyped
  <2>2. Append(planned_connections, c) \in Seq(Conn)
    BY <1>1, <2>1, SetOfList
  <2> QED BY <1>2, <2>1, <2>2
<1>4. TaskTyped'
  BY <1>2 DEF ListsInv, TaskTyped
<1> QED
  BY <1>1, <1>2, <1>3, <1>4, ListsConnected

LEMMA ListsReconnect ==
  ASSUME ListsInv, Reconnect PROVE ListsInv'
<1> DEFINE c == Head(task.calls)
<1>1. task \in Tasks /\ task.calls \in Seq(Conn)
  BY DEF ListsInv, TaskTyped, Tasks
<1>2. c \in Conn /\ Tail(task.calls) \in Seq(Conn) /\ ToSet(Tail(task.calls)) \subseteq ToSet(task.calls)
  <2>1. task.calls # <<>>
    BY DEF Reconnect
  <2> QED BY <1>1, <2>1, SetOfList
<1>3. Connect(c) /\ type' = type /\ declared' = declared /\ planned_connections' = planned_connections
  BY DEF Reconnect, Throw
<1>4. planned_connections' \in Seq(Conn)
  BY <1>3 DEF ListsInv, ListsTyped
<1>5. CASE task' = Idle
  BY <1>2, <1>3, <1>4, <1>5, IdleTask, ListsConnected
<1>6. CASE task' = [task EXCEPT !.calls = Tail(@)]
  <2>1. /\ task' \in Tasks /\ task'.stage = task.stage /\ task'.calls = Tail(task.calls)
        /\ task'.work = task.work /\ task'.scan = task.scan
    BY <1>1, <1>2, <1>6 DEF Tasks
  <2>2. TaskTyped'
    BY <2>1 DEF ListsInv, TaskTyped
  <2> QED BY <1>2, <1>3, <1>4, <2>1, <2>2, ListsConnected
<1> QED
  BY <1>5, <1>6 DEF Reconnect, Throw

(* The steps in which the types of the ports stay as they are.             *)
LEMMA ListsQuiet ==
  ASSUME ListsInv,
         \/ \E c \in Wanted : Disconnect(c)
         \/ SetupPipeline \/ FinishSetup \/ EndReset \/ Start \/ Stop \/ UNCHANGED vars
  PROVE  ListsInv'
<1>1. /\ ListsTyped /\ task \in Tasks /\ TaskTyped /\ Marks
      /\ \A c \in ToSet(cluster_connections) : OfCluster(c)
  BY DEF ListsInv, TaskTyped, KindsKnown
<1>2. type' = type /\ declared' = declared /\ connected_shared_ports' = connected_shared_ports
  BY DEF Disconnect, SetupPipeline, FinishSetup, Throw, EndReset, Start, Stop, vars, asked, lists
<1>3. TypesKnown' /\ Marks'
  BY <1>1, <1>2, TypesStay DEF Marks
<1>4. ASSUME NEW c \in Wanted, Disconnect(c) PROVE ListsInv'
  <2>1. /\ planned_connections' = Without(planned_connections, c)
        /\ connections' = Without(connections, c)
        /\ data_dep_connections' = Without(data_dep_connections, c)
        /\ untyped_connections' = Without(untyped_connections, c)
        /\ cluster_connections' = Without(cluster_connections, c)
        /\ type_pinnings' = type_pinnings /\ task' = task /\ task.stage = "idle"
    BY <1>4 DEF Disconnect, Idle
  <2>2. \A s \in Seq(Conn) : Without(s, c) \in Seq(Conn) /\ ToSet(Without(s, c)) \subseteq ToSet(s)
    BY SetOfList DEF Without
  <2>3. /\ ListsTyped' /\ ToSet(untyped_connections') \subseteq ToSet(untyped_connections)
        /\ ToSet(cluster_connections') \subseteq ToSet(cluster_connections)
        /\ ToSet(data_dep_connections') \subseteq ToSet(data_dep_connections)
    BY <1>1, <2>1, <2>2 DEF ListsTyped
  <2>4. Waiting' \subseteq Waiting /\ Pinned_' \subseteq Pinned_
    BY <2>1, <2>3 DEF Waiting, Pinned_
  <2>5. TaskTyped'
    BY <1>1, <2>1 DEF TaskTyped
  <2> QED BY <1>2, <1>3, <2>1, <2>3, <2>4, <2>5, ListsMoved
<1>5. CASE SetupPipeline
  <2>1. /\ task' = [Idle EXCEPT !.stage = "map", !.work = cluster_connections]
        /\ cluster_connections' = <<>> /\ task.stage = "idle"
        /\ UNCHANGED <<planned_connections, connections, data_dep_connections, untyped_connections,
                       type_pinnings>>
    BY <1>5 DEF SetupPipeline, asked, Idle
  <2>2. /\ ListsTyped' /\ ToSet(cluster_connections') = {} /\ cluster_connections \in Seq(Conn)
    BY <1>1, <2>1, SmallLists DEF ListsTyped
  <2>3. task' = [stage |-> "map", calls |-> <<>>, work |-> cluster_connections, kyu |-> <<>>,
                 name |-> "", scan |-> <<>>]
    BY <2>1 DEF Idle
  <2>4. task' \in Tasks
    BY <2>2, <2>3, SmallLists DEF Tasks, Stages
  <2>5. /\ task'.stage = "map" /\ task'.work = cluster_connections /\ task'.scan = <<>>
        /\ task'.calls = <<>>
    BY <2>3
  <2>6. TaskTyped'
    BY <2>2, <2>4, <2>5 DEF TaskTyped
  <2>7. ToSet(task'.scan) = {}
    BY <2>5, SmallLists
  <2>8. Waiting' \subseteq Waiting /\ Pinned_' \subseteq Pinned_
    BY <2>1, <2>5, <2>7 DEF Waiting, Pinned_
  <2> QED BY <1>1, <1>2, <1>3, <2>1, <2>2, <2>5, <2>6, <2>8, ListsMoved
<1>6. CASE FinishSetup \/ EndReset
  <2>1. task' = Idle /\ UNCHANGED lists /\ planned_connections' = planned_connections
    BY <1>6 DEF FinishSetup, Throw, EndReset, asked
  <2>2. ListsTyped'
    BY <1>1, <2>1 DEF ListsTyped, lists
  <2>3. TaskTyped' /\ task'.stage = "idle" /\ Waiting' \subseteq Waiting /\ Pinned_' \subseteq Pinned_
    BY <2>1, IdleTask DEF Waiting, Pinned_, lists
  <2> QED BY <1>2, <1>3, <2>1, <2>2, <2>3, ListsMoved DEF lists
<1>7. CASE Start \/ Stop \/ UNCHANGED vars
  <2>1. task' = task /\ UNCHANGED lists /\ UNCHANGED asked
    BY <1>7 DEF Start, Stop, vars
  <2> QED BY <1>1, <1>2, <1>3, <2>1 DEF ListsInv, ListsTyped, TaskTyped, lists, asked, KindsKnown, Waiting, Pinned_,
             OfCluster, Open, PinPort
<1> QED
  BY <1>4, <1>5, <1>6, <1>7

LEMMA ListsMapCluster ==
  ASSUME ListsInv, MapCluster PROVE ListsInv'
<1>1. /\ ListsTyped /\ task \in Tasks /\ Marks /\ task.stage = "map" /\ task.calls = <<>>
      /\ task.work \in Seq(Conn) /\ task.scan = <<>>
      /\ \A c \in ToSet(cluster_connections) \cup ToSet(task.work) : OfCluster(c)
  BY DEF ListsInv, TaskTyped, KindsKnown, MapCluster, AtStage
<1>2. /\ type' = type /\ declared' = declared /\ connected_shared_ports' = connected_shared_ports
      /\ UNCHANGED <<planned_connections, connections, data_dep_connections, untyped_connections,
                     type_pinnings>>
  BY DEF MapCluster, asked
<1>3. TypesKnown' /\ Marks'
  BY <1>1, <1>2, TypesStay DEF Marks
<1>4. CASE task.work # <<>>
  <2> DEFINE c == Head(task.work)
  <2>1. /\ task' = [task EXCEPT !.calls = Mapped(c), !.work = Tail(@)]
        /\ cluster_connections' = cluster_connections
    BY <1>4 DEF MapCluster
  <2>2. /\ c \in Conn /\ OfCluster(c) /\ Tail(task.work) \in Seq(Conn)
        /\ ToSet(Tail(task.work)) \subseteq ToSet(task.work)
    BY <1>1, <1>4, SetOfList
  <2>3. Mapped(c) \in Seq(Conn)
    <3>1. c[1] \in Outputs /\ c[2] \in Inputs
      BY <2>2, TheTypes
    <3>2. CASE Owner[c[1]] \in Clusters
      <4>1. Mapping[c[1]] \in Seq(Outputs) /\ Len(Mapping[c[1]]) = 1
        BY <3>1, <3>2, PipelineAssumption
      <4>2. Mapping[c[1]][1] \in Outputs
        BY <4>1, ElementOfSeq
      <4>3. <<Mapping[c[1]][1], c[2]>> \in Conn
        BY <3>1, <4>2 DEF Conn
      <4> QED BY <3>2, <4>3, SmallLists DEF Mapped
    <3>3. CASE Owner[c[1]] \notin Clusters
      <4>1. Mapping[c[2]] \in Seq(Inputs)
        BY <2>2, <3>1, <3>3, PipelineAssumption DEF OfCluster
      <4>2. \A i \in 1..Len(Mapping[c[2]]) : <<c[1], Mapping[c[2]][i]>> \in Conn
        BY <3>1, <4>1, ElementOfSeq DEF Conn
      <4>3. Len(Mapping[c[2]]) \in Nat /\ DOMAIN Mapping[c[2]] = 1..Len(Mapping[c[2]])
        BY <4>1, LenProperties
      <4>4. Mapped(c) = [i \in 1..Len(Mapping[c[2]]) |-> <<c[1], Mapping[c[2]][i]>>]
        BY <3>3, <4>3 DEF Mapped
      <4>5. Mapped(c) \in [1..Len(Mapping[c[2]]) -> Conn]
        BY <4>2, <4>4
      <4> QED BY <4>3, <4>5, IsASeq
    <3> QED BY <3>2, <3>3
  <2> HIDE DEF c
  <2>4. /\ task' \in Tasks /\ task'.stage = "map" /\ task'.work = Tail(task.work)
        /\ task'.scan = <<>>
    BY <1>1, <2>1, <2>2, <2>3 DEF Tasks
  <2>5. TaskTyped'
    BY <2>2, <2>4 DEF TaskTyped
  <2>6. Waiting' = Waiting /\ Pinned_' \subseteq Pinned_
    BY <1>1, <1>2, <2>4 DEF Waiting, Pinned_
  <2>7. ListsTyped'
    BY <1>1, <1>2, <2>1 DEF ListsTyped
  <2> QED BY <1>1, <1>2, <1>3, <2>1, <2>2, <2>4, <2>5, <2>6, <2>7, ListsMoved
<1>5. CASE task.work = <<>> /\ cluster_connections # <<>>
  <2>1. task' = [task EXCEPT !.work = cluster_connections] /\ cluster_connections' = <<>>
    BY <1>5 DEF MapCluster
  <2>2. cluster_connections \in Seq(Conn) /\ ListsTyped' /\ ToSet(cluster_connections') = {}
    BY <1>1, <1>2, <2>1, SmallLists DEF ListsTyped
  <2>3. task' \in Tasks /\ task'.stage = "map" /\ task'.work = cluster_connections /\ task'.scan = <<>>
    BY <1>1, <2>1, <2>2 DEF Tasks
  <2>4. TaskTyped'
    BY <2>2, <2>3 DEF TaskTyped
  <2>5. Waiting' = Waiting /\ Pinned_' \subseteq Pinned_
    BY <1>1, <1>2, <2>3 DEF Waiting, Pinned_
  <2> QED BY <1>1, <1>2, <1>3, <2>2, <2>3, <2>4, <2>5, ListsMoved
<1>6. CASE task.work = <<>> /\ cluster_connections = <<>>
  <2>1. task' = [task EXCEPT !.stage = "configure", !.work = Procs] /\ cluster_connections' = <<>>
    BY <1>6 DEF MapCluster
  <2>2. ListsTyped' /\ ToSet(cluster_connections') = {} /\ Procs \in Seq(ProcSet)
    BY <1>1, <1>2, <2>1, SmallLists, TheTypes DEF ListsTyped
  <2>3. /\ task' \in Tasks /\ task'.stage = "configure" /\ task'.work = Procs /\ task'.scan = <<>>
        /\ task'.calls = <<>>
    BY <1>1, <2>1, <2>2 DEF Tasks, Stages
  <2>4. TaskTyped' /\ ToSet(task'.calls) = {}
    BY <2>2, <2>3, SmallLists DEF TaskTyped
  <2>5. Waiting' = Waiting /\ Pinned_' \subseteq Pinned_
    BY <1>1, <1>2, <2>3 DEF Waiting, Pinned_
  <2> QED BY <1>1, <1>2, <1>3, <2>2, <2>3, <2>4, <2>5, ListsMoved
<1> QED
  BY <1>4, <1>5, <1>6

LEMMA ListsConfigure ==
  ASSUME ListsInv, ConfigureProcess PROVE ListsInv'
<1>1. /\ ListsTyped /\ task \in Tasks /\ Marks /\ task.stage = "configure" /\ task.calls = <<>>
      /\ task.work \in Seq(ProcSet) /\ task.work # <<>> /\ task.scan = <<>> /\ TypesKnown
      /\ data_dep_connections \in Seq(Conn)
  BY DEF ListsInv, ListsTyped, TaskTyped, ConfigureProcess, AtStage
<1> DEFINE name    == Head(task.work)
           waiting == ToSet(data_dep_connections)
           mine    == {c \in waiting : Owner[c[1]] = name}
<1>2. /\ type' = [p \in Ports |-> IF Owner[p] = name /\ type[p] = type_data_dependent
                                  THEN Provides[p] ELSE type[p]]
      /\ data_dep_connections' = Chosen(data_dep_connections, waiting \ mine)
      /\ \/ task' = Idle
         \/ /\ ~ \E c \in mine : type'[c[1]] = type_data_dependent
            /\ task' = [task EXCEPT !.calls = Chosen(data_dep_connections, mine), !.work = Tail(@)]
      /\ declared' = declared /\ connected_shared_ports' = connected_shared_ports
      /\ UNCHANGED <<planned_connections, connections, cluster_connections, untyped_connections,
                     type_pinnings>>
  BY DEF ConfigureProcess, Throw, asked
<1>3. /\ Chosen(data_dep_connections, mine) \in Seq(Conn)
      /\ ToSet(Chosen(data_dep_connections, mine)) \subseteq mine
      /\ data_dep_connections' \in Seq(Conn) /\ ToSet(data_dep_connections') \subseteq waiting
  BY <1>1, <1>2, SetOfList
<1>4. waiting \subseteq Conn /\ \A c \in waiting : ~OfCluster(c) /\ c[1] \in Ports
  BY <1>1, SetOfList, TheTypes DEF ListsInv, KindsKnown
<1>5. /\ mine \subseteq waiting /\ Tail(task.work) \in Seq(ProcSet)
  BY <1>1, SetOfList
<1> HIDE DEF waiting, mine
<1>6. \A p \in Ports : type[p] # type_data_dependent => type'[p] = type[p]
  BY <1>2
<1>7. TypesKnown'
  <2>1. \A p \in Ports : type[p] = type_data_dependent => Provides[p] \in Types /\ Declared[p] = type_data_dependent
    BY <1>1, TheTypes DEF TypesKnown, Ports
  <2>2. \A p \in Ports : type'[p] \in Types
    BY <1>1, <1>2, <2>1 DEF TypesKnown
  <2>3. type' \in [Ports -> Types]
    BY <1>2, <2>2
  <2>4. \A p \in Ports : type'[p] = type_data_dependent => Declared[p] = type_data_dependent
    BY <1>6, <2>1
  <2>5. \A p \in Ports : ~Open(p) => type'[p] = Declared[p]
    <3>1. \A p \in Ports : ~Open(p) => type[p] = Declared[p] /\ type[p] # type_data_dependent
      BY <1>1 DEF TypesKnown, Open
    <3> QED BY <1>6, <3>1
  <2> QED BY <1>1, <1>2, <2>3, <2>4, <2>5 DEF TypesKnown, Open
<1>8. ListsTyped' /\ Marks'
  BY <1>1, <1>2, <1>3 DEF ListsTyped, Marks
<1>9. CASE task' = Idle
  <2>1. TaskTyped' /\ task'.stage = "idle" /\ Waiting' \subseteq Waiting /\ Pinned_' \subseteq Pinned_
    BY <1>2, <1>9, IdleTask DEF Waiting, Pinned_
  <2> QED BY <1>2, <1>3, <1>6, <1>7, <1>8, <2>1, ListsMoved DEF waiting
<1>10. CASE /\ ~ \E c \in mine : type'[c[1]] = type_data_dependent
            /\ task' = [task EXCEPT !.calls = Chosen(data_dep_connections, mine), !.work = Tail(@)]
  <2>1. /\ task' \in Tasks /\ task'.stage = "configure" /\ task'.work = Tail(task.work)
        /\ task'.scan = <<>> /\ task'.calls = Chosen(data_dep_connections, mine)
    BY <1>1, <1>3, <1>5, <1>10 DEF Tasks
  <2>2. TaskTyped'
    BY <1>5, <2>1 DEF TaskTyped
  <2>3. Waiting' = Waiting /\ Pinned_' \subseteq Pinned_
    BY <1>1, <1>2, <2>1 DEF Waiting, Pinned_
  <2>4. \A c \in ToSet(task'.calls) : ~OfCluster(c) /\ type'[c[1]] # type_data_dependent
    BY <1>3, <1>4, <1>5, <1>10, <2>1
  <2> QED BY <1>2, <1>3, <1>6, <1>7, <1>8, <2>1, <2>2, <2>3, <2>4, ListsMoved DEF waiting
<1> QED
  BY <1>2, <1>9, <1>10

LEMMA ListsTakePinnings ==
  ASSUME ListsInv, TakePinnings PROVE ListsInv'
<1>1. /\ ListsTyped /\ task \in Tasks /\ Marks /\ task.stage \in {"configure", "pin"} /\ task.calls = <<>>
      /\ task.work = <<>> /\ task.scan = <<>> /\ type_pinnings \in Seq(Pinning)
  BY DEF ListsInv, ListsTyped, TaskTyped, TakePinnings, AtStage
<1>2. /\ task' = [task EXCEPT !.stage = "pin", !.work = type_pinnings] /\ type_pinnings' = <<>>
      /\ type' = type /\ declared' = declared /\ connected_shared_ports' = connected_shared_ports
      /\ UNCHANGED <<planned_connections, connections, cluster_connections, data_dep_connections,
                     untyped_connections>>
  BY DEF TakePinnings, asked
<1>3. TypesKnown' /\ Marks' /\ ListsTyped' /\ ToSet(type_pinnings') = {}
  BY <1>1, <1>2, TypesStay, SmallLists DEF Marks, ListsTyped
<1>4. /\ task' \in Tasks /\ task'.stage = "pin" /\ task'.work = type_pinnings
      /\ task'.scan = <<>> /\ task'.calls = <<>>
  BY <1>1, <1>2 DEF Tasks, Stages
<1>5. TaskTyped' /\ ToSet(task'.calls) = {}
  BY <1>1, <1>4, SmallLists DEF TaskTyped
<1>6. Waiting' = Waiting /\ Pinned_' \subseteq Pinned_
  BY <1>1, <1>2, <1>3, <1>4 DEF Waiting, Pinned_
<1> QED
  BY <1>2, <1>3, <1>4, <1>5, <1>6, ListsMoved

LEMMA ListsPin ==
  ASSUME ListsInv, Pin PROVE ListsInv'
<1>1. /\ ListsTyped /\ task \in Tasks /\ Marks /\ task.stage = "pin" /\ task.calls = <<>>
      /\ task.work \in Seq(Pinning) /\ task.work # <<>> /\ task.scan = <<>> /\ TypesKnown
  BY DEF ListsInv, TaskTyped, Pin, AtStage
<1> DEFINE x    == Head(task.work)
           port == PinPort(x)
           t    == IF x[2] = "push_upstream" THEN type[x[1][2]] ELSE type[x[1][1]]
<1>2. /\ UNCHANGED lists /\ declared' = declared /\ planned_connections' = planned_connections
      /\ \/ type' = type /\ task' = Idle
         \/ /\ type' = Typed(port, t)
            /\ task' = [task EXCEPT !.stage = "propagate", !.kyu = <<Owner[port]>>]
  BY DEF Pin, Throw, asked, PinPort
<1>3. x \in Pinning /\ x \in Pinned_
  <2>1. x \in Pinning /\ x \in ToSet(task.work)
    BY <1>1, SetOfList
  <2> QED BY <1>1, <2>1 DEF Pinned_
<1>4. /\ port \in Ports /\ Open(port) /\ Owner[port] \in Owners /\ t \in Types /\ t # type_data_dependent
  <2>1. /\ x[1][1] \in Ports /\ x[1][2] \in Inputs /\ x[1][2] \in Ports /\ Open(port)
        /\ type[x[1][1]] # type_data_dependent
    BY <1>3, TheTypes DEF ListsInv, KindsKnown
  <2>2. port \in Ports
    BY <2>1 DEF PinPort
  <2> QED BY <1>1, <2>1, <2>2, TheTypes DEF TypesKnown
<1> HIDE DEF x, port, t
<1>5. ListsTyped' /\ Marks'
  BY <1>1, <1>2 DEF ListsTyped, Marks, lists
<1>6. CASE type' = type /\ task' = Idle
  <2>1. TypesKnown'
    BY <1>2, <1>6, TypesStay
  <2>2. TaskTyped' /\ task'.stage = "idle" /\ Waiting' \subseteq Waiting /\ Pinned_' \subseteq Pinned_
    BY <1>2, <1>6, IdleTask DEF Waiting, Pinned_, lists
  <2> QED BY <1>2, <1>5, <1>6, <2>1, <2>2, ListsMoved DEF lists
<1>7. CASE /\ type' = Typed(port, t)
           /\ task' = [task EXCEPT !.stage = "propagate", !.kyu = <<Owner[port]>>]
  <2>1. /\ TypesKnown'
        /\ \A p \in Ports : type[p] # type_data_dependent => type'[p] # type_data_dependent
    BY <1>2, <1>4, <1>7, TypesSet
  <2>2. <<Owner[port]>> \in Seq(Owners)
    BY <1>4, SmallLists
  <2>3. /\ task' \in Tasks /\ task'.stage = "propagate" /\ task'.work = task.work
        /\ task'.scan = <<>> /\ task'.calls = <<>>
    BY <1>1, <1>7, <2>2 DEF Tasks, Stages
  <2>4. TaskTyped' /\ ToSet(task'.calls) = {}
    BY <1>1, <2>3, SmallLists DEF TaskTyped
  <2>5. Waiting' = Waiting /\ Pinned_' = Pinned_
    BY <1>1, <1>2, <2>3 DEF Waiting, Pinned_, lists
  <2> QED BY <1>2, <1>5, <2>1, <2>3, <2>4, <2>5, ListsMoved DEF lists
<1> QED
  BY <1>2, <1>6, <1>7

LEMMA ListsNextName ==
  ASSUME ListsInv, NextName PROVE ListsInv'
<1>1. /\ ListsTyped /\ task \in Tasks /\ Marks /\ task.stage = "propagate" /\ task.calls = <<>>
      /\ task.work \in Seq(Pinning) /\ task.work # <<>> /\ task.scan = <<>> /\ task.kyu # <<>>
      /\ task.kyu \in Seq(Owners) /\ untyped_connections \in Seq(Conn)
  BY DEF ListsInv, ListsTyped, TaskTyped, Tasks, NextName, AtStage
<1>2. /\ task' = [task EXCEPT !.name = Head(task.kyu), !.kyu = Tail(@), !.scan = untyped_connections]
      /\ untyped_connections' = <<>>
      /\ type' = type /\ declared' = declared /\ connected_shared_ports' = connected_shared_ports
      /\ UNCHANGED <<planned_connections, connections, cluster_connections, data_dep_connections,
                     type_pinnings>>
  BY DEF NextName, asked
<1>3. TypesKnown' /\ Marks' /\ ListsTyped' /\ ToSet(untyped_connections') = {}
  BY <1>1, <1>2, TypesStay, SmallLists DEF Marks, ListsTyped
<1>4. Head(task.kyu) \in Owners /\ Tail(task.kyu) \in Seq(Owners)
  BY <1>1, SetOfList
<1>5. /\ task' \in Tasks /\ task'.stage = "propagate" /\ task'.work = task.work
      /\ task'.scan = untyped_connections /\ task'.calls = <<>>
  BY <1>1, <1>2, <1>4 DEF Tasks
<1>6. TaskTyped' /\ ToSet(task'.calls) = {}
  BY <1>1, <1>5, SmallLists DEF TaskTyped
<1>7. Waiting' \subseteq Waiting /\ Pinned_' = Pinned_
  BY <1>1, <1>2, <1>3, <1>5 DEF Waiting, Pinned_
<1> QED
  BY <1>2, <1>3, <1>5, <1>6, <1>7, ListsMoved

LEMMA ListsPropagate ==
  ASSUME ListsInv, Propagate PROVE ListsInv'
<1>1. /\ ListsTyped /\ task \in Tasks /\ Marks /\ task.stage = "propagate" /\ task.calls = <<>>
      /\ task.work \in Seq(Pinning) /\ task.work # <<>> /\ task.scan # <<>> /\ task.scan \in Seq(Conn)
      /\ task.kyu \in Seq(Owners) /\ untyped_connections \in Seq(Conn) /\ TypesKnown
  BY DEF ListsInv, ListsTyped, TaskTyped, Tasks, Propagate, AtStage
<1> DEFINE c == Head(task.scan)
<1>2. /\ untyped_connections' = untyped_connections \o Kept(c)
      /\ \/ task' = [task EXCEPT !.scan = Tail(@)] /\ type' = type
         \/ task' = Idle /\ type' = type
         \/ /\ Resolves(c) /\ type' = Typed(Far(c), type[Near(c)])
            /\ task' = [task EXCEPT !.scan = Tail(@), !.calls = <<c>>, !.kyu = Append(@, Owner[Far(c)])]
      /\ declared' = declared /\ connected_shared_ports' = connected_shared_ports
      /\ UNCHANGED <<planned_connections, connections, cluster_connections, data_dep_connections,
                     type_pinnings>>
  BY DEF Propagate, Throw, asked
<1>3. /\ c \in Conn /\ c \in Waiting /\ Tail(task.scan) \in Seq(Conn)
      /\ ToSet(task.scan) = {c} \cup ToSet(Tail(task.scan))
  BY <1>1, SetOfList DEF Waiting
<1>4. ~OfCluster(c) /\ type[c[1]] # type_data_dependent /\ Open(c[1]) /\ Open(c[2])
  BY <1>3 DEF ListsInv, KindsKnown
<1>5. /\ c[1] \in Ports /\ c[2] \in Ports /\ type[c[2]] # type_data_dependent
      /\ Owner[c[1]] \in Owners /\ Owner[c[2]] \in Owners
  BY <1>1, <1>3, TheTypes DEF TypesKnown
<1>6. /\ Near(c) \in Ports /\ Far(c) \in Ports /\ Open(Far(c)) /\ type[Near(c)] # type_data_dependent
      /\ type[Near(c)] \in Types /\ Owner[Far(c)] \in Owners
  BY <1>1, <1>4, <1>5 DEF Near, Far, TypesKnown
<1> HIDE DEF c
<1>7. /\ untyped_connections' \in Seq(Conn)
      /\ ToSet(untyped_connections') \subseteq ToSet(untyped_connections) \cup {c}
  <2>1. Kept(c) \in Seq(Conn) /\ ToSet(Kept(c)) \subseteq {c}
    BY <1>3, SmallLists DEF Kept
  <2>2. /\ untyped_connections \o Kept(c) \in Seq(Conn)
        /\ Elems(untyped_connections \o Kept(c)) = Elems(untyped_connections) \cup Elems(Kept(c))
    BY <1>1, <2>1, JoinedElements, JoinedPlaces
  <2>3. \A s \in Seq(Conn) : ToSet(s) = Elems(s)
    BY SetOfList
  <2>4. ToSet(untyped_connections') = ToSet(untyped_connections) \cup ToSet(Kept(c))
    BY <1>1, <1>2, <2>1, <2>2, <2>3
  <2> QED BY <1>2, <2>1, <2>2, <2>4
<1>8. ListsTyped' /\ Marks'
  BY <1>1, <1>2, <1>7 DEF ListsTyped, Marks
<1>9. CASE task' = [task EXCEPT !.scan = Tail(@)] /\ type' = type
  <2>1. TypesKnown'
    BY <1>2, <1>9, TypesStay
  <2>2. /\ task' \in Tasks /\ task'.stage = "propagate" /\ task'.work = task.work
        /\ task'.scan = Tail(task.scan) /\ task'.calls = <<>>
    BY <1>1, <1>3, <1>9 DEF Tasks
  <2>3. TaskTyped' /\ ToSet(task'.calls) = {}
    BY <1>1, <2>2, SmallLists DEF TaskTyped
  <2>4. Waiting' \subseteq Waiting /\ Pinned_' = Pinned_
    BY <1>1, <1>2, <1>3, <1>7, <2>2 DEF Waiting, Pinned_
  <2> QED BY <1>2, <1>8, <1>9, <2>1, <2>2, <2>3, <2>4, ListsMoved
<1>10. CASE task' = Idle /\ type' = type
  <2>1. TypesKnown'
    BY <1>2, <1>10, TypesStay
  <2>2. TaskTyped' /\ task'.stage = "idle" /\ Waiting' \subseteq Waiting /\ Pinned_' \subseteq Pinned_
    BY <1>2, <1>3, <1>7, <1>10, IdleTask DEF Waiting, Pinned_
  <2> QED BY <1>2, <1>8, <1>10, <2>1, <2>2, ListsMoved
<1>11. CASE /\ Resolves(c) /\ type' = Typed(Far(c), type[Near(c)])
            /\ task' = [task EXCEPT !.scan = Tail(@), !.calls = <<c>>, !.kyu = Append(@, Owner[Far(c)])]
  <2>1. /\ TypesKnown'
        /\ \A p \in Ports : type[p] # type_data_dependent => type'[p] # type_data_dependent
    BY <1>2, <1>6, <1>11, TypesSet
  <2>2. Append(task.kyu, Owner[Far(c)]) \in Seq(Owners) /\ <<c>> \in Seq(Conn)
    BY <1>1, <1>3, <1>6, SetOfList, SmallLists
  <2>3. /\ task' \in Tasks /\ task'.stage = "propagate" /\ task'.work = task.work
        /\ task'.scan = Tail(task.scan) /\ task'.calls = <<c>>
    BY <1>1, <1>3, <1>11, <2>2 DEF Tasks
  <2>4. TaskTyped' /\ ToSet(task'.calls) = {c}
    BY <1>1, <1>3, <2>3, SmallLists DEF TaskTyped
  <2>5. Waiting' \subseteq Waiting /\ Pinned_' = Pinned_
    BY <1>1, <1>2, <1>3, <1>7, <2>3 DEF Waiting, Pinned_
  <2> QED BY <1>2, <1>4, <1>5, <1>8, <2>1, <2>3, <2>4, <2>5, ListsMoved
<1> QED
  BY <1>2, <1>9, <1>10, <1>11

LEMMA ListsRetryPinned ==
  ASSUME ListsInv, RetryPinned PROVE ListsInv'
<1>1. /\ ListsTyped /\ task \in Tasks /\ Marks /\ task.stage = "propagate" /\ task.calls = <<>>
      /\ task.work \in Seq(Pinning) /\ task.work # <<>> /\ task.scan = <<>>
  BY DEF ListsInv, TaskTyped, RetryPinned, AtStage
<1> DEFINE x == Head(task.work)
<1>2. /\ task' = [task EXCEPT !.stage = "pin", !.calls = <<x[1]>>, !.work = Tail(@)]
      /\ UNCHANGED lists /\ type' = type /\ declared' = declared /\ planned_connections' = planned_connections
  BY DEF RetryPinned, asked
<1>3. /\ x \in Pinning /\ x \in Pinned_ /\ Tail(task.work) \in Seq(Pinning)
      /\ ToSet(Tail(task.work)) \subseteq ToSet(task.work)
  <2>1. x \in Pinning /\ x \in ToSet(task.work) /\ Tail(task.work) \in Seq(Pinning)
        /\ ToSet(Tail(task.work)) \subseteq ToSet(task.work)
    BY <1>1, SetOfList
  <2> QED BY <1>1, <2>1 DEF Pinned_
<1>4. ~OfCluster(x[1]) /\ type[x[1][1]] # type_data_dependent /\ x[1] \in Conn
  BY <1>3, TheTypes DEF ListsInv, KindsKnown
<1> HIDE DEF x
<1>5. TypesKnown' /\ Marks' /\ ListsTyped'
  BY <1>1, <1>2, TypesStay DEF Marks, ListsTyped, lists
<1>6. <<x[1]>> \in Seq(Conn) /\ ToSet(<<x[1]>>) = {x[1]}
  BY <1>4, SmallLists
<1>7. /\ task' \in Tasks /\ task'.stage = "pin" /\ task'.work = Tail(task.work)
      /\ task'.scan = <<>> /\ task'.calls = <<x[1]>>
  BY <1>1, <1>2, <1>3, <1>6 DEF Tasks, Stages
<1>8. TaskTyped'
  BY <1>3, <1>7 DEF TaskTyped
<1>9. Waiting' = Waiting /\ Pinned_' \subseteq Pinned_
  BY <1>1, <1>2, <1>3, <1>7 DEF Waiting, Pinned_, lists
<1> QED
  BY <1>2, <1>4, <1>5, <1>6, <1>7, <1>8, <1>9, ListsMoved DEF lists

LEMMA ListsReset ==
  ASSUME ListsInv, Reset PROVE ListsInv'
<1>1. ListsTyped /\ task \in Tasks /\ TypesKnown /\ planned_connections \in Seq(Conn)
  BY DEF ListsInv, ListsTyped, TaskTyped
<1>2. /\ connections' = <<>> /\ cluster_connections' = <<>> /\ data_dep_connections' = <<>>
      /\ untyped_connections' = <<>> /\ type_pinnings' = <<>>
      /\ connected_shared_ports' = NoTypes /\ planned_connections' = planned_connections
      /\ type' = [p \in Ports |-> IF Owner[p] \in Redeclares THEN Declared[p] ELSE type[p]]
      /\ declared' = type'
      /\ task' = [Idle EXCEPT !.stage = "replay", !.calls = planned_connections]
  BY DEF Reset
<1>3. ListsTyped'
  BY <1>1, <1>2, SmallLists DEF ListsTyped
<1>4. Marks'
  BY <1>2 DEF Marks, NoTypes
<1>5. TypesKnown'
  <2>1. type' \in [Ports -> Types]
    BY <1>1, <1>2, TheTypes DEF TypesKnown
  <2>2. \A p \in Ports : type'[p] = Declared[p] \/ type'[p] = type[p]
    BY <1>2
  <2> QED BY <1>1, <1>2, <2>1, <2>2 DEF TypesKnown, Open
<1>6. task' = [stage |-> "replay", calls |-> planned_connections, work |-> <<>>, kyu |-> <<>>,
               name |-> "", scan |-> <<>>]
  BY <1>2 DEF Idle
<1>7. /\ task' \in Tasks /\ task'.stage = "replay" /\ task'.scan = <<>>
  BY <1>1, <1>6, SmallLists DEF Tasks, Stages
<1>8. TaskTyped'
  BY <1>7 DEF TaskTyped
<1>9. Waiting' = {} /\ Pinned_' = {}
  BY <1>2, <1>7, SmallLists DEF Waiting, Pinned_
<1>10. ToSet(cluster_connections') = {} /\ ToSet(data_dep_connections') = {}
  BY <1>2, SmallLists
<1> QED
  BY <1>3, <1>4, <1>5, <1>7, <1>8, <1>9, <1>10, ListsMoved

LEMMA ListsNext ==
  ASSUME ListsInv, [Next]_vars PROVE ListsInv'
BY ListsAskFor, ListsQuiet, ListsReconnect, ListsMapCluster, ListsConfigure, ListsTakePinnings, ListsPin,
   ListsNextName, ListsPropagate, ListsRetryPinned, ListsReset DEF Next, Setup

LEMMA ListsInit ==
  ASSUME Init PROVE ListsInv
<1>1. /\ <<>> \in Seq(Conn) /\ <<>> \in Seq(Pinning) /\ <<>> \in Seq(Owners) /\ ToSet(<<>>) = {}
  BY SmallLists
<1>2. ListsTyped
  BY <1>1 DEF Init, ListsTyped
<1>3. /\ task = [stage |-> "idle", calls |-> <<>>, work |-> <<>>, kyu |-> <<>>, name |-> "", scan |-> <<>>]
  BY DEF Init, Idle
<1>4. task.stage = "idle" /\ task.scan = <<>> /\ task.calls = <<>>
  BY <1>3
<1>5. task \in Tasks
  BY <1>1, <1>3, Zenon DEF Tasks, Stages
<1>6. TaskTyped
  BY <1>4, <1>5 DEF TaskTyped
<1>7. TypesKnown
  <2>1. Declared \in [Ports -> Types]
    BY PipelineAssumption, TheTypes
  <2> QED BY <2>1 DEF Init, TypesKnown
<1>8. Waiting = {} /\ Pinned_ = {}
  BY <1>1, <1>4 DEF Init, Waiting, Pinned_
<1>9. KindsKnown
  BY <1>1, <1>4, <1>8 DEF Init, KindsKnown
<1>10. Marks
  BY DEF Init, NoTypes, Marks
<1> QED
  BY <1>2, <1>6, <1>7, <1>9, <1>10 DEF ListsInv

-----------------------------------------------------------------------------
(* The flags.                                                              *)

LEMMA FlagsInit ==
  ASSUME Init PROVE FlagsInv
BY DEF Init, Idle, FlagsInv

LEMMA FlagsNext ==
  ASSUME ListsInv, FlagsInv, [Next]_vars PROVE FlagsInv'
<1>1. task \in Tasks /\ (task.stage = "idle" => task.calls = <<>>)
  BY DEF ListsInv, TaskTyped
<1>2. DOMAIN task = {"stage", "calls", "work", "kyu", "name", "scan"}
  BY <1>1 DEF Tasks
<1>3. ASSUME task'.stage = task.stage, UNCHANGED flags PROVE FlagsInv'
  BY <1>3 DEF FlagsInv, flags
<1>4. ASSUME task.stage # "idle", Throw PROVE FlagsInv'
  <2>1. /\ task'.stage = "idle" /\ setup_in_progress' = (task.stage = "replay")
        /\ UNCHANGED <<setup, setup_successful, running>>
    BY <1>4 DEF Throw, Idle
  <2> QED BY <1>4, <2>1 DEF FlagsInv
<1>5. CASE \E c \in Wanted : AskFor(c) \/ Disconnect(c)
  BY <1>3, <1>5 DEF AskFor, Disconnect
<1>6. CASE SetupPipeline
  <2>1. task'.stage = "map"
    BY <1>6 DEF SetupPipeline, Idle
  <2> QED BY <1>6, <2>1 DEF SetupPipeline, FlagsInv
<1>7. CASE Reconnect
  <2>1. task.stage # "idle"
    BY <1>1, <1>7 DEF Reconnect
  <2>2. Throw \/ (task' = [task EXCEPT !.calls = Tail(@)] /\ UNCHANGED flags)
    BY <1>7 DEF Reconnect
  <2>3. ASSUME task' = [task EXCEPT !.calls = Tail(@)] PROVE task'.stage = task.stage
    BY <1>2, <2>3
  <2> QED BY <1>3, <1>4, <2>1, <2>2, <2>3
<1>8. CASE MapCluster
  <2>1. task.stage = "map" /\ UNCHANGED flags
    BY <1>8 DEF MapCluster, AtStage
  <2>2. \/ task' = [task EXCEPT !.calls = Mapped(Head(task.work)), !.work = Tail(@)]
        \/ task' = [task EXCEPT !.work = cluster_connections]
        \/ task' = [task EXCEPT !.stage = "configure", !.work = Procs]
    BY <1>8 DEF MapCluster
  <2>3. task'.stage \in {"map", "configure"}
    BY <1>2, <2>1, <2>2
  <2> QED BY <2>1, <2>3 DEF FlagsInv, flags
<1>9. CASE ConfigureProcess
  <2>1. task.stage # "idle"
    BY <1>9 DEF ConfigureProcess, AtStage
  <2>2. Throw \/ (UNCHANGED flags /\
          \E c : task' = [task EXCEPT !.calls = c, !.work = Tail(@)])
    BY <1>9 DEF ConfigureProcess
  <2>3. ASSUME NEW c, task' = [task EXCEPT !.calls = c, !.work = Tail(@)] PROVE task'.stage = task.stage
    BY <1>2, <2>3
  <2> QED BY <1>3, <1>4, <2>1, <2>2, <2>3
<1>10. CASE TakePinnings
  <2>1. task' = [task EXCEPT !.stage = "pin", !.work = type_pinnings]
        /\ task.stage \in {"pin", "configure"} /\ UNCHANGED flags
    BY <1>10 DEF TakePinnings, AtStage
  <2>2. task'.stage = "pin"
    BY <1>2, <2>1
  <2> QED BY <2>1, <2>2 DEF FlagsInv, flags
<1>11. CASE Pin
  <2>1. task.stage = "pin"
        /\ (Throw \/ (UNCHANGED flags /\ \E k : task' = [task EXCEPT !.stage = "propagate", !.kyu = k]))
    BY <1>11 DEF Pin, AtStage
  <2>2. ASSUME NEW k, task' = [task EXCEPT !.stage = "propagate", !.kyu = k]
        PROVE  task'.stage = "propagate"
    BY <1>2, <2>2
  <2>3. ASSUME task'.stage = "propagate", UNCHANGED flags PROVE FlagsInv'
    BY <2>1, <2>3 DEF FlagsInv, flags
  <2>4. Throw \/ (UNCHANGED flags /\ task'.stage = "propagate")
    BY <2>1, <2>2
  <2> QED BY <1>4, <2>1, <2>3, <2>4
<1>12. CASE NextName
  <2>1. UNCHANGED flags /\ task' = [task EXCEPT !.name = Head(task.kyu), !.kyu = Tail(@),
                                                !.scan = untyped_connections]
    BY <1>12 DEF NextName
  <2>2. task'.stage = task.stage
    BY <1>2, <2>1
  <2> QED BY <1>3, <2>1, <2>2
<1>13. CASE Propagate
  <2>1. task.stage # "idle"
    BY <1>13 DEF Propagate, AtStage
  <2>2. \/ Throw
        \/ UNCHANGED flags /\ task' = [task EXCEPT !.scan = Tail(@)]
        \/ UNCHANGED flags /\ \E c, o : task' = [task EXCEPT !.scan = Tail(@), !.calls = c,
                                                              !.kyu = Append(@, o)]
    BY <1>13 DEF Propagate
  <2>3. ASSUME task' = [task EXCEPT !.scan = Tail(@)] PROVE task'.stage = task.stage
    BY <1>2, <2>3
  <2>4. ASSUME NEW c, NEW o, task' = [task EXCEPT !.scan = Tail(@), !.calls = c, !.kyu = Append(@, o)]
        PROVE  task'.stage = task.stage
    BY <1>2, <2>4
  <2> QED BY <1>3, <1>4, <2>1, <2>2, <2>3, <2>4
<1>14. CASE RetryPinned
  <2>1. /\ task' = [task EXCEPT !.stage = "pin", !.calls = <<Head(task.work)[1]>>, !.work = Tail(@)]
        /\ task.stage = "propagate" /\ UNCHANGED flags
    BY <1>14 DEF RetryPinned, AtStage
  <2>2. task'.stage = "pin"
    BY <1>2, <2>1
  <2> QED BY <2>1, <2>2 DEF FlagsInv, flags
<1>15. CASE FinishSetup
  <2>1. task.stage = "pin"
    BY <1>15 DEF FinishSetup, AtStage
  <2>2. CASE Throw
    BY <1>4, <2>1, <2>2
  <2>3. CASE ~Throw
    <3>1. /\ setup_in_progress' = FALSE /\ setup_successful' = TRUE /\ task' = Idle
          /\ UNCHANGED <<setup, running>>
      BY <1>15, <2>3 DEF FinishSetup
    <3>2. task'.stage = "idle"
      BY <3>1 DEF Idle
    <3> QED BY <2>1, <3>1, <3>2 DEF FlagsInv
  <2> QED BY <2>2, <2>3
<1>16. CASE EndReset
  <2>1. task'.stage = "idle" /\ task.stage = "replay"
    BY <1>16 DEF EndReset, Idle, AtStage
  <2> QED BY <1>16, <2>1 DEF EndReset, FlagsInv
<1>17. CASE Start
  <2>1. task.stage = "idle" /\ task' = task
    BY <1>17 DEF Start, Idle
  <2> QED BY <1>17, <2>1 DEF Start, FlagsInv
<1>18. CASE Stop
  BY <1>18 DEF Stop, FlagsInv
<1>19. CASE Reset
  <2>1. task'.stage = "replay" /\ setup' = FALSE /\ setup_successful' = FALSE
        /\ setup_in_progress' = TRUE /\ running' = running /\ ~running
    BY <1>19 DEF Reset, Idle
  <2> QED BY <2>1 DEF FlagsInv
<1>20. CASE UNCHANGED vars
  BY <1>3, <1>20 DEF vars
<1> QED
  BY <1>5, <1>6, <1>7, <1>8, <1>9, <1>10, <1>11, <1>12, <1>13, <1>14, <1>15, <1>16, <1>17, <1>18, <1>19,
     <1>20 DEF Next, Setup

(* The connections, the types and the flags of the set-up, for any         *)
(* processes, ports and clusters.                                          *)
THEOREM TypesCorrect == Spec => []TypeOK
<1>1. Init => ListsInv /\ FlagsInv
  BY ListsInit, FlagsInit
<1>2. (ListsInv /\ FlagsInv) /\ [Next]_vars => (ListsInv /\ FlagsInv)'
  BY ListsNext, FlagsNext
<1>3. ListsInv /\ FlagsInv => TypeOK
  <2> SUFFICES ASSUME ListsInv, FlagsInv PROVE TypeOK
    OBVIOUS
  <2>1. task.calls \in Seq(Conn) /\ task.scan \in Seq(Conn)
    BY DEF ListsInv, TaskTyped, Tasks
  <2>2. /\ planned_connections \in Seq(Conn) /\ connections \in Seq(Conn)
        /\ cluster_connections \in Seq(Conn) /\ data_dep_connections \in Seq(Conn)
        /\ untyped_connections \in Seq(Conn)
    BY DEF ListsInv, ListsTyped
  <2>3. \A list \in {planned_connections, connections, cluster_connections,
                     data_dep_connections, untyped_connections, task.calls, task.scan} :
          list \in Seq(Outputs \X Inputs)
    BY <2>1, <2>2 DEF Conn
  <2> QED BY <2>3 DEF TypeOK, ListsInv, TypesKnown, Marks, FlagsInv
<1> QED
  BY <1>1, <1>2, <1>3, PTL DEF Spec

-----------------------------------------------------------------------------
(* Shared and constant outputs.                                            *)

MarkedMutable(p) == connected_shared_ports[p]

SharingInv ==
  \A c \in ToSet(connections) :
    /\ c[1] \in Const => c[2] \notin Mutable
    /\ c[1] \in Shared =>
         /\ Marked(c[1]) /\ (c[2] \in Mutable => MarkedMutable(c[1]))
         /\ MarkedMutable(c[1]) => \A d \in ToSet(connections) : d[1] = c[1] => d = c

LEMMA Marking ==
  ASSUME NEW c \in Conn, Connect(c)
  PROVE  /\ \A p : Marked(p) => Marked(p)' /\ MarkedMutable(p)' = MarkedMutable(p)
         /\ (c[1] \in Shared /\ ~Marked(c[1]) /\ Outcome(c) \notin {"cluster", "flags"}) =>
              Marked(c[1])' /\ MarkedMutable(c[1])' = (c[2] \in Mutable)
<1>1. CASE ~(c[1] \in Shared /\ ~Marked(c[1]) /\ Outcome(c) \notin {"cluster", "flags"})
  BY <1>1 DEF Connect, Marked, MarkedMutable
<1>2. CASE c[1] \in Shared /\ ~Marked(c[1]) /\ Outcome(c) \notin {"cluster", "flags"}
  <2>1. connected_shared_ports' =
          [p \in DOMAIN connected_shared_ports \cup {c[1]} |->
             IF p = c[1] THEN c[2] \in Mutable ELSE connected_shared_ports[p]]
    BY <1>2 DEF Connect
  <2>2. /\ DOMAIN connected_shared_ports' = DOMAIN connected_shared_ports \cup {c[1]}
        /\ \A p \in DOMAIN connected_shared_ports' :
             connected_shared_ports'[p] = IF p = c[1] THEN c[2] \in Mutable ELSE connected_shared_ports[p]
    BY <2>1, Zenon
  <2>3. ASSUME NEW p, Marked(p) PROVE Marked(p)' /\ MarkedMutable(p)' = MarkedMutable(p)
    <3>1. p # c[1] /\ p \in DOMAIN connected_shared_ports
      BY <1>2, <2>3 DEF Marked
    <3> QED BY <2>2, <3>1 DEF Marked, MarkedMutable
  <2>4. Marked(c[1])' /\ MarkedMutable(c[1])' = (c[2] \in Mutable)
    BY <2>2, Zenon DEF Marked, MarkedMutable
  <2> QED BY <2>3, <2>4
<1> QED
  BY <1>1, <1>2

LEMMA SharingConnected ==
  ASSUME ListsInv, SharingInv, NEW c \in Conn, Connect(c) PROVE SharingInv'
<1>1. SortedIn(c)
  BY Connecting
<1>2. /\ \A p : Marked(p) => Marked(p)' /\ MarkedMutable(p)' = MarkedMutable(p)
      /\ (c[1] \in Shared /\ ~Marked(c[1]) /\ Outcome(c) \notin {"cluster", "flags"}) =>
           Marked(c[1])' /\ MarkedMutable(c[1])' = (c[2] \in Mutable)
  BY Marking
<1>3. CASE connections' = connections
  <2>1. ASSUME NEW d \in ToSet(connections'), d[1] \in Shared
        PROVE  /\ Marked(d[1])' /\ (d[2] \in Mutable => MarkedMutable(d[1])')
               /\ MarkedMutable(d[1])' => \A x \in ToSet(connections') : x[1] = d[1] => x = d
    <3>1. /\ Marked(d[1]) /\ (d[2] \in Mutable => MarkedMutable(d[1]))
          /\ MarkedMutable(d[1]) => \A x \in ToSet(connections) : x[1] = d[1] => x = d
      BY <1>3, <2>1 DEF SharingInv
    <3>2. Marked(d[1])' /\ MarkedMutable(d[1])' = MarkedMutable(d[1])
      BY <1>2, <3>1
    <3> QED BY <1>3, <3>1, <3>2
  <2> QED BY <1>3, <2>1 DEF SharingInv
<1>4. CASE ToConnections(c)
  <2>1. /\ ToSet(connections') = ToSet(connections) \cup {c} /\ ~OfCluster(c)
        /\ ~(c[1] \in Const /\ c[2] \in Mutable)
        /\ (c[1] \in Shared /\ Marked(c[1])) => c[2] \notin Mutable /\ ~MarkedMutable(c[1])
    BY <1>4 DEF ToConnections, Gains, check_connection_flags, MarkedMutable
  <2>2. Outcome(c) \notin {"cluster", "flags"}
    BY <1>4, <2>1 DEF Outcome, ToConnections, check_connection_types
  <2>3. ASSUME NEW d \in ToSet(connections'), d[1] \in Shared
        PROVE  /\ Marked(d[1])' /\ (d[2] \in Mutable => MarkedMutable(d[1])')
               /\ MarkedMutable(d[1])' => \A x \in ToSet(connections') : x[1] = d[1] => x = d
    <3>1. CASE d[1] # c[1]
      <4>1. d \in ToSet(connections)
        BY <2>1, <2>3, <3>1
      <4>2. /\ Marked(d[1]) /\ (d[2] \in Mutable => MarkedMutable(d[1]))
            /\ MarkedMutable(d[1]) => \A x \in ToSet(connections) : x[1] = d[1] => x = d
        BY <2>3, <4>1 DEF SharingInv
      <4>3. Marked(d[1])' /\ MarkedMutable(d[1])' = MarkedMutable(d[1])
        BY <1>2, <4>2
      <4> QED BY <2>1, <3>1, <4>2, <4>3
    <3>2. CASE d[1] = c[1] /\ Marked(c[1])
      <4>1. c[2] \notin Mutable /\ ~MarkedMutable(c[1])
        BY <2>1, <2>3, <3>2
      <4>2. Marked(c[1])' /\ MarkedMutable(c[1])' = MarkedMutable(c[1])
        BY <1>2, <3>2
      <4>3. d[2] \notin Mutable
        BY <2>1, <2>3, <3>2, <4>1 DEF SharingInv
      <4> QED BY <3>2, <4>1, <4>2, <4>3
    <3>3. CASE d[1] = c[1] /\ ~Marked(c[1])
      <4>1. \A x \in ToSet(connections) : x[1] # c[1]
        BY <2>3, <3>3 DEF SharingInv
      <4>2. d = c /\ \A x \in ToSet(connections') : x[1] = d[1] => x = d
        BY <2>1, <3>3, <4>1
      <4>3. Marked(c[1])' /\ MarkedMutable(c[1])' = (c[2] \in Mutable)
        BY <1>2, <2>2, <2>3, <3>3
      <4> QED BY <4>2, <4>3
    <3> QED BY <3>1, <3>2, <3>3
  <2>4. \A d \in ToSet(connections') : d[1] \in Const => d[2] \notin Mutable
    BY <2>1 DEF SharingInv
  <2> QED BY <2>3, <2>4 DEF SharingInv
<1> QED
  BY <1>1, <1>3, <1>4 DEF SortedIn, ToCluster, ToDataDep, ToUntyped, ToPinnings, Nowhere

LEMMA SharingNext ==
  ASSUME ListsInv, SharingInv, [Next]_vars PROVE SharingInv'
<1>1. connections \in Seq(Conn) /\ task.calls \in Seq(Conn)
  BY DEF ListsInv, ListsTyped, TaskTyped, Tasks
<1>2. ASSUME connected_shared_ports' = connected_shared_ports,
             ToSet(connections') \subseteq ToSet(connections)
      PROVE  SharingInv'
  BY <1>2 DEF SharingInv, Marked, MarkedMutable
<1>3. CASE \E c \in Wanted : AskFor(c)
  BY <1>3, TheTypes, SharingConnected DEF AskFor
<1>4. CASE Reconnect
  <2>1. Head(task.calls) \in Conn /\ Connect(Head(task.calls))
    BY <1>1, <1>4, SetOfList DEF Reconnect
  <2> QED BY <2>1, SharingConnected
<1>5. CASE \E c \in Wanted : Disconnect(c)
  <2>1. PICK c \in Wanted : connections' = Without(connections, c)
                            /\ connected_shared_ports' = connected_shared_ports
    BY <1>5 DEF Disconnect
  <2>2. ToSet(connections') \subseteq ToSet(connections)
    BY <1>1, <2>1, SetOfList DEF Without
  <2> QED BY <1>2, <2>1, <2>2
<1>6. CASE Reset
  <2>1. ToSet(connections') = {}
    BY <1>6, SmallLists DEF Reset
  <2> QED BY <2>1 DEF SharingInv
<1>7. CASE \/ SetupPipeline \/ MapCluster \/ ConfigureProcess \/ TakePinnings \/ Pin \/ NextName
           \/ Propagate \/ RetryPinned \/ FinishSetup \/ EndReset \/ Start \/ Stop \/ UNCHANGED vars
  <2>1. connections' = connections /\ connected_shared_ports' = connected_shared_ports
    BY <1>7 DEF SetupPipeline, MapCluster, ConfigureProcess, TakePinnings, Pin, NextName, Propagate,
                RetryPinned, FinishSetup, EndReset, Start, Stop, vars, lists
  <2> QED BY <1>2, <2>1
<1> QED
  BY <1>3, <1>4, <1>5, <1>6, <1>7 DEF Next, Setup

(* However a connection came to be made, at once or at the end of a set-up *)
(* that found its types, a mutable reader of a shared port is its only     *)
(* one, and a constant port has none.                                      *)
THEOREM SharedPortsRespected == Spec => []SharingRespected
<1>1. Init => ListsInv /\ SharingInv
  <2>1. Init => SharingInv
    BY SmallLists DEF Init, SharingInv
  <2> QED BY <2>1, ListsInit
<1>2. (ListsInv /\ SharingInv) /\ [Next]_vars => (ListsInv /\ SharingInv)'
  BY ListsNext, SharingNext
<1>3. ListsInv /\ SharingInv => SharingRespected
  BY DEF SharingInv, SharingRespected, Sharable
<1> QED
  BY <1>1, <1>2, <1>3, PTL DEF Spec


-----------------------------------------------------------------------------
(* What the ports of clusters stand for.                                   *)

LEMMA LeavesOfProcess ==
  ASSUME NEW p \in Ports, Owner[p] \notin Clusters PROVE Leaves[p] = {p}
<1>1. Owner[p] \in ProcSet
  BY TheTypes DEF Owners
<1>2. {p} \in SUBSET Ports /\ p \in {p} /\ Whole({p})
  BY DEF Whole
<1>3. Leaves[p] = {r \in Ports : /\ Owner[r] \in ProcSet
                                 /\ \A S \in SUBSET Ports : p \in S /\ Whole(S) => r \in S}
  BY DEF Leaves
<1> QED
  BY <1>1, <1>2, <1>3

LEMMA LeavesOfCluster ==
  ASSUME NEW p \in Ports, Owner[p] \in Clusters, ToSet(Mapping[p]) \subseteq Ports
  PROVE  Leaves[p] = UNION {Leaves[r] : r \in ToSet(Mapping[p])}
<1> DEFINE M == ToSet(Mapping[p])
<1>1. \A r \in Ports :
        Leaves[r] = {x \in Ports : /\ Owner[x] \in ProcSet
                                   /\ \A S \in SUBSET Ports : r \in S /\ Whole(S) => x \in S}
  BY DEF Leaves
<1>2. \A S : Whole(S) /\ p \in S => M \subseteq S
  BY DEF Whole
<1>3. ASSUME NEW r \in M, NEW x \in Leaves[r] PROVE x \in Leaves[p]
  BY <1>1, <1>2, <1>3
<1>4. ASSUME NEW x \in Leaves[p], \A r \in M : x \notin Leaves[r] PROVE FALSE
  <2> DEFINE T == UNION {S \in SUBSET Ports : Whole(S) /\ x \notin S}
  <2>1. T \subseteq Ports /\ x \notin T
    OBVIOUS
  <2>2. x \in Ports /\ Owner[x] \in ProcSet
    BY <1>1
  <2>3. M \subseteq T
    <3> SUFFICES ASSUME NEW r \in M PROVE r \in T
      OBVIOUS
    <3>1. x \notin Leaves[r] /\ r \in Ports
      BY <1>4
    <3>2. PICK S \in SUBSET Ports : r \in S /\ Whole(S) /\ x \notin S
      BY <1>1, <2>2, <3>1
    <3> QED BY <3>2
  <2>4. Whole(T \cup {p})
    <3> SUFFICES ASSUME NEW q \in T \cup {p}, Owner[q] \in Clusters
                 PROVE  ToSet(Mapping[q]) \subseteq T \cup {p}
      BY DEF Whole
    <3>1. CASE q = p
      BY <2>3, <3>1
    <3>2. CASE q # p
      <4>1. PICK S \in SUBSET Ports : Whole(S) /\ x \notin S /\ q \in S
        BY <3>2
      <4>2. ToSet(Mapping[q]) \subseteq S
        BY <4>1 DEF Whole
      <4>3. S \subseteq T
        BY <4>1
      <4> QED BY <4>2, <4>3
    <3> QED BY <3>1, <3>2
  <2>5. T \cup {p} \in SUBSET Ports /\ p \in T \cup {p}
    BY <2>1
  <2> HIDE DEF T
  <2>6. x \in T \cup {p}
    BY <1>1, <2>4, <2>5
  <2>7. x = p
    BY <2>1, <2>6
  <2> QED BY <2>2, <2>7, PipelineAssumption
<1>5. Leaves[p] = UNION {Leaves[r] : r \in M}
  BY <1>3, <1>4
<1> QED
  BY <1>5

LEMMA FlatParts ==
  /\ \A A, B : Flat(A \cup B) = Flat(A) \cup Flat(B)
  /\ \A c : Flat({c}) = Leaves[c[1]] \X Leaves[c[2]]
BY DEF Flat

LEMMA FlatOfProcesses ==
  ASSUME NEW cs \in SUBSET Conn, \A c \in cs : ~OfCluster(c) PROVE Flat(cs) = cs
<1>1. \A c \in cs : c = <<c[1], c[2]>> /\ Leaves[c[1]] = {c[1]} /\ Leaves[c[2]] = {c[2]}
  BY TheTypes, LeavesOfProcess DEF OfCluster
<1>2. \A c \in cs : Leaves[c[1]] \X Leaves[c[2]] = {c}
  BY <1>1
<1>3. Flat(cs) = UNION {{c} : c \in cs}
  BY <1>2 DEF Flat
<1> QED
  BY <1>3

LEMMA FlatMapped ==
  ASSUME NEW c \in Conn, OfCluster(c)
  PROVE  Flat(ToSet(Mapped(c))) = Flat({c})
<1>1. c[1] \in Outputs /\ c[2] \in Inputs /\ c[1] \in Ports /\ c[2] \in Ports
  BY TheTypes
<1>2. Flat({c}) = Leaves[c[1]] \X Leaves[c[2]]
  BY FlatParts
<1>3. CASE Owner[c[1]] \in Clusters
  <2> DEFINE q == Mapping[c[1]][1]
  <2>1. Mapping[c[1]] \in Seq(Outputs) /\ Len(Mapping[c[1]]) = 1
    BY <1>1, <1>3, PipelineAssumption
  <2>2. ToSet(Mapping[c[1]]) = {q} /\ q \in Ports
    <3>1. DOMAIN Mapping[c[1]] = 1..1
      BY <2>1
    <3>2. q \in Outputs
      BY <2>1, ElementOfSeq
    <3> QED BY <3>1, <3>2 DEF ToSet, Ports
  <2>3. Leaves[c[1]] = Leaves[q]
    <3>1. Leaves[c[1]] = UNION {Leaves[r] : r \in {q}}
      BY <1>1, <1>3, <2>2, LeavesOfCluster
    <3> QED BY <3>1
  <2>4. Mapped(c) = <<<<q, c[2]>>>>
    BY <1>3 DEF Mapped
  <2> HIDE DEF q
  <2>5. ToSet(Mapped(c)) = {<<q, c[2]>>}
    BY <2>4, SmallLists
  <2>6. Flat({<<q, c[2]>>}) = Leaves[q] \X Leaves[c[2]]
    BY FlatParts
  <2> QED BY <1>2, <2>3, <2>5, <2>6
<1>4. CASE Owner[c[1]] \notin Clusters
  <2> DEFINE m == Mapping[c[2]]
  <2>1. m \in Seq(Inputs) /\ Owner[c[2]] \in Clusters
    BY <1>1, <1>4, PipelineAssumption DEF OfCluster
  <2>2. ToSet(m) \subseteq Ports
    <3>1. ToSet(m) \subseteq Inputs
      BY <2>1, SetOfList
    <3> QED BY <3>1 DEF Ports
  <2>3. Leaves[c[2]] = UNION {Leaves[r] : r \in ToSet(m)}
    BY <1>1, <2>1, <2>2, LeavesOfCluster
  <2>4. Mapped(c) = [i \in DOMAIN m |-> <<c[1], m[i]>>]
    BY <1>4 DEF Mapped
  <2> HIDE DEF m
  <2>5. ToSet(Mapped(c)) = {<<c[1], r>> : r \in ToSet(m)}
    BY <2>4 DEF ToSet
  <2>6. Flat(ToSet(Mapped(c))) = UNION {Leaves[c[1]] \X Leaves[r] : r \in ToSet(m)}
    <3> DEFINE D == ToSet(Mapped(c))
    <3>1. /\ \A r \in ToSet(m) : <<c[1], r>> \in D
          /\ \A d \in D : \E r \in ToSet(m) : d[1] = c[1] /\ d[2] = r
      BY <2>5
    <3> HIDE DEF D
    <3>2. \A r : <<c[1], r>>[1] = c[1] /\ <<c[1], r>>[2] = r
      OBVIOUS
    <3>3. ASSUME NEW x PROVE x \in Flat(D) <=> \E r \in ToSet(m) : x \in Leaves[c[1]] \X Leaves[r]
      <4>1. x \in Flat(D) <=> \E d \in D : x \in Leaves[d[1]] \X Leaves[d[2]]
        BY DEF Flat
      <4>2. ASSUME NEW r \in ToSet(m), x \in Leaves[c[1]] \X Leaves[r]
            PROVE  \E d \in D : x \in Leaves[d[1]] \X Leaves[d[2]]
        BY <3>1, <3>2, <4>2
      <4> QED BY <3>1, <4>1, <4>2
    <3>4. Flat(D) = UNION {Leaves[c[1]] \X Leaves[r] : r \in ToSet(m)}
      BY <3>3
    <3> QED BY <3>4 DEF D
  <2>7. Flat(ToSet(Mapped(c))) = Leaves[c[1]] \X Leaves[c[2]]
    BY <2>3, <2>6
  <2> QED BY <1>2, <2>7
<1> QED
  BY <1>3, <1>4


-----------------------------------------------------------------------------
(* No connection is lost between the lists.                                *)

Firsts(S) == {x[1] : x \in S}

Listed ==
  ToSet(connections) \cup ToSet(cluster_connections) \cup ToSet(data_dep_connections)
    \cup ToSet(untyped_connections) \cup Firsts(ToSet(type_pinnings))

(* The connections that the call under way has in its hands.               *)
InTask ==
  ToSet(task.calls) \cup ToSet(task.scan)
    \cup (IF task.stage = "map" THEN ToSet(task.work) ELSE {})
    \cup (IF task.stage \in {"pin", "propagate"} THEN Firsts(ToSet(task.work)) ELSE {})

Pending == Listed \cup InTask

(* Each list is empty when the stage is over that goes through it.         *)
StageInv ==
  /\ \A c \in ToSet(connections) : ~OfCluster(c)
  /\ task.stage \in {"configure", "pin", "propagate"} => ToSet(cluster_connections) = {}
  /\ task.stage = "configure" =>
       \A c \in ToSet(data_dep_connections) : Owner[c[1]] \in ToSet(task.work)
  /\ task.stage \in {"pin", "propagate"} => ToSet(data_dep_connections) = {}

HeldInv ==
  ~failed =>
    /\ accepted \subseteq ToSet(planned_connections)
    /\ task.stage = "idle" /\ ~setup => Pending = accepted /\ ~setup_in_progress
    /\ task.stage = "replay" => /\ ToSet(task.calls) \subseteq ToSet(planned_connections)
                                /\ Pending = accepted \cup ToSet(task.calls)
    /\ InSetup => Flat(Pending) = Flat(accepted)
    /\ setup_successful => IsInjective(connections) /\ ToSet(connections) = Flat(accepted)

(* disconnect leaves the type pinnings alone: what it takes back must not  *)
(* be able to be there.                                                    *)
NeverPinned == \A c \in MayDisconnect : OfCluster(c) \/ (~Open(c[1]) /\ ~Open(c[2]))

LEMMA FirstsParts ==
  /\ Firsts({}) = {} /\ \A A, B : Firsts(A \cup B) = Firsts(A) \cup Firsts(B)
  /\ \A x : Firsts({x}) = {x[1]}
BY DEF Firsts

LEMMA ListedConnected ==
  ASSUME ListsInv, NEW c \in Conn, Connect(c)
  PROVE  /\ Listed' = IF Refused(c) THEN Listed ELSE Listed \cup {c}
         /\ StageInv /\ task'.stage = task.stage /\ task'.work = task.work
              /\ (task.stage \in {"configure", "pin", "propagate"} => c \in ToSet(task.calls))
            => StageInv'
<1>1. SortedIn(c) /\ (Nowhere(c) <=> Refused(c))
  BY Connecting
<1> DEFINE moved == Listed' = IF Refused(c) THEN Listed ELSE Listed \cup {c}
<1>2. \A x : OfCluster(x)' = OfCluster(x)
  BY DEF OfCluster
<1>3. ASSUME StageInv, task'.stage = task.stage, task'.work = task.work,
             task.stage \in {"configure", "pin", "propagate"} => c \in ToSet(task.calls)
      PROVE  StageInv'
  <2>1. /\ \A x \in ToSet(connections') : ~OfCluster(x)
        /\ task.stage \in {"configure", "pin", "propagate"} =>
             ~OfCluster(c) /\ type[c[1]] # type_data_dependent
    BY <1>1, <1>3 DEF SortedIn, ToCluster, ToDataDep, ToUntyped, ToPinnings, ToConnections, Nowhere, Gains,
                      StageInv, ListsInv, KindsKnown
  <2>2. task.stage \in {"configure", "pin", "propagate"} =>
          cluster_connections' = cluster_connections /\ data_dep_connections' = data_dep_connections
    BY <1>1, <2>1 DEF SortedIn, ToCluster, ToDataDep, ToUntyped, ToPinnings, ToConnections, Nowhere
  <2>3. task'.stage \in {"configure", "pin", "propagate"} => ToSet(cluster_connections') = {}
    BY <1>3, <2>2 DEF StageInv
  <2>4. task'.stage = "configure" =>
          \A x \in ToSet(data_dep_connections') : Owner[x[1]] \in ToSet(task'.work)
    BY <1>3, <2>2 DEF StageInv
  <2>5. task'.stage \in {"pin", "propagate"} => ToSet(data_dep_connections') = {}
    BY <1>3, <2>2 DEF StageInv
  <2> QED BY <1>2, <2>1, <2>3, <2>4, <2>5 DEF StageInv
<1>4. CASE ToPinnings(c) /\ ~Nowhere(c)
  <2>1. PICK push : Gains(Pinning, type_pinnings, type_pinnings', <<c, push>>)
    BY <1>4 DEF ToPinnings
  <2>2. Firsts(ToSet(type_pinnings')) = Firsts(ToSet(type_pinnings)) \cup {c}
    <3>1. Firsts({<<c, push>>}) = {c}
      BY DEF Firsts
    <3>2. ToSet(type_pinnings') = ToSet(type_pinnings) \cup {<<c, push>>}
      BY <2>1 DEF Gains
    <3> QED BY <3>1, <3>2, FirstsParts
  <2>3. ~Refused(c)
    BY <1>1, <1>4
  <2>4. moved
    BY <1>4, <2>2, <2>3 DEF ToPinnings, Listed
  <2> QED BY <1>3, <2>4
<1>5. CASE Nowhere(c)
  <2>1. moved
    BY <1>1, <1>5 DEF Nowhere, Listed
  <2> QED BY <1>3, <2>1
<1>6. CASE (ToCluster(c) \/ ToDataDep(c) \/ ToUntyped(c) \/ ToConnections(c)) /\ ~Nowhere(c)
  <2>1. moved
    BY <1>1, <1>6 DEF ToCluster, ToDataDep, ToUntyped, ToConnections, Gains, Listed
  <2> QED BY <1>3, <2>1
<1> QED
  BY <1>1, <1>3, <1>4, <1>5, <1>6 DEF SortedIn


Moving ==
  /\ StageInv' /\ InSetup' /\ Flat(Pending') = Flat(Pending)
  /\ UNCHANGED <<setup_successful, accepted, planned_connections, failed>>

LEMMA HeldMoving ==
  ASSUME FlagsInv, HeldInv, InSetup, Moving PROVE StageInv' /\ HeldInv'
<1>1. ~setup_successful /\ task'.stage \notin {"idle", "replay"}
  BY DEF FlagsInv, InSetup, Moving
<1>2. ~failed => /\ accepted \subseteq ToSet(planned_connections)
                 /\ Flat(Pending) = Flat(accepted)
  BY DEF HeldInv
<1>3. ~failed' => /\ accepted' \subseteq ToSet(planned_connections')
                  /\ Flat(Pending') = Flat(accepted')
  BY <1>2 DEF Moving
<1>4. Flat(Pending)' = Flat(Pending') /\ Flat(accepted)' = Flat(accepted')
  BY DEF Flat, Leaves, Whole
<1> QED
  BY <1>1, <1>3, <1>4 DEF HeldInv, Moving

LEMMA HeldThrow ==
  ASSUME FlagsInv, HeldInv, Throw, task.stage # "idle", \A c \in ToSet(connections') : ~OfCluster(c)
  PROVE  StageInv' /\ HeldInv'
<1>1. task'.stage = "idle" /\ ~setup_successful
  BY DEF Throw, Idle, FlagsInv
<1>2. StageInv'
  BY <1>1 DEF StageInv, OfCluster
<1>3. /\ task.stage = "replay" => failed'
      /\ UNCHANGED <<setup, setup_successful, planned_connections, accepted>>
      /\ ~failed' => ~failed
  BY DEF Throw
<1>4. task.stage # "replay" => setup
  BY DEF FlagsInv
<1>5. HeldInv'
  BY <1>1, <1>3, <1>4 DEF HeldInv, InSetup
<1> QED
  BY <1>2, <1>5

LEMMA HeldMapCluster ==
  ASSUME ListsInv, FlagsInv, StageInv, HeldInv, MapCluster PROVE StageInv' /\ HeldInv'
<1>1. /\ ListsTyped /\ task \in Tasks /\ task.stage = "map" /\ task.calls = <<>>
      /\ task.work \in Seq(Conn) /\ task.scan = <<>>
      /\ \A c \in ToSet(task.work) : OfCluster(c)
      /\ DOMAIN task = {"stage", "calls", "work", "kyu", "name", "scan"}
  BY DEF ListsInv, TaskTyped, KindsKnown, MapCluster, AtStage, Tasks
<1>2. /\ UNCHANGED <<planned_connections, connections, data_dep_connections, untyped_connections,
                     type_pinnings, accepted, failed, setup_successful>>
  BY DEF MapCluster, asked, flags
<1>3. ToSet(<<>>) = {} /\ InTask = ToSet(task.work) /\ InSetup
  BY <1>1, SmallLists DEF InTask, InSetup
<1>4. \A c \in ToSet(connections') : ~OfCluster(c)
  BY <1>2 DEF StageInv
<1>5. CASE task.work # <<>>
  <2> DEFINE c == Head(task.work)
  <2>1. /\ task' = [task EXCEPT !.calls = Mapped(c), !.work = Tail(@)]
        /\ cluster_connections' = cluster_connections
    BY <1>5 DEF MapCluster
  <2>2. /\ c \in Conn /\ OfCluster(c) /\ ToSet(task.work) = {c} \cup ToSet(Tail(task.work))
    BY <1>1, <1>5, SetOfList
  <2>3. /\ task'.stage = "map" /\ task'.work = Tail(task.work) /\ task'.calls = Mapped(c)
        /\ task'.scan = <<>>
    BY <1>1, <2>1
  <2> HIDE DEF c
  <2>4. InTask' = ToSet(Mapped(c)) \cup ToSet(Tail(task.work)) /\ Listed' = Listed
    BY <1>2, <1>3, <2>1, <2>3 DEF InTask, Listed
  <2>5. /\ Pending = (Listed \cup ToSet(Tail(task.work))) \cup {c}
        /\ Pending' = (Listed \cup ToSet(Tail(task.work))) \cup ToSet(Mapped(c))
    BY <1>3, <2>2, <2>4 DEF Pending
  <2>6. Flat(Pending') = Flat(Pending)
    <3> DEFINE P == Listed \cup ToSet(Tail(task.work))
               m == ToSet(Mapped(c))
    <3>1. Pending = P \cup {c} /\ Pending' = P \cup m /\ Flat(m) = Flat({c})
      BY <2>2, <2>5, FlatMapped
    <3> HIDE DEF P, m
    <3>2. Flat(P \cup m) = Flat(P) \cup Flat(m) /\ Flat(P \cup {c}) = Flat(P) \cup Flat({c})
      BY FlatParts
    <3> QED BY <3>1, <3>2
  <2>7. StageInv' /\ InSetup'
    BY <1>4, <2>3 DEF StageInv, InSetup, OfCluster
  <2> QED BY <1>2, <1>3, <2>6, <2>7, HeldMoving DEF Moving
<1>6. CASE task.work = <<>> /\ cluster_connections # <<>>
  <2>1. task' = [task EXCEPT !.work = cluster_connections] /\ cluster_connections' = <<>>
    BY <1>6 DEF MapCluster
  <2>2. /\ task'.stage = "map" /\ task'.work = cluster_connections /\ task'.calls = <<>>
        /\ task'.scan = <<>>
    BY <1>1, <2>1
  <2>3. InTask' = ToSet(cluster_connections) /\ InTask = {}
    BY <1>3, <1>6, <2>2 DEF InTask
  <2>4. Pending' = Pending
    BY <1>2, <1>3, <2>1, <2>3 DEF Pending, Listed
  <2>5. StageInv' /\ InSetup'
    BY <1>4, <2>2 DEF StageInv, InSetup, OfCluster
  <2> QED BY <1>2, <1>3, <2>4, <2>5, HeldMoving DEF Moving
<1>7. CASE task.work = <<>> /\ cluster_connections = <<>>
  <2>1. task' = [task EXCEPT !.stage = "configure", !.work = Procs] /\ cluster_connections' = <<>>
    BY <1>7 DEF MapCluster
  <2>2. /\ task'.stage = "configure" /\ task'.work = Procs /\ task'.calls = <<>>
        /\ task'.scan = <<>>
    BY <1>1, <2>1
  <2>3. InTask' = {} /\ InTask = {}
    BY <1>3, <1>7, <2>2 DEF InTask
  <2>4. Pending' = Pending
    BY <1>2, <1>7, <2>1, <2>3 DEF Pending, Listed
  <2>5. \A c \in ToSet(data_dep_connections') : Owner[c[1]] \in ToSet(Procs)
    <3>1. \A c \in ToSet(data_dep_connections) : c \in Conn /\ ~OfCluster(c)
      BY <1>1, SetOfList DEF ListsInv, ListsTyped, KindsKnown
    <3>2. \A c \in ToSet(data_dep_connections) : Owner[c[1]] \in ProcSet
      BY <3>1, TheTypes DEF OfCluster, Owners
    <3> QED BY <1>2, <3>2 DEF ProcSet
  <2>6. StageInv' /\ InSetup'
    BY <1>3, <1>4, <2>1, <2>2, <2>5 DEF StageInv, InSetup, OfCluster
  <2> QED BY <1>2, <1>3, <2>4, <2>6, HeldMoving DEF Moving
<1> QED
  BY <1>5, <1>6, <1>7

LEMMA HeldConfigure ==
  ASSUME ListsInv, FlagsInv, StageInv, HeldInv, ConfigureProcess PROVE StageInv' /\ HeldInv'
<1>1. /\ ListsTyped /\ task \in Tasks /\ task.stage = "configure" /\ task.calls = <<>>
      /\ task.work \in Seq(ProcSet) /\ task.work # <<>> /\ task.scan = <<>>
      /\ data_dep_connections \in Seq(Conn)
      /\ DOMAIN task = {"stage", "calls", "work", "kyu", "name", "scan"}
  BY DEF ListsInv, ListsTyped, TaskTyped, ConfigureProcess, AtStage, Tasks
<1> DEFINE name    == Head(task.work)
           waiting == ToSet(data_dep_connections)
           mine    == {c \in waiting : Owner[c[1]] = name}
<1>2. /\ data_dep_connections' = Chosen(data_dep_connections, waiting \ mine)
      /\ \/ Throw
         \/ /\ task' = [task EXCEPT !.calls = Chosen(data_dep_connections, mine), !.work = Tail(@)]
            /\ UNCHANGED <<flags, asked>>
      /\ UNCHANGED <<connections, cluster_connections, untyped_connections, type_pinnings>>
  BY DEF ConfigureProcess
<1>3. /\ ToSet(Chosen(data_dep_connections, mine)) = mine
      /\ ToSet(data_dep_connections') = waiting \ mine
  <2>1. \A S : ToSet(Chosen(data_dep_connections, S)) = waiting \cap S
    BY <1>1, SetOfList
  <2>2. waiting \cap mine = mine /\ waiting \cap (waiting \ mine) = waiting \ mine
    OBVIOUS
  <2> QED BY <1>2, <2>1, <2>2
<1>4. ToSet(task.work) = {name} \cup ToSet(Tail(task.work))
  BY <1>1, SetOfList
<1>5. /\ mine \subseteq waiting /\ \A c \in waiting \ mine : Owner[c[1]] \in ToSet(Tail(task.work))
  BY <1>1, <1>4 DEF StageInv
<1>6. waiting = ToSet(data_dep_connections)
  OBVIOUS
<1> HIDE DEF waiting, mine, name
<1>7. \A c \in ToSet(connections') : ~OfCluster(c)
  BY <1>2 DEF StageInv
<1>8. CASE Throw
  BY <1>1, <1>7, <1>8, HeldThrow
<1>9. CASE /\ task' = [task EXCEPT !.calls = Chosen(data_dep_connections, mine), !.work = Tail(@)]
           /\ UNCHANGED <<flags, asked>>
  <2>1. /\ task'.stage = "configure" /\ task'.work = Tail(task.work) /\ task'.scan = <<>>
        /\ task'.calls = Chosen(data_dep_connections, mine)
    BY <1>1, <1>9
  <2>2. InTask = {} /\ InTask' = mine
    BY <1>1, <1>3, <2>1, SmallLists DEF InTask
  <2>3. Pending' = Pending
    BY <1>2, <1>3, <1>5, <1>6, <2>2 DEF Pending, Listed
  <2>4. StageInv' /\ InSetup' /\ InSetup
    BY <1>1, <1>2, <1>3, <1>5, <1>7, <2>1 DEF StageInv, InSetup, OfCluster
  <2> QED BY <1>9, <2>3, <2>4, HeldMoving DEF Moving, flags, asked
<1> QED
  BY <1>2, <1>8, <1>9

LEMMA HeldTakePinnings ==
  ASSUME ListsInv, FlagsInv, StageInv, HeldInv, TakePinnings PROVE StageInv' /\ HeldInv'
<1>1. /\ task \in Tasks /\ task.stage \in {"configure", "pin"} /\ task.calls = <<>>
      /\ task.work = <<>> /\ task.scan = <<>>
      /\ DOMAIN task = {"stage", "calls", "work", "kyu", "name", "scan"}
  BY DEF ListsInv, TaskTyped, TakePinnings, AtStage, Tasks
<1>2. /\ task' = [task EXCEPT !.stage = "pin", !.work = type_pinnings] /\ type_pinnings' = <<>>
      /\ UNCHANGED <<connections, cluster_connections, data_dep_connections,
                     untyped_connections, flags, asked>>
  BY DEF TakePinnings
<1>3. /\ task'.stage = "pin" /\ task'.work = type_pinnings /\ task'.scan = <<>> /\ task'.calls = <<>>
  BY <1>1, <1>2
<1>4. ToSet(<<>>) = {} /\ Firsts({}) = {}
  BY SmallLists, FirstsParts
<1>5. InTask = {} /\ InTask' = Firsts(ToSet(type_pinnings))
  BY <1>1, <1>3, <1>4 DEF InTask
<1>6. Pending' = Pending
  BY <1>2, <1>4, <1>5 DEF Pending, Listed
<1>7. ToSet(data_dep_connections) = {} /\ ToSet(cluster_connections) = {}
  BY <1>1, <1>4 DEF StageInv
<1>8. StageInv' /\ InSetup' /\ InSetup
  BY <1>1, <1>2, <1>3, <1>7 DEF StageInv, InSetup, OfCluster
<1> QED
  BY <1>2, <1>6, <1>8, HeldMoving DEF Moving, flags, asked

LEMMA HeldPin ==
  ASSUME ListsInv, FlagsInv, StageInv, HeldInv, Pin PROVE StageInv' /\ HeldInv'
<1>1. /\ task \in Tasks /\ task.stage = "pin" /\ task.calls = <<>> /\ task.scan = <<>>
      /\ DOMAIN task = {"stage", "calls", "work", "kyu", "name", "scan"}
  BY DEF ListsInv, TaskTyped, Pin, AtStage, Tasks
<1>2. UNCHANGED lists /\ (Throw \/ (UNCHANGED <<flags, asked>> /\
                            \E k : task' = [task EXCEPT !.stage = "propagate", !.kyu = k]))
  BY DEF Pin
<1>3. CASE Throw
  BY <1>1, <1>2, <1>3, HeldThrow DEF lists, StageInv
<1>4. ASSUME NEW k, task' = [task EXCEPT !.stage = "propagate", !.kyu = k], UNCHANGED <<flags, asked>>
      PROVE  StageInv' /\ HeldInv'
  <2>1. /\ task'.stage = "propagate" /\ task'.work = task.work /\ task'.scan = <<>> /\ task'.calls = <<>>
    BY <1>1, <1>4
  <2>2. InTask' = InTask
    BY <1>1, <2>1 DEF InTask
  <2>3. Pending' = Pending
    BY <1>2, <2>2 DEF Pending, Listed, lists
  <2>4. StageInv' /\ InSetup' /\ InSetup
    BY <1>1, <1>2, <2>1 DEF StageInv, InSetup, OfCluster, lists
  <2> QED BY <1>4, <2>3, <2>4, HeldMoving DEF Moving, flags, asked
<1> QED
  BY <1>2, <1>3, <1>4


LEMMA HeldNextName ==
  ASSUME ListsInv, FlagsInv, StageInv, HeldInv, NextName PROVE StageInv' /\ HeldInv'
<1>1. /\ task \in Tasks /\ task.stage = "propagate" /\ task.calls = <<>> /\ task.scan = <<>>
      /\ DOMAIN task = {"stage", "calls", "work", "kyu", "name", "scan"}
  BY DEF ListsInv, TaskTyped, NextName, AtStage, Tasks
<1>2. /\ task' = [task EXCEPT !.name = Head(task.kyu), !.kyu = Tail(@), !.scan = untyped_connections]
      /\ untyped_connections' = <<>>
      /\ UNCHANGED <<connections, cluster_connections, data_dep_connections, type_pinnings, flags, asked>>
  BY DEF NextName
<1>3. /\ task'.stage = "propagate" /\ task'.work = task.work /\ task'.calls = <<>>
      /\ task'.scan = untyped_connections
  BY <1>1, <1>2
<1>4. ToSet(<<>>) = {}
  BY SmallLists
<1>5. /\ InTask = Firsts(ToSet(task.work))
      /\ InTask' = ToSet(untyped_connections) \cup Firsts(ToSet(task.work))
  BY <1>1, <1>3, <1>4 DEF InTask
<1>6. Pending' = Pending
  BY <1>2, <1>4, <1>5 DEF Pending, Listed
<1>7. StageInv' /\ InSetup' /\ InSetup
  BY <1>1, <1>2, <1>3 DEF StageInv, InSetup, OfCluster
<1> QED
  BY <1>2, <1>6, <1>7, HeldMoving DEF Moving, flags, asked

LEMMA HeldPropagate ==
  ASSUME ListsInv, FlagsInv, StageInv, HeldInv, Propagate PROVE StageInv' /\ HeldInv'
<1>1. /\ task \in Tasks /\ task.stage = "propagate" /\ task.calls = <<>> /\ task.scan # <<>>
      /\ task.scan \in Seq(Conn) /\ untyped_connections \in Seq(Conn)
      /\ DOMAIN task = {"stage", "calls", "work", "kyu", "name", "scan"}
  BY DEF ListsInv, ListsTyped, TaskTyped, Propagate, AtStage, Tasks
<1> DEFINE c == Head(task.scan)
<1>2. /\ untyped_connections' = untyped_connections \o Kept(c)
      /\ \/ Throw
         \/ ~Resolves(c) /\ task' = [task EXCEPT !.scan = Tail(@)] /\ UNCHANGED <<flags, asked>>
         \/ /\ Resolves(c) /\ UNCHANGED <<flags, asked>>
            /\ \E o : task' = [task EXCEPT !.scan = Tail(@), !.calls = <<c>>, !.kyu = Append(@, o)]
      /\ UNCHANGED <<connections, cluster_connections, data_dep_connections, type_pinnings>>
  BY DEF Propagate
<1>3. c \in Conn /\ Tail(task.scan) \in Seq(Conn) /\ ToSet(task.scan) = {c} \cup ToSet(Tail(task.scan))
  BY <1>1, SetOfList
<1> HIDE DEF c
<1>4. /\ ToSet(<<>>) = {} /\ ToSet(<<c>>) = {c}
      /\ ToSet(untyped_connections') = ToSet(untyped_connections) \cup ToSet(Kept(c))
  <2>1. Kept(c) \in Seq(Conn)
    BY <1>3, SmallLists DEF Kept
  <2>2. /\ untyped_connections \o Kept(c) \in Seq(Conn)
        /\ Elems(untyped_connections \o Kept(c)) = Elems(untyped_connections) \cup Elems(Kept(c))
    BY <1>1, <2>1, JoinedElements, JoinedPlaces
  <2>3. \A s \in Seq(Conn) : ToSet(s) = Elems(s)
    BY SetOfList
  <2> QED BY <1>1, <1>2, <1>3, <2>1, <2>2, <2>3, SmallLists
<1>5. CASE Throw
  BY <1>1, <1>2, <1>5, HeldThrow DEF StageInv
<1>6. InSetup /\ InTask = {c} \cup ToSet(Tail(task.scan)) \cup Firsts(ToSet(task.work))
  BY <1>1, <1>3, <1>4 DEF InTask, InSetup
<1>7. CASE ~Resolves(c) /\ task' = [task EXCEPT !.scan = Tail(@)] /\ UNCHANGED <<flags, asked>>
  <2>1. /\ task'.stage = "propagate" /\ task'.work = task.work /\ task'.scan = Tail(task.scan)
        /\ task'.calls = <<>>
    BY <1>1, <1>7
  <2>2. ToSet(Kept(c)) = {c}
    BY <1>4, <1>7 DEF Kept
  <2>3. InTask' = ToSet(Tail(task.scan)) \cup Firsts(ToSet(task.work))
    BY <1>4, <2>1 DEF InTask
  <2>4. Pending' = Pending
    BY <1>2, <1>4, <1>6, <2>2, <2>3 DEF Pending, Listed
  <2>5. StageInv' /\ InSetup'
    BY <1>1, <1>2, <2>1 DEF StageInv, InSetup, OfCluster
  <2> QED BY <1>6, <1>7, <2>4, <2>5, HeldMoving DEF Moving, flags, asked
<1>8. ASSUME Resolves(c), UNCHANGED <<flags, asked>>, NEW o,
             task' = [task EXCEPT !.scan = Tail(@), !.calls = <<c>>, !.kyu = Append(@, o)]
      PROVE  StageInv' /\ HeldInv'
  <2>1. /\ task'.stage = "propagate" /\ task'.work = task.work /\ task'.scan = Tail(task.scan)
        /\ task'.calls = <<c>>
    BY <1>1, <1>8
  <2>2. ToSet(Kept(c)) = {}
    BY <1>4, <1>8 DEF Kept
  <2>3. InTask' = {c} \cup ToSet(Tail(task.scan)) \cup Firsts(ToSet(task.work))
    BY <1>4, <2>1 DEF InTask
  <2>4. Pending' = Pending
    BY <1>2, <1>4, <1>6, <2>2, <2>3 DEF Pending, Listed
  <2>5. StageInv' /\ InSetup'
    BY <1>1, <1>2, <2>1 DEF StageInv, InSetup, OfCluster
  <2> QED BY <1>6, <1>8, <2>4, <2>5, HeldMoving DEF Moving, flags, asked
<1> QED
  BY <1>2, <1>5, <1>7, <1>8

LEMMA HeldRetryPinned ==
  ASSUME ListsInv, FlagsInv, StageInv, HeldInv, RetryPinned PROVE StageInv' /\ HeldInv'
<1>1. /\ task \in Tasks /\ task.stage = "propagate" /\ task.calls = <<>> /\ task.scan = <<>>
      /\ task.work \in Seq(Pinning) /\ task.work # <<>>
      /\ DOMAIN task = {"stage", "calls", "work", "kyu", "name", "scan"}
  BY DEF ListsInv, TaskTyped, RetryPinned, AtStage, Tasks
<1> DEFINE x == Head(task.work)
<1>2. /\ task' = [task EXCEPT !.stage = "pin", !.calls = <<x[1]>>, !.work = Tail(@)]
      /\ UNCHANGED <<lists, flags, asked>>
  BY DEF RetryPinned
<1>3. x \in Pinning /\ ToSet(task.work) = {x} \cup ToSet(Tail(task.work))
  BY <1>1, SetOfList
<1> HIDE DEF x
<1>4. x[1] \in Conn
  BY <1>3, TheTypes
<1>5. /\ task'.stage = "pin" /\ task'.work = Tail(task.work) /\ task'.scan = <<>>
      /\ task'.calls = <<x[1]>>
  BY <1>1, <1>2
<1>6. ToSet(<<>>) = {} /\ ToSet(<<x[1]>>) = {x[1]}
      /\ Firsts(ToSet(task.work)) = {x[1]} \cup Firsts(ToSet(Tail(task.work)))
  <2>1. Firsts({x} \cup ToSet(Tail(task.work))) = Firsts({x}) \cup Firsts(ToSet(Tail(task.work)))
    BY FirstsParts
  <2>2. Firsts({x}) = {x[1]}
    BY FirstsParts
  <2>3. ToSet(<<>>) = {} /\ ToSet(<<x[1]>>) = {x[1]}
    BY <1>4, SmallLists
  <2> QED BY <1>3, <2>1, <2>2, <2>3
<1>7. /\ InTask = {x[1]} \cup Firsts(ToSet(Tail(task.work)))
      /\ InTask' = {x[1]} \cup Firsts(ToSet(Tail(task.work)))
  BY <1>1, <1>5, <1>6 DEF InTask
<1>8. Pending' = Pending
  BY <1>2, <1>7 DEF Pending, Listed, lists
<1>9. StageInv' /\ InSetup' /\ InSetup
  BY <1>1, <1>2, <1>5 DEF StageInv, InSetup, OfCluster, lists
<1> QED
  BY <1>2, <1>8, <1>9, HeldMoving DEF Moving, flags, asked

LEMMA HeldReconnect ==
  ASSUME ListsInv, FlagsInv, StageInv, HeldInv, Reconnect PROVE StageInv' /\ HeldInv'
<1> DEFINE c == Head(task.calls)
<1>1. /\ task \in Tasks /\ task.calls \in Seq(Conn) /\ task.calls # <<>> /\ task.stage # "idle"
      /\ task.stage \in Stages
      /\ DOMAIN task = {"stage", "calls", "work", "kyu", "name", "scan"}
  BY DEF ListsInv, TaskTyped, Tasks, Reconnect
<1>2. /\ c \in Conn /\ Tail(task.calls) \in Seq(Conn)
      /\ ToSet(task.calls) = {c} \cup ToSet(Tail(task.calls)) /\ c \in ToSet(task.calls)
  BY <1>1, SetOfList
<1>3. /\ Connect(c)
      /\ \/ Refused(c) /\ Throw
         \/ /\ ~Refused(c) /\ task' = [task EXCEPT !.calls = Tail(@)]
            /\ accepted' = IF task.stage = "replay" THEN accepted \cup {c} ELSE accepted
            /\ UNCHANGED <<flags, planned_connections, failed>>
  BY DEF Reconnect
<1> HIDE DEF c
<1>4. /\ Listed' = IF Refused(c) THEN Listed ELSE Listed \cup {c}
      /\ task'.stage = task.stage /\ task'.work = task.work => StageInv'
  BY <1>2, <1>3, ListedConnected
<1>5. CASE Refused(c) /\ Throw
  <2>1. \A d \in ToSet(connections') : ~OfCluster(d)
    <3>1. SortedIn(c)
      BY <1>2, <1>3, Connecting
    <3> QED BY <3>1 DEF SortedIn, ToCluster, ToDataDep, ToUntyped, ToPinnings, ToConnections, Nowhere, Gains,
                    StageInv
  <2> QED BY <1>1, <1>5, <2>1, HeldThrow
<1>6. CASE /\ ~Refused(c) /\ task' = [task EXCEPT !.calls = Tail(@)]
           /\ accepted' = IF task.stage = "replay" THEN accepted \cup {c} ELSE accepted
           /\ UNCHANGED <<flags, planned_connections, failed>>
  <2>1. /\ task'.stage = task.stage /\ task'.work = task.work /\ task'.scan = task.scan
        /\ task'.calls = Tail(task.calls)
    BY <1>1, <1>6
  <2>2. PICK rest : /\ InTask = {c} \cup ToSet(Tail(task.calls)) \cup rest
                    /\ InTask' = ToSet(Tail(task.calls)) \cup rest
    <3> DEFINE rest == ToSet(task.scan) \cup
                       (IF task.stage = "map" THEN ToSet(task.work) ELSE {}) \cup
                       (IF task.stage \in {"pin", "propagate"} THEN Firsts(ToSet(task.work)) ELSE {})
    <3>1. InTask = ToSet(task.calls) \cup rest /\ InTask' = ToSet(task'.calls) \cup rest
      BY <2>1 DEF InTask
    <3> HIDE DEF rest
    <3> QED BY <1>2, <2>1, <3>1
  <2>3. Pending' = Pending /\ Listed' = Listed \cup {c} /\ StageInv'
    BY <1>4, <1>6, <2>1, <2>2 DEF Pending
  <2>4. CASE task.stage = "replay"
    <3>1. ~setup_successful /\ setup' = setup /\ setup_successful' = setup_successful
      BY <1>1, <1>6 DEF FlagsInv, flags
    <3>2. ~failed => /\ accepted \subseteq ToSet(planned_connections)
                     /\ ToSet(task.calls) \subseteq ToSet(planned_connections)
                     /\ Pending = accepted \cup ToSet(task.calls)
      BY <2>4 DEF HeldInv
    <3>3. ~failed => /\ accepted' \subseteq ToSet(planned_connections')
                     /\ ToSet(task'.calls) \subseteq ToSet(planned_connections')
                     /\ Pending' = accepted' \cup ToSet(task'.calls)
      BY <1>2, <1>6, <2>1, <2>3, <2>4, <3>2
    <3> QED BY <1>6, <2>1, <2>3, <2>4, <3>1, <3>3 DEF HeldInv, InSetup
  <2>5. CASE task.stage # "replay"
    BY <1>1, <1>6, <2>1, <2>3, <2>5, HeldMoving DEF Moving, InSetup, flags
  <2> QED BY <2>4, <2>5
<1> QED
  BY <1>3, <1>5, <1>6


LEMMA HeldAskFor ==
  ASSUME ListsInv, FlagsInv, StageInv, HeldInv, NEW c \in Wanted, AskFor(c)
  PROVE  StageInv' /\ HeldInv'
<1>1. /\ c \in Conn /\ Connect(c) /\ task.stage = "idle" /\ task' = task
      /\ planned_connections' =
           IF setup_in_progress THEN planned_connections ELSE Append(planned_connections, c)
      /\ accepted' = IF Refused(c) THEN accepted ELSE accepted \cup {c}
      /\ setup => setup_in_progress
      /\ UNCHANGED <<flags, failed>>
  BY TheTypes DEF AskFor, Idle
<1>2. /\ ~setup /\ ~setup_successful
  BY <1>1 DEF FlagsInv
<1>3. /\ Listed' = IF Refused(c) THEN Listed ELSE Listed \cup {c}
      /\ StageInv'
  BY <1>1, ListedConnected
<1>4. InTask' = InTask
  BY <1>1 DEF InTask
<1>5. Pending' = IF Refused(c) THEN Pending ELSE Pending \cup {c}
  BY <1>3, <1>4 DEF Pending
<1>6. ~failed /\ ~setup_in_progress =>
        ToSet(planned_connections') = ToSet(planned_connections) \cup {c}
  BY <1>1, SetOfList DEF ListsInv, ListsTyped
<1>7. ~failed => ~setup_in_progress
  BY <1>1, <1>2 DEF HeldInv
<1>8. HeldInv'
  BY <1>1, <1>2, <1>5, <1>6, <1>7 DEF HeldInv, InSetup, flags
<1> QED
  BY <1>3, <1>8

LEMMA HeldDisconnect ==
  ASSUME NeverPinned, ListsInv, FlagsInv, StageInv, HeldInv, NEW c \in Wanted, Disconnect(c)
  PROVE  StageInv' /\ HeldInv'
<1>1. /\ c \in Conn /\ c \in MayDisconnect /\ task.stage = "idle" /\ task' = task /\ ~setup
      /\ planned_connections' = Without(planned_connections, c)
      /\ connections' = Without(connections, c)
      /\ data_dep_connections' = Without(data_dep_connections, c)
      /\ untyped_connections' = Without(untyped_connections, c)
      /\ cluster_connections' = Without(cluster_connections, c)
      /\ accepted' = accepted \ {c} /\ type_pinnings' = type_pinnings
      /\ UNCHANGED <<flags, failed>>
      /\ task.calls = <<>> /\ task.scan = <<>>
  BY TheTypes DEF Disconnect, Idle
<1>2. \A s \in Seq(Conn) : ToSet(Without(s, c)) = ToSet(s) \ {c}
  <2> SUFFICES ASSUME NEW s \in Seq(Conn) PROVE ToSet(Without(s, c)) = ToSet(s) \ {c}
    OBVIOUS
  <2>1. ToSet(Without(s, c)) = ToSet(s) \cap (ToSet(s) \ {c})
    BY SetOfList DEF Without
  <2> QED BY <2>1
<1>3. /\ ToSet(planned_connections') = ToSet(planned_connections) \ {c}
      /\ ToSet(connections') = ToSet(connections) \ {c}
      /\ ToSet(data_dep_connections') = ToSet(data_dep_connections) \ {c}
      /\ ToSet(untyped_connections') = ToSet(untyped_connections) \ {c}
      /\ ToSet(cluster_connections') = ToSet(cluster_connections) \ {c}
  BY <1>1, <1>2 DEF ListsInv, ListsTyped
<1>4. c \notin Firsts(ToSet(type_pinnings))
  <2>1. ASSUME NEW x \in ToSet(type_pinnings), x[1] = c PROVE FALSE
    <3>1. ~OfCluster(c) /\ Open(PinPort(x))
      BY <2>1 DEF ListsInv, KindsKnown, Pinned_
    <3>2. PinPort(x) \in {c[1], c[2]}
      BY <2>1 DEF PinPort
    <3> QED BY <1>1, <3>1, <3>2 DEF NeverPinned
  <2> QED BY <2>1 DEF Firsts
<1>5. InTask = {} /\ InTask' = {}
  BY <1>1, SmallLists DEF InTask
<1>6. Pending' = Pending \ {c}
  BY <1>1, <1>3, <1>4, <1>5 DEF Pending, Listed
<1>7. StageInv'
  BY <1>1, <1>3 DEF StageInv, OfCluster
<1>8. ~setup_successful
  BY <1>1 DEF FlagsInv
<1>9. HeldInv'
  BY <1>1, <1>3, <1>6, <1>8 DEF HeldInv, InSetup, flags
<1> QED
  BY <1>7, <1>9

LEMMA HeldSetupPipeline ==
  ASSUME ListsInv, FlagsInv, StageInv, HeldInv, SetupPipeline PROVE StageInv' /\ HeldInv'
<1>1. /\ task' = [Idle EXCEPT !.stage = "map", !.work = cluster_connections]
      /\ cluster_connections' = <<>> /\ task.stage = "idle" /\ ~setup
      /\ task.calls = <<>> /\ task.scan = <<>> /\ setup_successful' = FALSE
      /\ UNCHANGED <<planned_connections, accepted, failed, connections, data_dep_connections,
                     untyped_connections, type_pinnings>>
  BY DEF SetupPipeline, asked, Idle
<1>2. /\ task'.stage = "map" /\ task'.work = cluster_connections /\ task'.calls = <<>>
      /\ task'.scan = <<>>
  BY <1>1 DEF Idle
<1>3. InTask = {} /\ InTask' = ToSet(cluster_connections)
  BY <1>1, <1>2, SmallLists DEF InTask
<1>4. Pending' = Pending
  BY <1>1, <1>3, SmallLists DEF Pending, Listed
<1>5. StageInv'
  BY <1>1, <1>2 DEF StageInv, OfCluster
<1>6. ~failed => accepted \subseteq ToSet(planned_connections) /\ Pending = accepted
  BY <1>1 DEF HeldInv
<1>7. ~failed' => /\ accepted' \subseteq ToSet(planned_connections') /\ Pending' = accepted'
  BY <1>1, <1>4, <1>6
<1>8. Flat(Pending)' = Flat(Pending') /\ Flat(accepted)' = Flat(accepted')
  BY DEF Flat, Leaves, Whole
<1>9. HeldInv'
  BY <1>1, <1>2, <1>7, <1>8 DEF HeldInv
<1> QED
  BY <1>5, <1>9

LEMMA HeldFinishSetup ==
  ASSUME ListsInv, FlagsInv, StageInv, HeldInv, FinishSetup PROVE StageInv' /\ HeldInv'
<1>1. /\ task.stage = "pin" /\ task.calls = <<>> /\ task.work = <<>> /\ type_pinnings = <<>>
      /\ task.scan = <<>> /\ UNCHANGED lists /\ connections \in Seq(Conn)
      /\ InSetup
  BY DEF FinishSetup, AtStage, InSetup, ListsInv, ListsTyped, TaskTyped
<1>2. CASE Throw
  BY <1>1, <1>2, HeldThrow DEF StageInv, lists
<1>3. CASE ~Throw
  <2>1. /\ untyped_connections = <<>> /\ make_connections /\ task' = Idle
        /\ UNCHANGED <<setup, accepted, planned_connections, failed>>
    BY <1>3 DEF FinishSetup, asked
  <2>2. task'.stage = "idle" /\ setup
    BY <1>1, <2>1 DEF Idle, FlagsInv, InSetup
  <2>3. IsInjective(connections)
    BY <2>1 DEF make_connections, IsInjective
  <2>4. Pending = ToSet(connections)
    <3>1. InTask = {}
      BY <1>1, SmallLists, FirstsParts DEF InTask
    <3>2. ToSet(cluster_connections) = {} /\ ToSet(data_dep_connections) = {}
      BY <1>1 DEF StageInv
    <3> QED BY <1>1, <2>1, <3>1, <3>2, SmallLists, FirstsParts DEF Pending, Listed
  <2>5. Flat(ToSet(connections)) = ToSet(connections)
    <3>1. ToSet(connections) \in SUBSET Conn
      BY <1>1, SetOfList
    <3> QED BY <3>1, FlatOfProcesses DEF StageInv
  <2>6. ~failed => /\ accepted \subseteq ToSet(planned_connections)
                   /\ ToSet(connections) = Flat(accepted)
    BY <1>1, <2>4, <2>5 DEF HeldInv
  <2>7. ~failed' => /\ accepted' \subseteq ToSet(planned_connections')
                    /\ ToSet(connections') = Flat(accepted') /\ IsInjective(connections')
    BY <1>1, <2>1, <2>3, <2>6 DEF lists
  <2>8. Flat(accepted)' = Flat(accepted') /\ IsInjective(connections)' = IsInjective(connections')
    BY DEF Flat, Leaves, Whole, IsInjective
  <2>9. StageInv'
    BY <1>1, <2>2 DEF StageInv, OfCluster, lists
  <2>10. HeldInv'
    BY <2>1, <2>2, <2>7, <2>8 DEF HeldInv, InSetup
  <2> QED BY <2>9, <2>10
<1> QED
  BY <1>2, <1>3

LEMMA HeldReset ==
  ASSUME ListsInv, FlagsInv, StageInv, HeldInv, Reset PROVE StageInv' /\ HeldInv'
<1>1. /\ connections' = <<>> /\ cluster_connections' = <<>> /\ data_dep_connections' = <<>>
      /\ untyped_connections' = <<>> /\ type_pinnings' = <<>> /\ setup_successful' = FALSE
      /\ task' = [Idle EXCEPT !.stage = "replay", !.calls = planned_connections]
      /\ UNCHANGED <<planned_connections, accepted, failed>>
  BY DEF Reset
<1>2. /\ task'.stage = "replay" /\ task'.calls = planned_connections /\ task'.scan = <<>>
  BY <1>1 DEF Idle
<1>3. Listed' = {} /\ InTask' = ToSet(planned_connections)
  BY <1>1, <1>2, SmallLists, FirstsParts DEF Listed, InTask
<1>4. StageInv'
  BY <1>1, <1>2, SmallLists DEF StageInv
<1>5. ~failed => accepted \subseteq ToSet(planned_connections)
  BY DEF HeldInv
<1>6. ~failed' => /\ accepted' \subseteq ToSet(planned_connections')
                  /\ ToSet(task'.calls) = ToSet(planned_connections')
                  /\ Pending' = accepted' \cup ToSet(task'.calls)
  BY <1>1, <1>2, <1>3, <1>5 DEF Pending
<1>7. HeldInv'
  BY <1>1, <1>2, <1>6 DEF HeldInv, InSetup
<1> QED
  BY <1>4, <1>7

LEMMA HeldOthers ==
  ASSUME ListsInv, FlagsInv, StageInv, HeldInv, EndReset \/ Start \/ Stop \/ UNCHANGED vars
  PROVE  StageInv' /\ HeldInv'
<1>2. CASE EndReset
  <2>1. /\ task.stage = "replay" /\ task.calls = <<>> /\ task' = Idle /\ ~setup_successful
        /\ task.scan = <<>> /\ setup_in_progress' = FALSE
        /\ UNCHANGED <<lists, accepted, planned_connections, failed, setup_successful, setup>>
    BY <1>2 DEF EndReset, AtStage, asked, FlagsInv, ListsInv, TaskTyped
  <2>2. task'.stage = "idle" /\ task'.calls = <<>> /\ task'.scan = <<>>
    BY <2>1 DEF Idle
  <2>3. InTask = {} /\ InTask' = {} /\ ToSet(task.calls) = {}
    BY <2>1, <2>2, SmallLists DEF InTask
  <2>4. Pending' = Pending
    BY <2>1, <2>3 DEF Pending, Listed, lists
  <2>5. StageInv'
    BY <2>1, <2>2 DEF StageInv, OfCluster, lists
  <2>6. HeldInv'
    BY <2>1, <2>2, <2>3, <2>4 DEF HeldInv, InSetup
  <2> QED BY <2>5, <2>6
<1>3. CASE Start \/ Stop \/ UNCHANGED vars
  <2>1. UNCHANGED <<lists, accepted, planned_connections, failed, setup_successful, setup,
                    setup_in_progress, task>>
    BY <1>3 DEF Start, Stop, vars, asked, flags
  <2>2. Pending' = Pending /\ InSetup' = InSetup
    BY <2>1 DEF Pending, Listed, InTask, lists, InSetup
  <2>3. StageInv'
    BY <2>1 DEF StageInv, OfCluster, lists
  <2>4. Flat(Pending)' = Flat(Pending') /\ Flat(accepted)' = Flat(accepted')
        /\ IsInjective(connections)' = IsInjective(connections')
    BY DEF Flat, Leaves, Whole, IsInjective
  <2>5. HeldInv'
    BY <2>1, <2>2, <2>4 DEF HeldInv, lists
  <2> QED BY <2>3, <2>5
<1> QED
  BY <1>2, <1>3

LEMMA HeldNext ==
  ASSUME NeverPinned, ListsInv, FlagsInv, StageInv, HeldInv, [Next]_vars
  PROVE  StageInv' /\ HeldInv'
BY HeldAskFor, HeldDisconnect, HeldSetupPipeline, HeldReconnect, HeldMapCluster, HeldConfigure,
   HeldTakePinnings, HeldPin, HeldNextName, HeldPropagate, HeldRetryPinned, HeldFinishSetup,
   HeldReset, HeldOthers DEF Next, Setup

LEMMA HeldInit ==
  ASSUME Init PROVE StageInv /\ HeldInv
<1>1. /\ planned_connections = <<>> /\ connections = <<>> /\ cluster_connections = <<>>
      /\ data_dep_connections = <<>> /\ untyped_connections = <<>> /\ type_pinnings = <<>>
      /\ accepted = {} /\ ~setup_successful /\ ~setup_in_progress /\ task = Idle
  BY DEF Init
<1>2. task.stage = "idle" /\ task.calls = <<>> /\ task.scan = <<>>
  BY <1>1 DEF Idle
<1>3. Pending = {}
  BY <1>1, <1>2, SmallLists, FirstsParts DEF Pending, Listed, InTask
<1> QED
  BY <1>1, <1>2, <1>3, SmallLists DEF StageInv, HeldInv, InSetup

(* For any processes, clusters and types: after however many changes of    *)
(* the connections, stages of set-up that hand them from list to list, and *)
(* resets that replay them, a pipeline that is set up has the connections  *)
(* that were accepted, no more and no fewer.                               *)
THEOREM NoConnectionLost == NeverPinned => (Spec => []NothingLost)
<1> SUFFICES ASSUME NeverPinned PROVE Spec => []NothingLost
  OBVIOUS
<1> DEFINE I == ListsInv /\ FlagsInv /\ StageInv /\ HeldInv
<1>1. Init => I
  BY ListsInit, FlagsInit, HeldInit
<1>2. I /\ [Next]_vars => I'
  BY ListsNext, FlagsNext, HeldNext
<1>3. I => NothingLost
  BY DEF HeldInv, NothingLost
<1> QED
  BY <1>1, <1>2, <1>3, PTL DEF Spec

(* Under the same hypothesis nothing that was taken back stays connected:  *)
(* the finding about disconnect is about pinned connections only.          *)
THEOREM TakenBackIsGone == NeverPinned => (Spec => []StaysDisconnected)
<1> SUFFICES ASSUME NeverPinned PROVE Spec => []StaysDisconnected
  OBVIOUS
<1>1. Spec => []NothingLost
  BY NoConnectionLost
<1>2. NothingLost => StaysDisconnected
  BY DEF NothingLost, StaysDisconnected
<1> QED
  BY <1>1, <1>2, PTL

-----------------------------------------------------------------------------
(* How often a list has elements of a set.                                 *)

Places(s, S) == {i \in 1..Len(s) : s[i] \in S}
Hits(s, S)   == Cardinality(Places(s, S))

LEMMA HitsCount ==
  ASSUME NEW T, NEW s \in Seq(T), NEW S PROVE IsFiniteSet(Places(s, S)) /\ Hits(s, S) \in Nat
<1>1. Len(s) \in Nat
  BY LenProperties
<1>2. IsFiniteSet(1..Len(s)) /\ Places(s, S) \subseteq 1..Len(s)
  BY <1>1, FS_Interval DEF Places
<1>3. IsFiniteSet(Places(s, S))
  BY <1>2, FS_Subset
<1> QED
  BY <1>3, FS_CardinalityType DEF Hits

LEMMA HitsNone ==
  /\ \A S : Hits(<<>>, S) = 0
  /\ \A x : \A S : Hits(<<x>>, S) = IF x \in S THEN 1 ELSE 0
<1>1. ASSUME NEW S PROVE Hits(<<>>, S) = 0
  <2>1. Places(<<>>, S) = {}
    BY DEF Places
  <2> QED BY <2>1, FS_EmptySet DEF Hits
<1>2. ASSUME NEW x, NEW S PROVE Hits(<<x>>, S) = IF x \in S THEN 1 ELSE 0
  <2>1. Places(<<x>>, S) = IF x \in S THEN {1} ELSE {}
    BY DEF Places
  <2> QED BY <2>1, FS_EmptySet, FS_Singleton DEF Hits
<1> QED
  BY <1>1, <1>2

LEMMA HitsAppend ==
  ASSUME NEW T, NEW s \in Seq(T), NEW x \in T, NEW S
  PROVE  Hits(Append(s, x), S) = Hits(s, S) + (IF x \in S THEN 1 ELSE 0)
<1> DEFINE n == Len(s)
           a == Append(s, x)
<1>1. n \in Nat /\ Len(a) = n + 1 /\ a[n + 1] = x /\ \A i \in 1..n : a[i] = s[i]
  BY SomeLists
<1>2. IsFiniteSet(Places(s, S)) /\ Hits(s, S) \in Nat
  BY HitsCount
<1> HIDE DEF n, a
<1>3. Places(s, S) = {i \in 1..n : s[i] \in S} /\ Places(a, S) = {i \in 1..(n + 1) : a[i] \in S}
  BY <1>1 DEF Places, n
<1>4. Places(a, S) = IF x \in S THEN Places(s, S) \cup {n + 1} ELSE Places(s, S)
  <2>1. 1..(n + 1) = 1..n \cup {n + 1} /\ n + 1 \notin 1..n
    BY <1>1
  <2> QED BY <1>1, <1>3, <2>1
<1>5. n + 1 \notin Places(s, S)
  BY <1>1, <1>3
<1>6. Hits(a, S) = Hits(s, S) + (IF x \in S THEN 1 ELSE 0)
  <2>1. Cardinality(Places(s, S) \cup {n + 1}) = Cardinality(Places(s, S)) + 1
    BY <1>2, <1>5, FS_AddElement
  <2>2. Hits(s, S) = Cardinality(Places(s, S)) /\ Hits(a, S) = Cardinality(Places(a, S))
    BY DEF Hits
  <2> QED BY <1>2, <1>4, <2>1, <2>2
<1> QED
  BY <1>6 DEF a

LEMMA Renumbered ==
  ASSUME NEW X, NEW Y, IsFiniteSet(X), NEW f \in [X -> Y],
         \A i, j \in X : f[i] = f[j] => i = j, \A y \in Y : \E i \in X : f[i] = y
  PROVE  IsFiniteSet(Y) /\ Cardinality(Y) = Cardinality(X)
<1>1. f \in Bijection(X, Y)
  BY DEF Bijection, Injection, Surjection, IsInjective
<1> QED
  BY <1>1, FS_Bijection DEF ExistsBijection

LEMMA HitsHead ==
  ASSUME NEW T, NEW s \in Seq(T), s # <<>>, NEW S
  PROVE  Hits(s, S) = Hits(Tail(s), S) + (IF Head(s) \in S THEN 1 ELSE 0)
<1> DEFINE n == Len(s)
           r == Tail(s)
           P == Places(r, S)
           Q == {i \in 2..n : s[i] \in S}
<1>1. /\ n \in Nat /\ n >= 1 /\ Len(r) = n - 1 /\ \A i \in 1..(n - 1) : r[i] = s[i + 1]
      /\ Head(s) = s[1] /\ r \in Seq(T)
  BY SomeLists
<1>2. IsFiniteSet(P) /\ Hits(r, S) \in Nat
  BY <1>1, HitsCount
<1> HIDE DEF n, r
<1>3. P = {i \in 1..(n - 1) : s[i + 1] \in S}
  BY <1>1 DEF Places
<1> HIDE DEF P
<1>4. IsFiniteSet(Q) /\ Cardinality(Q) = Cardinality(P)
  <2> DEFINE f == [i \in P |-> i + 1]
  <2>1. P \subseteq Nat
    BY <1>3
  <2>2. \A i \in P : i + 1 \in Q
    BY <1>1, <1>3
  <2>3. \A y \in Q : y - 1 \in P /\ (y - 1) + 1 = y
    BY <1>1, <1>3
  <2> HIDE DEF Q
  <2>4. /\ f \in [P -> Q] /\ \A i, j \in P : f[i] = f[j] => i = j
    BY <2>1, <2>2
  <2>5. \A y \in Q : \E i \in P : f[i] = y
    BY <2>1, <2>3
  <2> HIDE DEF f
  <2> QED BY <1>2, <2>4, <2>5, Renumbered
<1>5. Places(s, S) = IF Head(s) \in S THEN Q \cup {1} ELSE Q
  <2>1. 1..n = 2..n \cup {1}
    BY <1>1
  <2>2. Places(s, S) = {i \in 1..n : s[i] \in S}
    BY DEF Places, n
  <2> QED BY <1>1, <2>1, <2>2
<1>6. 1 \notin Q
  BY <1>1
<1> HIDE DEF Q
<1>7. Cardinality(P) = Hits(r, S)
  BY DEF P, Hits
<1>8. Hits(s, S) = Hits(r, S) + (IF Head(s) \in S THEN 1 ELSE 0)
  <2>1. Cardinality(Q \cup {1}) = Cardinality(Q) + 1
    BY <1>4, <1>6, FS_AddElement
  <2>2. Hits(s, S) = Cardinality(Places(s, S))
    BY DEF Hits
  <2> QED BY <1>2, <1>4, <1>5, <1>7, <2>1, <2>2
<1> QED
  BY <1>8 DEF r

LEMMA HitsChosen ==
  ASSUME NEW T, NEW s \in Seq(T), NEW A, NEW S
  PROVE  Hits(Chosen(s, A), S) = Hits(s, A \cap S)
<1>1. PICK to : /\ to[0] = <<>> /\ Chosen(s, A) = to[Len(s)]
                /\ \A i \in 0..(Len(s) - 1) :
                     /\ s[i + 1] \in A => to[i + 1] = Append(to[i], s[i + 1])
                     /\ s[i + 1] \notin A => to[i + 1] = to[i]
  BY ONLY s \in Seq(T), ChosenRecursion, SMTT(30)
<1>2. Len(s) \in Nat /\ \A i \in 1..Len(s) : s[i] \in T
  BY SomeLists
<1> DEFINE F(n) == {i \in 1..n : s[i] \in A \cap S}
           G    == {n \in Nat : to[n] \in Seq(T) /\ IsFiniteSet(F(n)) /\ Hits(to[n], S) = Cardinality(F(n))}
<1>3. 0 \in G
  <2>1. F(0) = {} /\ <<>> \in Seq(T)
    OBVIOUS
  <2> QED BY <1>1, <2>1, HitsNone, FS_EmptySet
<1>4. ASSUME NEW k \in 0..(Len(s) - 1), k \in G PROVE k + 1 \in G
  <2>1. k \in Nat /\ k + 1 \in 1..Len(s) /\ s[k + 1] \in T
    BY <1>2
  <2>2. F(k + 1) = IF s[k + 1] \in A \cap S THEN F(k) \cup {k + 1} ELSE F(k)
    <3>1. 1..(k + 1) = 1..k \cup {k + 1}
      BY <2>1
    <3> QED BY <3>1
  <2>3. k + 1 \notin F(k)
    BY <2>1
  <2>4. to[k] \in Seq(T) /\ IsFiniteSet(F(k)) /\ Hits(to[k], S) = Cardinality(F(k))
    BY <1>4
  <2>5. Cardinality(F(k)) \in Nat
    BY <2>4, FS_CardinalityType
  <2> HIDE DEF F
  <2>6. /\ IsFiniteSet(F(k + 1))
        /\ Cardinality(F(k + 1)) = Cardinality(F(k)) + (IF s[k + 1] \in A \cap S THEN 1 ELSE 0)
    BY <2>2, <2>3, <2>4, <2>5, FS_AddElement
  <2>7. /\ to[k + 1] \in Seq(T)
        /\ Hits(to[k + 1], S) = Hits(to[k], S) + (IF s[k + 1] \in A \cap S THEN 1 ELSE 0)
    <3>1. CASE s[k + 1] \in A
      <4>1. to[k + 1] = Append(to[k], s[k + 1])
        BY <1>1, <3>1
      <4>2. Append(to[k], s[k + 1]) \in Seq(T)
        BY <2>1, <2>4, AppendProperties
      <4>3. Hits(Append(to[k], s[k + 1]), S) = Hits(to[k], S) + (IF s[k + 1] \in S THEN 1 ELSE 0)
        BY <2>1, <2>4, HitsAppend
      <4> QED BY <3>1, <4>1, <4>2, <4>3
    <3>2. CASE s[k + 1] \notin A
      <4>1. to[k + 1] = to[k]
        BY <1>1, <3>2
      <4> QED BY <2>4, <2>5, <3>2, <4>1
    <3> QED BY <3>1, <3>2
  <2> QED BY <2>1, <2>4, <2>6, <2>7
<1> HIDE DEF G
<1>5. \A k \in 0..Len(s) : k \in G
  BY <1>2, <1>3, <1>4, UpTo
<1>6. Len(s) \in G
  BY <1>2, <1>5
<1>7. Hits(Chosen(s, A), S) = Cardinality(F(Len(s)))
  BY <1>1, <1>6 DEF G
<1>8. F(Len(s)) = Places(s, A \cap S)
  BY DEF Places
<1> QED
  BY <1>7, <1>8 DEF Hits

LEMMA OneAtMost ==
  ASSUME NEW X, IsFiniteSet(X)
  PROVE  /\ Cardinality(X) \in Nat
         /\ Cardinality(X) <= 1 <=> \A x, y \in X : x = y
         /\ X # {} => Cardinality(X) >= 1
<1>1. Cardinality(X) \in Nat /\ (Cardinality(X) = 0 <=> X = {}) /\ (Cardinality(X) = 1 <=> \E x : X = {x})
  BY FS_CardinalityType, FS_EmptySet, FS_Singleton
<1>2. Cardinality(X) <= 1 <=> Cardinality(X) = 0 \/ Cardinality(X) = 1
  BY <1>1
<1>3. ASSUME \A x, y \in X : x = y PROVE Cardinality(X) <= 1
  <2>1. X = {} \/ \E x : X = {x}
    BY <1>3
  <2> QED BY <1>1, <1>2, <2>1
<1>4. ASSUME Cardinality(X) <= 1 PROVE \A x, y \in X : x = y
  BY <1>1, <1>2, <1>4
<1> QED
  BY <1>1, <1>3, <1>4

LEMMA HitsParted ==
  ASSUME NEW T, NEW s \in Seq(T), NEW A, NEW S
  PROVE  Hits(Chosen(s, A), S) + Hits(Chosen(s, ToSet(s) \ A), S) = Hits(s, S)
<1> DEFINE P == Places(s, A \cap S)
           Q == Places(s, (ToSet(s) \ A) \cap S)
<1>1. Hits(Chosen(s, A), S) = Cardinality(P) /\ Hits(Chosen(s, ToSet(s) \ A), S) = Cardinality(Q)
  BY HitsChosen DEF Hits
<1>2. IsFiniteSet(P) /\ IsFiniteSet(Q) /\ Cardinality(P) \in Nat /\ Cardinality(Q) \in Nat
  BY HitsCount DEF Hits
<1>3. P \cup Q = Places(s, S) /\ P \cap Q = {}
  <2>1. \A i \in 1..Len(s) : s[i] \in ToSet(s)
    BY LenProperties DEF ToSet
  <2> QED BY <2>1 DEF Places
<1> HIDE DEF P, Q
<1>4. Cardinality(P \cup Q) = Cardinality(P) + Cardinality(Q) - Cardinality(P \cap Q)
  BY <1>2, FS_Union
<1>5. Cardinality(P \cap Q) = 0
  BY <1>3, FS_EmptySet
<1>6. Hits(s, S) = Cardinality(P \cup Q)
  BY <1>3 DEF Hits
<1> QED
  BY <1>1, <1>2, <1>4, <1>5, <1>6

(* The ports of an input of a cluster stand for different ports.           *)
MappedOnce ==
  \A p \in Inputs : Owner[p] \in Clusters =>
    \A i, j \in DOMAIN Mapping[p] : i # j => Leaves[Mapping[p][i]] \cap Leaves[Mapping[p][j]] = {}

(* The connections that feed a port of a process.                          *)
Fed(r) == {c \in Conn : r \in Leaves[c[2]]}

LEMMA HitsMapped ==
  ASSUME MappedOnce, NEW c \in Conn, OfCluster(c), NEW r
  PROVE  Mapped(c) \in Seq(Conn) /\ Hits(Mapped(c), Fed(r)) = IF c \in Fed(r) THEN 1 ELSE 0
<1>1. c[1] \in Outputs /\ c[2] \in Inputs /\ c[1] \in Ports /\ c[2] \in Ports
  BY TheTypes
<1>2. CASE Owner[c[1]] \in Clusters
  <2>1. Mapping[c[1]] \in Seq(Outputs) /\ Len(Mapping[c[1]]) = 1
    BY <1>1, <1>2, PipelineAssumption
  <2>2. PICK q : q = Mapping[c[1]][1]
    OBVIOUS
  <2>3. q \in Outputs
    BY <2>1, <2>2, ElementOfSeq
  <2>4. PICK d : d = <<q, c[2]>>
    OBVIOUS
  <2>5. d \in Conn /\ d[2] = c[2]
    BY <1>1, <2>3, <2>4 DEF Conn
  <2>6. Mapped(c) = <<d>>
    BY <1>2, <2>2, <2>4 DEF Mapped
  <2>7. d \in Fed(r) <=> c \in Fed(r)
    BY <2>5 DEF Fed
  <2> QED BY <2>5, <2>6, <2>7, HitsNone, SmallLists
<1>3. CASE Owner[c[1]] \notin Clusters
  <2>1. PICK m : m = Mapping[c[2]]
    OBVIOUS
  <2>2. m \in Seq(Inputs) /\ Owner[c[2]] \in Clusters
    BY <1>1, <1>3, <2>1, PipelineAssumption DEF OfCluster
  <2>3. Len(m) \in Nat /\ DOMAIN m = 1..Len(m) /\ \A i \in 1..Len(m) : m[i] \in Inputs
    BY <2>2, SomeLists
  <2>4. Mapped(c) = [i \in 1..Len(m) |-> <<c[1], m[i]>>]
    BY <1>3, <2>1, <2>3 DEF Mapped
  <2>5. PICK t : t = Mapped(c)
    OBVIOUS
  <2>6. \A i \in 1..Len(m) : t[i] = <<c[1], m[i]>> /\ t[i] \in Conn /\ t[i][2] = m[i]
    BY <1>1, <2>3, <2>4, <2>5 DEF Conn
  <2>7. t \in [1..Len(m) -> Conn]
    BY <2>4, <2>5, <2>6
  <2>8. t \in Seq(Conn) /\ Len(t) = Len(m)
    BY <2>3, <2>7
  <2>9. \A i \in 1..Len(m) : i \in Places(t, Fed(r)) <=> r \in Leaves[m[i]]
    BY <2>6, <2>8 DEF Places, Fed
  <2>10. Places(t, Fed(r)) \subseteq 1..Len(m)
    BY <2>8 DEF Places
  <2>11. \A i, j \in Places(t, Fed(r)) : i = j
    <3>1. ASSUME NEW i \in Places(t, Fed(r)), NEW j \in Places(t, Fed(r)), i # j PROVE FALSE
      <4>1. r \in Leaves[m[i]] /\ r \in Leaves[m[j]] /\ i \in DOMAIN m /\ j \in DOMAIN m
        BY <2>3, <2>9, <2>10
      <4>2. Leaves[m[i]] \cap Leaves[m[j]] = {}
        BY <1>1, <2>1, <2>2, <3>1, <4>1 DEF MappedOnce
      <4> QED BY <4>1, <4>2
    <3> QED BY <3>1
  <2>12. Places(t, Fed(r)) # {} <=> c \in Fed(r)
    <3>1. ToSet(m) = {m[i] : i \in 1..Len(m)}
      BY <2>3 DEF ToSet
    <3>2. ToSet(m) \subseteq Ports
      BY <2>3, <3>1 DEF Ports
    <3>3. Leaves[c[2]] = UNION {Leaves[q] : q \in ToSet(m)}
      BY <1>1, <2>1, <2>2, <3>2, LeavesOfCluster
    <3>4. r \in Leaves[c[2]] <=> \E i \in 1..Len(m) : r \in Leaves[m[i]]
      BY <3>1, <3>3
    <3> QED BY <2>9, <2>10, <3>4 DEF Fed
  <2>13. IsFiniteSet(Places(t, Fed(r)))
    BY <2>8, HitsCount
  <2>14. PICK X : X = Places(t, Fed(r))
    OBVIOUS
  <2>15. Cardinality(X) \in Nat /\ Cardinality(X) <= 1 /\ (X # {} => Cardinality(X) >= 1)
    BY <2>11, <2>13, <2>14, OneAtMost
  <2>16. X = {} => Cardinality(X) = 0
    BY FS_EmptySet
  <2>17. Cardinality(X) = IF c \in Fed(r) THEN 1 ELSE 0
    BY <2>12, <2>14, <2>15, <2>16
  <2> QED BY <2>5, <2>8, <2>14, <2>17 DEF Hits
<1> QED
  BY <1>2, <1>3

-----------------------------------------------------------------------------
(* What types the ports must have: groups and what pins them.              *)

ClosedUnder(flowing, cs, S) ==
  /\ \A c \in cs : Ends(c) \subseteq flowing => Ends(c) \subseteq S \/ Ends(c) \cap S = {}
  /\ \A r \in flowing : Tagged(r) \cap flowing \subseteq S \/ (Tagged(r) \cap flowing) \cap S = {}

GroupOf(flowing, cs, p) ==
  {r \in flowing : \A S \in SUBSET flowing : p \in S /\ ClosedUnder(flowing, cs, S) => r \in S}

LEMMA GroupIsLeast ==
  ASSUME NEW cs, NEW p PROVE Group(cs, p) = GroupOf(Flowing, cs, p)
<1> DEFINE flowing == Flowing
           inner   == {Ends(c) : c \in cs} \cap SUBSET flowing
           classes == inner \cup {Tagged(r) \cap flowing : r \in flowing}
           Closed(S) == \A class \in classes : class \subseteq S \/ class \cap S = {}
           around  == {S \in SUBSET flowing : p \in S /\ Closed(S)}
<1>1. Group(cs, p) = {r \in flowing : \A S \in around : r \in S}
  BY DEF Group
<1>2. ASSUME NEW S PROVE Closed(S) <=> ClosedUnder(flowing, cs, S)
  <2>1. ASSUME Closed(S) PROVE ClosedUnder(flowing, cs, S)
    <3>1. \A c \in cs : Ends(c) \subseteq flowing => Ends(c) \in classes
      OBVIOUS
    <3>2. \A r \in flowing : Tagged(r) \cap flowing \in classes
      OBVIOUS
    <3> QED BY <2>1, <3>1, <3>2 DEF ClosedUnder
  <2>2. ASSUME ClosedUnder(flowing, cs, S) PROVE Closed(S)
    BY <2>2 DEF ClosedUnder
  <2> QED BY <2>1, <2>2
<1> HIDE DEF Closed, flowing
<1>3. \A S : S \in around <=> S \in SUBSET flowing /\ p \in S /\ ClosedUnder(flowing, cs, S)
  BY <1>2
<1> HIDE DEF around
<1>4. Group(cs, p) = GroupOf(flowing, cs, p)
  BY <1>1, <1>3 DEF GroupOf
<1> QED
  BY <1>4 DEF flowing

LEMMA GroupParts ==
  ASSUME NEW F, NEW cs, NEW p \in F
  PROVE  /\ GroupOf(F, cs, p) \subseteq F /\ p \in GroupOf(F, cs, p)
         /\ \A S \in SUBSET F : p \in S /\ ClosedUnder(F, cs, S) => GroupOf(F, cs, p) \subseteq S
         /\ ClosedUnder(F, cs, GroupOf(F, cs, p))
         /\ \A r \in GroupOf(F, cs, p) : GroupOf(F, cs, r) = GroupOf(F, cs, p)
<1> DEFINE G == GroupOf(F, cs, p)
<1>1. /\ G \subseteq F /\ p \in G
      /\ \A S \in SUBSET F : p \in S /\ ClosedUnder(F, cs, S) => G \subseteq S
  BY DEF GroupOf
<1>2. ASSUME NEW X \in SUBSET F, NEW x \in X, x \in G,
             \A S : ClosedUnder(F, cs, S) => X \subseteq S \/ X \cap S = {}
      PROVE  X \subseteq G
  BY <1>2 DEF GroupOf
<1>3. ClosedUnder(F, cs, G)
  <2>1. ASSUME NEW c \in cs, Ends(c) \subseteq F, Ends(c) \cap G # {} PROVE Ends(c) \subseteq G
    <3>1. PICK x \in Ends(c) : x \in G
      BY <2>1
    <3>2. \A S : ClosedUnder(F, cs, S) => Ends(c) \subseteq S \/ Ends(c) \cap S = {}
      BY <2>1 DEF ClosedUnder
    <3> QED BY <1>2, <2>1, <3>1, <3>2
  <2>2. ASSUME NEW r \in F, (Tagged(r) \cap F) \cap G # {} PROVE Tagged(r) \cap F \subseteq G
    <3>1. PICK x \in Tagged(r) \cap F : x \in G
      BY <2>2
    <3>2. \A S : ClosedUnder(F, cs, S) => Tagged(r) \cap F \subseteq S \/ (Tagged(r) \cap F) \cap S = {}
      BY DEF ClosedUnder
    <3> QED BY <1>2, <3>1, <3>2
  <2> QED BY <2>1, <2>2 DEF ClosedUnder
<1>4. ASSUME NEW r \in G PROVE GroupOf(F, cs, r) = G
  <2>1. r \in F
    BY <1>1
  <2>2. GroupOf(F, cs, r) \subseteq G
    BY <1>1, <1>3, <2>1 DEF GroupOf
  <2>3. ASSUME NEW S \in SUBSET F, r \in S, ClosedUnder(F, cs, S), p \notin S PROVE FALSE
    <3>1. ClosedUnder(F, cs, F \ S)
      <4>1. \A X \in SUBSET F : (X \subseteq S \/ X \cap S = {}) => (X \subseteq F \ S \/ X \cap (F \ S) = {})
        OBVIOUS
      <4>2. ASSUME NEW c \in cs, Ends(c) \subseteq F
            PROVE  Ends(c) \subseteq F \ S \/ Ends(c) \cap (F \ S) = {}
        BY <2>3, <4>1, <4>2 DEF ClosedUnder
      <4>3. ASSUME NEW x \in F
            PROVE  Tagged(x) \cap F \subseteq F \ S \/ (Tagged(x) \cap F) \cap (F \ S) = {}
        <5>1. Tagged(x) \cap F \in SUBSET F
          OBVIOUS
        <5>2. Tagged(x) \cap F \subseteq S \/ (Tagged(x) \cap F) \cap S = {}
          BY <2>3 DEF ClosedUnder
        <5> QED BY <4>1, <5>1, <5>2
      <4> QED BY <4>2, <4>3 DEF ClosedUnder
    <3>2. G \subseteq F \ S
      BY <1>1, <2>3, <3>1
    <3> QED BY <2>3, <3>2
  <2>4. G \subseteq GroupOf(F, cs, r)
    BY <1>1, <2>3 DEF GroupOf
  <2> QED BY <2>2, <2>4
<1> QED
  BY <1>1, <1>3, <1>4

PinsOf(F, settled, cs, p) ==
  {t \in {settled[r] : r \in Ports} \ {type_any, type_flow_dependent} :
     \E c \in cs : Ends(c) \cap GroupOf(F, cs, p) # {} /\ \E r \in Ends(c) : settled[r] = t}

SettledTypes == [p \in Ports |-> Settled(p)]

(* Pins, with the groups as above.                                         *)
LEMMA PinsAre ==
  ASSUME NEW cs \in SUBSET Conn, NEW p
  PROVE  Pins(cs, p) = PinsOf(Flowing, SettledTypes, cs, p)
<1> DEFINE G    == GroupOf(Flowing, cs, p)
           near == UNION {Ends(c) : c \in {c \in cs : Ends(c) \cap G # {}}}
<1>1. Pins(cs, p) = {Settled(r) : r \in near} \ {type_any, type_flow_dependent}
  BY GroupIsLeast, Zenon DEF Pins
<1>2. near \subseteq Ports
  BY TheTypes DEF Ends
<1>3. \A r \in Ports : SettledTypes[r] = Settled(r)
  BY DEF SettledTypes
<1>4. \A r : r \in near <=> \E c \in cs : Ends(c) \cap G # {} /\ r \in Ends(c)
  OBVIOUS
<1> HIDE DEF G, near
<1>5. \A t : t \in {Settled(r) : r \in near} <=> \E r \in near : SettledTypes[r] = t
  BY <1>2, <1>3
<1>6. \A t : t \in PinsOf(Flowing, SettledTypes, cs, p) <=>
         /\ t \in {SettledTypes[r] : r \in Ports} /\ t \notin {type_any, type_flow_dependent}
         /\ \E c \in cs : Ends(c) \cap G # {} /\ \E r \in Ends(c) : SettledTypes[r] = t
  BY DEF PinsOf, G
<1>7. \A t : t \in Pins(cs, p) <=> t \in PinsOf(Flowing, SettledTypes, cs, p)
  <2>1. ASSUME NEW t, t \in Pins(cs, p) PROVE t \in PinsOf(Flowing, SettledTypes, cs, p)
    <3>1. t \notin {type_any, type_flow_dependent} /\ \E r \in near : SettledTypes[r] = t
      BY <1>1, <1>5, <2>1
    <3> QED BY <1>2, <1>4, <1>6, <3>1
  <2>2. ASSUME NEW t, t \in PinsOf(Flowing, SettledTypes, cs, p) PROVE t \in Pins(cs, p)
    <3>1. \E r \in near : SettledTypes[r] = t
      BY <1>4, <1>6, <2>2
    <3> QED BY <1>1, <1>5, <1>6, <2>2, <3>1
  <2> QED BY <2>1, <2>2
<1> QED
  BY <1>7

PinsKnown == \A cs \in SUBSET Conn : \A p : Pins(cs, p) = PinsOf(Flowing, SettledTypes, cs, p)

LEMMA PinsAreKnown == PinsKnown
BY PinsAre DEF PinsKnown

LEMMA PinsAreKnownNext == PinsKnown'
BY PinsAreKnown, PTL

LEMMA TypingStays ==
  ASSUME declared' = declared
  PROVE  /\ Flowing' = Flowing /\ \A p : Settled(p)' = Settled(p)
         /\ \A cs \in SUBSET Conn : \A p : Pins(cs, p)' = Pins(cs, p)
<1>1. \A p : Settled(p)' = Settled(p)
  BY DEF Settled
<1>2. Flowing' = Flowing
  BY DEF Settled, Flowing
<1>3. SettledTypes' = SettledTypes
  BY DEF Settled, SettledTypes
<1>4. \A cs \in SUBSET Conn : \A p : /\ Pins(cs, p) = PinsOf(Flowing, SettledTypes, cs, p)
                                      /\ Pins(cs, p)' = PinsOf(Flowing', SettledTypes', cs, p)
  BY PinsAreKnown, PinsAreKnownNext DEF PinsKnown
<1> QED
  BY <1>1, <1>2, <1>3, <1>4

LEMMA SamePins ==
  ASSUME NEW cs \in SUBSET Conn, NEW p \in Flowing, NEW r, r \in GroupOf(Flowing, cs, p)
  PROVE  Pins(cs, r) = Pins(cs, p)
<1>1. GroupOf(Flowing, cs, r) = GroupOf(Flowing, cs, p)
  BY GroupParts
<1>2. PinsOf(Flowing, SettledTypes, cs, r) = PinsOf(Flowing, SettledTypes, cs, p)
  BY <1>1 DEF PinsOf
<1> QED
  BY <1>2, PinsAre

LEMMA Tags ==
  ASSUME NEW p \in Ports, NEW r \in Tagged(p)
  PROVE  /\ r \in Ports /\ Tagged(r) = Tagged(p) /\ Owner[r] = Owner[p] /\ p \in Tagged(p)
         /\ r # p => Declared[p] = type_flow_dependent /\ Declared[r] = type_flow_dependent
BY PipelineAssumption DEF Tagged

LEMMA TagPins ==
  ASSUME NEW cs \in SUBSET Conn, NEW p \in Flowing, NEW r \in Tagged(p), r \in Flowing
  PROVE  Pins(cs, r) = Pins(cs, p)
<1>1. p \in GroupOf(Flowing, cs, p) /\ ClosedUnder(Flowing, cs, GroupOf(Flowing, cs, p))
  BY GroupParts
<1>2. p \in Tagged(p) /\ r \in Tagged(p) \cap Flowing
  BY DEF Tagged
<1>3. r \in GroupOf(Flowing, cs, p)
  BY <1>1, <1>2 DEF ClosedUnder
<1> QED
  BY <1>3, SamePins

LEMMA NeighbourPins ==
  ASSUME NEW cs \in SUBSET Conn, NEW c \in cs, NEW e \in Ends(c), NEW f \in Ends(c), e \in Flowing
  PROVE  /\ f \in Flowing => Pins(cs, f) = Pins(cs, e)
         /\ f \notin Flowing /\ Settled(f) # type_any => Settled(f) \in Pins(cs, e)
<1>1. e \in GroupOf(Flowing, cs, e) /\ ClosedUnder(Flowing, cs, GroupOf(Flowing, cs, e))
  BY GroupParts
<1>2. Ends(c) = {c[1], c[2]} /\ c[1] \in Ports /\ c[2] \in Ports
  BY TheTypes DEF Ends
<1>3. ASSUME f \in Flowing PROVE Pins(cs, f) = Pins(cs, e)
  <2>1. CASE f = e
    BY <2>1
  <2>2. CASE f # e
    <3>1. Ends(c) \subseteq Flowing
      BY <1>2, <1>3, <2>2
    <3>2. f \in GroupOf(Flowing, cs, e)
      BY <1>1, <3>1 DEF ClosedUnder
    <3> QED BY <3>2, SamePins
  <2> QED BY <2>1, <2>2
<1>4. ASSUME f \notin Flowing, Settled(f) # type_any PROVE Settled(f) \in Pins(cs, e)
  <2>1. f \in Ports /\ SettledTypes[f] = Settled(f) /\ Settled(f) # type_flow_dependent
    BY <1>2, <1>4 DEF SettledTypes, Flowing
  <2>2. SettledTypes[f] \in PinsOf(Flowing, SettledTypes, cs, e)
    BY <1>1, <1>4, <2>1 DEF PinsOf
  <2> QED BY <2>1, <2>2, PinsAre
<1> QED
  BY <1>3, <1>4

-----------------------------------------------------------------------------
(* Where the types of the ports come from.                                 *)

NoType == {type_flow_dependent, type_data_dependent}
Made   == Flat(accepted)

TypesFound ==
  /\ \A p \in Ports : declared[p] = type_data_dependent => Declared[p] = type_data_dependent
  /\ \A p \in Ports : type[p] = type_data_dependent => declared[p] = type_data_dependent
  /\ ~setup => type = declared
  /\ \A p \in Ports : \A r \in Tagged(p) : type[r] = type[p] /\ declared[r] = declared[p]
  /\ \A p \in Ports \ Flowing : type[p] \in {Settled(p), type_data_dependent}
  /\ \A p \in Flowing : type[p] # type_any
  /\ \A p \in Flowing : type[p] \in NoType \cup Pins(Made, p)

LEMMA FlatOfAccepted ==
  ASSUME NEW cs \in SUBSET Conn
  PROVE  Flat(cs) \subseteq Conn /\ \A c \in Flat(cs) : ~OfCluster(c)
<1>1. /\ \A r \in Ports : Leaves[r] = {x \in Ports : /\ Owner[x] \in ProcSet
                                 /\ \A S \in SUBSET Ports : r \in S /\ Whole(S) => x \in S}
      /\ Outputs \in SUBSET Ports /\ Inputs \in SUBSET Ports
  BY DEF Leaves, Ports
<1>2. Whole(Outputs) /\ Whole(Inputs)
  <2>1. ASSUME NEW p \in Outputs, Owner[p] \in Clusters PROVE ToSet(Mapping[p]) \subseteq Outputs
    BY <2>1, PipelineAssumption, SetOfList DEF Ports
  <2>2. ASSUME NEW p \in Inputs, Owner[p] \in Clusters PROVE ToSet(Mapping[p]) \subseteq Inputs
    BY <2>2, PipelineAssumption, SetOfList DEF Ports
  <2> QED BY <2>1, <2>2 DEF Whole
<1>3. ASSUME NEW c \in cs, NEW x \in Leaves[c[1]] \X Leaves[c[2]] PROVE x \in Conn /\ ~OfCluster(x)
  <2>1. c[1] \in Outputs /\ c[2] \in Inputs /\ c[1] \in Ports /\ c[2] \in Ports
    BY TheTypes
  <2>2. x = <<x[1], x[2]>> /\ x[1] \in Leaves[c[1]] /\ x[2] \in Leaves[c[2]]
    OBVIOUS
  <2>3. x[1] \in Outputs /\ x[2] \in Inputs /\ Owner[x[1]] \in ProcSet /\ Owner[x[2]] \in ProcSet
    BY <1>1, <1>2, <2>1, <2>2
  <2>4. ~OfCluster(x)
    BY <2>3, PipelineAssumption DEF OfCluster
  <2>5. x \in Conn
    BY <2>2, <2>3 DEF Conn
  <2> QED BY <2>4, <2>5
<1> QED
  BY <1>3 DEF Flat

LEMMA MadeParts ==
  ASSUME ListsInv, HeldInv, ~failed
  PROVE  accepted \subseteq Conn /\ Made \subseteq Conn /\ \A c \in Made : ~OfCluster(c)
<1>1. accepted \subseteq Conn
  <2>1. ToSet(planned_connections) \subseteq Conn
    BY SetOfList DEF ListsInv, ListsTyped
  <2> QED BY <2>1 DEF HeldInv
<1> QED
  BY <1>1, FlatOfAccepted DEF Made

(* What a typed port tells the other end of its connection.                *)
LEMMA GivenType ==
  ASSUME TypesFound, Made \subseteq Conn, NEW c \in Made, NEW e \in Ends(c), NEW f \in Ends(c),
         e \in Flowing, type[f] \notin NoType, type[f] # type_any
  PROVE  type[f] \in Pins(Made, e)
<1>1. f \in Ports
  BY TheTypes DEF Ends
<1>2. CASE f \in Flowing
  BY <1>2, NeighbourPins DEF TypesFound
<1>3. CASE f \notin Flowing
  <2>1. type[f] = Settled(f)
    BY <1>1, <1>3 DEF TypesFound, NoType
  <2> QED BY <1>3, <2>1, NeighbourPins
<1> QED
  BY <1>2, <1>3

LEMMA PinsStay ==
  ASSUME declared' = declared, accepted' = accepted, accepted \subseteq Conn
  PROVE  /\ Flowing' = Flowing /\ \A p : Settled(p)' = Settled(p)
         /\ Made' = Made /\ \A p : Pins(Made, p)' = Pins(Made, p)
<1>1. Flowing' = Flowing /\ \A p : Settled(p)' = Settled(p)
  BY TypingStays
<1>2. SettledTypes' = SettledTypes
  BY DEF Settled, SettledTypes
<1>3. Made' = Made /\ Made \subseteq Conn
  BY FlatOfAccepted DEF Made
<1>4. ASSUME NEW p PROVE Pins(Made, p)' = Pins(Made, p)
  <2>1. Pins(Made, p) = PinsOf(Flowing, SettledTypes, Made, p)
    BY <1>3, PinsAre
  <2>2. Pins(Made, p)' = PinsOf(Flowing', SettledTypes', Made', p)
    BY <1>3, PinsAreKnownNext DEF PinsKnown
  <2> QED BY <1>1, <1>2, <1>3, <2>1, <2>2
<1> QED
  BY <1>1, <1>3, <1>4

(* Steps that leave the types alone.                                       *)
LEMMA TypesKept ==
  ASSUME TypesFound, type' = type, declared' = declared, setup => setup',
         ~setup \/ (accepted' = accepted /\ accepted \subseteq Conn)
  PROVE  TypesFound'
<1>1. Flowing' = Flowing /\ \A p : Settled(p)' = Settled(p)
  BY TypingStays
<1>2. \A p : Tagged(p)' = Tagged(p)
  BY DEF Tagged
<1>3. ASSUME NEW p \in Flowing PROVE type[p] \in NoType \cup Pins(Made, p)'
  <2>1. CASE ~setup
    BY <2>1 DEF TypesFound, NoType, Flowing, Settled
  <2>2. CASE accepted' = accepted /\ accepted \subseteq Conn
    BY <2>2, PinsStay DEF TypesFound
  <2> QED BY <2>1, <2>2
<1> QED
  BY <1>1, <1>2, <1>3 DEF TypesFound, NoType

(* A flow-dependent port gets a type, and those with its tag.              *)
LEMMA TypesTyped ==
  ASSUME ListsInv, TypesFound, setup, setup' = setup, accepted' = accepted, accepted \subseteq Conn,
         declared' = declared, NEW e \in Flowing, type[e] # type_data_dependent,
         NEW t, t \notin NoType, t = type_any \/ t \in Pins(Made, e), CanSet(e, t), type' = Typed(e, t)
  PROVE  /\ TypesFound' /\ (t # type_any => type'[e] # type_flow_dependent)
         /\ \A r \in Ports : \/ type'[r] = type[r]
                             \/ type[r] = type_flow_dependent /\ Owner[r] = Owner[e]
<1>1. /\ Flowing' = Flowing /\ \A p : Settled(p)' = Settled(p)
      /\ Made' = Made /\ \A p : Pins(Made, p)' = Pins(Made, p)
  BY PinsStay
<1>2. \A p : Tagged(p)' = Tagged(p)
  BY DEF Tagged
<1>3. e \in Ports /\ type[e] # type_any
  BY DEF Flowing, TypesFound
<1>4. CASE t \in {type_any, type[e]}
  <2>1. type' = type
    BY <1>4 DEF Typed
  <2>2. t # type_any => type'[e] # type_flow_dependent
    BY <1>4, <2>1 DEF NoType
  <2> QED BY <2>1, <2>2, TypesKept
<1>5. CASE t \notin {type_any, type[e]}
  <2>1. type[e] = type_flow_dependent
    BY <1>3, <1>5 DEF CanSet, Settable
  <2>2. type' = [r \in Ports |-> IF r \in Tagged(e) THEN t ELSE type[r]]
    BY <1>5, <2>1 DEF Typed
  <2>3. \A r \in Ports : type'[r] = IF r \in Tagged(e) THEN t ELSE type[r]
    BY <2>2
  <2>4. ASSUME NEW r \in Tagged(e)
        PROVE  /\ r \in Ports /\ type[r] = type_flow_dependent /\ Owner[r] = Owner[e] /\ r \in Flowing
               /\ Tagged(r) = Tagged(e)
    <3>1. r \in Ports /\ Tagged(r) = Tagged(e) /\ Owner[r] = Owner[e] /\ type[r] = type_flow_dependent
      BY <1>3, <2>1, Tags DEF TypesFound
    <3>2. r \in Flowing
      BY <3>1 DEF TypesFound, Flowing
    <3> QED BY <3>1, <3>2
  <2>5. e \in Tagged(e) /\ type'[e] = t
    BY <1>3, <2>3, Tags DEF Tagged
  <2>6. ASSUME NEW p \in Ports, NEW r \in Tagged(p) PROVE type'[r] = type'[p]
    <3>1. r \in Ports /\ Tagged(r) = Tagged(p) /\ p \in Tagged(p) /\ type[r] = type[p] /\ r \in Tagged(r)
      BY Tags DEF TypesFound, Tagged
    <3>2. p \in Tagged(e) <=> r \in Tagged(e)
      BY <2>4, <3>1
    <3> QED BY <2>3, <3>1, <3>2
  <2>7. ASSUME NEW p \in Flowing PROVE type'[p] # type_any /\ type'[p] \in NoType \cup Pins(Made, p)
    <3>1. p \in Ports /\ type[p] # type_any /\ type[p] \in NoType \cup Pins(Made, p)
      BY DEF Flowing, TypesFound
    <3>2. CASE p \in Tagged(e)
      <4>1. Pins(Made, p) = Pins(Made, e)
        BY <3>2, FlatOfAccepted, TagPins DEF Made
      <4> QED BY <1>5, <2>3, <3>1, <3>2, <4>1
    <3> QED BY <2>3, <3>1, <3>2
  <2>8. ASSUME NEW p \in Ports, p \notin Flowing PROVE type'[p] \in {Settled(p), type_data_dependent}
    BY <2>3, <2>4, <2>8 DEF TypesFound
  <2>9. ASSUME NEW p \in Ports, type'[p] = type_data_dependent PROVE declared[p] = type_data_dependent
    BY <2>3, <2>9 DEF TypesFound, NoType
  <2>10. \A p \in Ports : \A r \in Tagged(p) : declared[r] = declared[p]
    BY DEF TypesFound
  <2>11. TypesFound'
    BY <1>1, <1>2, <2>6, <2>7, <2>8, <2>9, <2>10 DEF TypesFound, NoType
  <2> QED BY <2>3, <2>4, <2>5, <2>11 DEF NoType
<1> QED
  BY <1>4, <1>5

LEMMA TypesConfigure ==
  ASSUME ListsInv, FlagsInv, TypesFound, ConfigureProcess, accepted \subseteq Conn
  PROVE  /\ TypesFound'
         /\ \A r \in Ports : \/ type'[r] = type[r]
                             \/ type[r] = type_data_dependent
<1> DEFINE name == Head(task.work)
<1>1. /\ type' = [p \in Ports |-> IF Owner[p] = name /\ type[p] = type_data_dependent
                                  THEN Provides[p] ELSE type[p]]
      /\ task.stage = "configure" /\ declared' = declared /\ accepted' = accepted /\ setup' = setup
  BY DEF ConfigureProcess, AtStage, Throw, asked, flags
<1> HIDE DEF name
<1>2. /\ Flowing' = Flowing /\ \A p : Settled(p)' = Settled(p)
      /\ Made' = Made /\ \A p : Pins(Made, p)' = Pins(Made, p)
  BY <1>1, PinsStay
<1>3. \A p : Tagged(p)' = Tagged(p)
  BY DEF Tagged
<1>4. \A p \in Ports : \/ type'[p] = type[p]
                       \/ type'[p] = Settled(p) /\ type[p] = type_data_dependent
  BY <1>1 DEF TypesFound, Settled
<1>5. setup
  BY <1>1 DEF FlagsInv
<1>6. ASSUME NEW p \in Ports, NEW r \in Tagged(p) PROVE type'[r] = type'[p]
  <2>1. CASE r = p
    BY <2>1
  <2>2. CASE r # p
    <3>1. r \in Ports /\ Declared[p] = type_flow_dependent /\ Declared[r] = type_flow_dependent
      BY <2>2, Tags
    <3>2. type[p] # type_data_dependent /\ type[r] # type_data_dependent /\ type[r] = type[p]
      BY <3>1 DEF ListsInv, TypesKnown, TypesFound, type_flow_dependent, type_data_dependent
    <3> QED BY <1>4, <3>1, <3>2
  <2> QED BY <2>1, <2>2
<1>7. ASSUME NEW p \in Flowing PROVE type'[p] # type_any /\ type'[p] \in NoType \cup Pins(Made, p)
  <2>1. p \in Ports /\ Settled(p) = type_flow_dependent
    BY DEF Flowing
  <2> QED BY <1>4, <2>1 DEF TypesFound, NoType, type_flow_dependent, type_any
<1>8. \A p \in Ports \ Flowing : type'[p] \in {Settled(p), type_data_dependent}
  BY <1>4 DEF TypesFound
<1>9. \A p \in Ports : type'[p] = type_data_dependent => declared[p] = type_data_dependent
  BY <1>4 DEF TypesFound
<1>10. TypesFound'
  BY <1>1, <1>2, <1>3, <1>5, <1>6, <1>7, <1>8, <1>9 DEF TypesFound
<1> QED
  BY <1>4, <1>10

LEMMA TypesReset ==
  ASSUME ListsInv, TypesFound, Reset PROVE TypesFound'
<1>1. /\ type' = [p \in Ports |-> IF Owner[p] \in Redeclares THEN Declared[p] ELSE type[p]]
      /\ declared' = type' /\ ~setup'
  BY DEF Reset
<1>2. \A p \in Ports : type'[p] = IF Owner[p] \in Redeclares THEN Declared[p] ELSE type[p]
  BY <1>1
<1>3. \A p \in Ports : declared'[p] = type_data_dependent => Declared[p] = type_data_dependent
  BY <1>1, <1>2 DEF TypesFound
<1>4. ASSUME NEW p \in Ports, NEW r \in Tagged(p) PROVE type'[r] = type'[p]
  BY <1>2, Tags DEF TypesFound
<1>5. \A p : Tagged(p)' = Tagged(p)
  BY DEF Tagged
<1>6. \A p \in Ports : Settled(p)' = IF declared'[p] = type_data_dependent THEN Provides[p] ELSE declared'[p]
  BY DEF Settled
<1>7. Flowing' = {p \in Ports : Settled(p)' = type_flow_dependent}
  BY DEF Flowing
<1>8. \A p \in Flowing' : type'[p] \in NoType
  BY <1>1, <1>6, <1>7 DEF NoType
<1>9. \A p \in Ports \ Flowing' : type'[p] \in {Settled(p)', type_data_dependent}
  BY <1>1, <1>6
<1> QED
  BY <1>1, <1>3, <1>4, <1>5, <1>8, <1>9
     DEF TypesFound, NoType, type_flow_dependent, type_data_dependent, type_any

-----------------------------------------------------------------------------
(* What is known of the connections in each list.                          *)

(* Set-up is to come, or goes on.                                          *)
Live == setup => InSetup

PinFrom(x) == IF x[2] = "push_upstream" THEN x[1][2] ELSE x[1][1]

TypesAgree(c) ==
  /\ type[c[1]] \notin NoType /\ type[c[2]] # type_flow_dependent
  /\ type_any \in {type[c[1]], type[c[2]]} \/ type[c[1]] = type[c[2]]

(* propagate has still to look at the process of the port.                 *)
Queued(e) == task.stage = "propagate" /\ Owner[e] \in ToSet(task.kyu)

KindsFound ==
  /\ \A c \in ToSet(connections) : TypesAgree(c)
  /\ \A c \in Waiting : Ends(c) \subseteq Flowing
  /\ \A x \in Pinned_ : PinPort(x) \in Flowing /\ type[PinFrom(x)] \notin NoType
  /\ \A c \in ToSet(untyped_connections) : \A e \in Ends(c) :
       type[e] = type_flow_dependent \/ Queued(e)
  /\ \A c \in ToSet(task.scan) : \A e \in Ends(c) :
       type[e] = type_flow_dependent \/ Queued(e) \/ Owner[e] = task.name

MutableShared(c) == c[1] \in Shared /\ c[2] \in Mutable

MarksMutable(p) == p \in DOMAIN connected_shared_ports /\ connected_shared_ports[p]

(* What connect finds out about a connection that it puts into a list.     *)
Finds(c) ==
  /\ ToSet(connections) \subseteq ToSet(connections')
  /\ \A x \in ToSet(connections') : x \in ToSet(connections) \/ (x = c /\ TypesAgree(c))
  /\ \A x \in ToSet(untyped_connections') :
       \/ x \in ToSet(untyped_connections)
       \/ x = c /\ type[c[1]] = type_flow_dependent /\ type[c[2]] = type_flow_dependent
  /\ \A x \in ToSet(type_pinnings') :
       \/ x \in ToSet(type_pinnings)
       \/ x[1] = c /\ type[PinPort(x)] = type_flow_dependent /\ type[PinFrom(x)] \notin NoType
  /\ \A x \in ToSet(data_dep_connections') :
       x \in ToSet(data_dep_connections) \/ (x = c /\ type[c[1]] = type_data_dependent)
  /\ \A x \in ToSet(cluster_connections') :
       x \in ToSet(cluster_connections) \/ (x = c /\ OfCluster(c))
  /\ \A p : MarksMutable(p)' =>
       \/ MarksMutable(p)
       \/ p = c[1] /\ MutableShared(c) /\ ~OfCluster(c)
            /\ (c \in ToSet(connections') \/ Outcome(c) \in {"data_dep", "untyped", "push_upstream",
                                                              "push_downstream", "mismatch"})

LEMMA Finding ==
  ASSUME ListsInv, NEW c \in Conn, Connect(c) PROVE Finds(c)
<1> DEFINE o == Outcome(c)
<1>1. /\ connections \in Seq(Conn) /\ cluster_connections \in Seq(Conn)
      /\ data_dep_connections \in Seq(Conn) /\ untyped_connections \in Seq(Conn)
      /\ type_pinnings \in Seq(Pinning)
  BY DEF ListsInv, ListsTyped
<1>2. \A push \in {"push_upstream", "push_downstream"} : <<c, push>> \in Pinning
  BY DEF Pinning
<1>3. /\ connections' = IF o = "compatible" THEN Append(connections, c) ELSE connections
      /\ cluster_connections' = IF o = "cluster" THEN Append(cluster_connections, c) ELSE cluster_connections
      /\ data_dep_connections' = IF o = "data_dep" THEN Append(data_dep_connections, c) ELSE data_dep_connections
      /\ untyped_connections' = IF o = "untyped" THEN Append(untyped_connections, c) ELSE untyped_connections
      /\ type_pinnings' = IF o \in {"push_upstream", "push_downstream"}
                          THEN Append(type_pinnings, <<c, o>>) ELSE type_pinnings
  BY DEF Connect, Put
<1>4. type[c[2]] # type_data_dependent
  <2>1. c[2] \in Inputs /\ c[2] \in Ports
    BY TheTypes
  <2> QED BY <2>1, TheTypes DEF ListsInv, TypesKnown
<1>5. /\ o \in {"cluster", "flags", "data_dep", "untyped", "push_upstream", "push_downstream",
               "mismatch", "compatible"}
      /\ o = "cluster" <=> OfCluster(c)
      /\ o = "data_dep" => type[c[1]] = type_data_dependent
      /\ o = "untyped" => type[c[1]] = type_flow_dependent /\ type[c[2]] = type_flow_dependent
      /\ o = "push_upstream" => type[c[1]] = type_flow_dependent /\ type[c[2]] \notin NoType
      /\ o = "push_downstream" => type[c[2]] = type_flow_dependent /\ type[c[1]] \notin NoType
      /\ o = "compatible" => TypesAgree(c)
  BY <1>4 DEF Outcome, check_connection_types, TypesAgree, NoType
<1>6. \A T : \A s \in Seq(T) : \A x \in T : ToSet(Append(s, x)) = ToSet(s) \cup {x}
  BY SetOfList
<1>7. ASSUME NEW x \in ToSet(type_pinnings')
      PROVE  \/ x \in ToSet(type_pinnings)
             \/ x[1] = c /\ type[PinPort(x)] = type_flow_dependent /\ type[PinFrom(x)] \notin NoType
  <2>1. CASE o \in {"push_upstream", "push_downstream"}
    <3>1. ToSet(type_pinnings') = ToSet(type_pinnings) \cup {<<c, o>>}
      <4>1. <<c, o>> \in Pinning /\ type_pinnings \in Seq(Pinning)
        BY <1>1, <1>2, <2>1 DEF Pinning
      <4>2. ToSet(Append(type_pinnings, <<c, o>>)) = ToSet(type_pinnings) \cup {<<c, o>>}
        BY <4>1, <1>6
      <4>3. type_pinnings' = Append(type_pinnings, <<c, o>>)
        BY <1>3, <2>1
      <4> QED BY <4>2, <4>3
    <3>2. CASE x = <<c, o>>
      <4>1. x[1] = c /\ x[2] = o
        BY <3>2
      <4> QED BY <1>5, <2>1, <4>1 DEF PinPort, PinFrom
    <3> QED BY <3>1, <3>2
  <2> QED BY <1>3, <2>1
<1>8. /\ ToSet(connections') = IF o = "compatible" THEN ToSet(connections) \cup {c} ELSE ToSet(connections)
      /\ ToSet(cluster_connections') = IF o = "cluster" THEN ToSet(cluster_connections) \cup {c} ELSE ToSet(cluster_connections)
      /\ ToSet(data_dep_connections') = IF o = "data_dep" THEN ToSet(data_dep_connections) \cup {c} ELSE ToSet(data_dep_connections)
      /\ ToSet(untyped_connections') = IF o = "untyped" THEN ToSet(untyped_connections) \cup {c} ELSE ToSet(untyped_connections)
  <2>1. \A s \in Seq(Conn) : ToSet(Append(s, c)) = ToSet(s) \cup {c}
    BY <1>6
  <2> QED BY <1>1, <1>3, <2>1
<1>9. ASSUME NEW p, MarksMutable(p)'
      PROVE  \/ MarksMutable(p)
             \/ p = c[1] /\ MutableShared(c) /\ o \notin {"cluster", "flags"}
  <2>1. CASE ~(c[1] \in Shared /\ ~Marked(c[1]) /\ o \notin {"cluster", "flags"})
    BY <1>9, <2>1 DEF Connect, MarksMutable
  <2>2. CASE c[1] \in Shared /\ ~Marked(c[1]) /\ o \notin {"cluster", "flags"}
    <3>1. connected_shared_ports' =
            [r \in DOMAIN connected_shared_ports \cup {c[1]} |->
               IF r = c[1] THEN c[2] \in Mutable ELSE connected_shared_ports[r]]
      BY <2>2 DEF Connect
    <3>2. /\ DOMAIN connected_shared_ports' = DOMAIN connected_shared_ports \cup {c[1]}
          /\ p \in DOMAIN connected_shared_ports'
          /\ connected_shared_ports'[p] = IF p = c[1] THEN c[2] \in Mutable ELSE connected_shared_ports[p]
      BY <1>9, <3>1, Zenon DEF MarksMutable
    <3> QED BY <1>9, <2>2, <3>2, Zenon DEF MarksMutable, MutableShared
  <2> QED BY <2>1, <2>2
<1>10. o = "compatible" => c \in ToSet(connections')
  BY <1>8
<1> QED
  BY <1>5, <1>7, <1>8, <1>9, <1>10 DEF Finds

LEMMA FlowTyped ==
  ASSUME TypesFound, NEW p \in Ports, type[p] = type_flow_dependent PROVE p \in Flowing
BY DEF TypesFound, Flowing, type_flow_dependent, type_data_dependent

LEMMA ListElements ==
  ASSUME ListsInv
  PROVE  /\ ToSet(connections) \subseteq Conn /\ Waiting \subseteq Conn /\ Pinned_ \subseteq Pinning
         /\ ToSet(untyped_connections) \subseteq Conn /\ ToSet(task.scan) \subseteq Conn
         /\ ToSet(task.calls) \subseteq Conn /\ ToSet(data_dep_connections) \subseteq Conn
         /\ ToSet(cluster_connections) \subseteq Conn /\ ToSet(planned_connections) \subseteq Conn
<1>1. /\ connections \in Seq(Conn) /\ untyped_connections \in Seq(Conn) /\ type_pinnings \in Seq(Pinning)
      /\ task.scan \in Seq(Conn) /\ task.calls \in Seq(Conn) /\ data_dep_connections \in Seq(Conn)
      /\ cluster_connections \in Seq(Conn) /\ planned_connections \in Seq(Conn)
      /\ task.stage \in {"pin", "propagate"} => task.work \in Seq(Pinning)
  BY DEF ListsInv, ListsTyped, TaskTyped, Tasks
<1>2. \A T : \A s \in Seq(T) : ToSet(s) \subseteq T
  BY SetOfList
<1>3. ToSet(type_pinnings) \subseteq Pinning /\ (task.stage \in {"pin", "propagate"} => ToSet(task.work) \subseteq Pinning)
  BY <1>1, <1>2
<1> QED
  BY <1>1, <1>2, <1>3 DEF Waiting, Pinned_

(* Types are only given where there was none.                              *)
LEMMA KindsShrink ==
  ASSUME ListsInv, KindsFound, declared' = declared,
         \A r \in Ports : type'[r] = type[r] \/ type[r] \in NoType,
         ToSet(connections') \subseteq ToSet(connections), Waiting' \subseteq Waiting, Pinned_' \subseteq Pinned_
  PROVE  /\ \A c \in ToSet(connections') : TypesAgree(c)'
         /\ \A c \in Waiting' : Ends(c) \subseteq Flowing'
         /\ \A x \in Pinned_' : PinPort(x) \in Flowing' /\ type'[PinFrom(x)] \notin NoType
<1>1. Flowing' = Flowing
  BY TypingStays
<1>2. ASSUME NEW c \in ToSet(connections) PROVE TypesAgree(c)'
  <2>1. c[1] \in Ports /\ c[2] \in Inputs /\ c[2] \in Ports
    BY ListElements, TheTypes
  <2>2. type[c[2]] # type_data_dependent
    BY <2>1, TheTypes DEF ListsInv, TypesKnown
  <2>3. TypesAgree(c)
    BY DEF KindsFound
  <2>4. type'[c[1]] = type[c[1]] /\ type'[c[2]] = type[c[2]]
    BY <2>1, <2>2, <2>3 DEF TypesAgree, NoType
  <2> QED BY <2>3, <2>4 DEF TypesAgree, NoType
<1>3. ASSUME NEW x \in Pinned_ PROVE type'[PinFrom(x)] \notin NoType
  <2>1. x \in Pinning
    BY ListElements
  <2>2. x[1][1] \in Ports /\ x[1][2] \in Ports
    BY <2>1, TheTypes
  <2>3. PinFrom(x) \in Ports /\ type[PinFrom(x)] \notin NoType
    BY <2>2 DEF PinFrom, KindsFound
  <2> QED BY <2>3
<1> QED
  BY <1>1, <1>2, <1>3 DEF KindsFound

LEMMA HeldMade ==
  ASSUME HeldInv, ~failed, InSetup, NEW c \in Conn, c \in Pending, ~OfCluster(c)
  PROVE  c \in Made
<1>1. Flat({c}) = {c}
  BY FlatOfProcesses
<1>2. Flat({c} \cup Pending) = Flat({c}) \cup Flat(Pending) /\ {c} \cup Pending = Pending
  BY FlatParts
<1> QED
  BY <1>1, <1>2 DEF HeldInv, Made

LEMMA KindsConnected ==
  ASSUME ListsInv, TypesFound, KindsFound, NEW c \in Conn, Connect(c), type' = type, declared' = declared,
         task'.stage = task.stage, task'.work = task.work, task'.scan = task.scan,
         task'.kyu = task.kyu, task'.name = task.name
  PROVE  KindsFound'
<1>1. Finds(c) /\ Flowing' = Flowing
  BY Finding, TypingStays
<1>2. c[1] \in Ports /\ c[2] \in Ports /\ Ends(c) = {c[1], c[2]}
  BY TheTypes DEF Ends
<1>3. \A x \in ToSet(connections') : TypesAgree(x)'
  BY <1>1 DEF Finds, KindsFound, TypesAgree
<1>4. \A x \in Waiting' : Ends(x) \subseteq Flowing'
  <2>1. \A x \in Waiting' : \/ x \in Waiting
                            \/ x = c /\ type[c[1]] = type_flow_dependent /\ type[c[2]] = type_flow_dependent
    BY <1>1 DEF Finds, Waiting
  <2> QED BY <1>1, <1>2, <2>1, FlowTyped DEF KindsFound
<1>5. \A x \in Pinned_' : PinPort(x)' \in Flowing' /\ type'[PinFrom(x)'] \notin NoType
  <2>1. \A x : PinPort(x)' = PinPort(x) /\ PinFrom(x)' = PinFrom(x)
    BY DEF PinPort, PinFrom
  <2>2. \A x \in Pinned_' :
          \/ x \in Pinned_
          \/ x[1] = c /\ type[PinPort(x)] = type_flow_dependent /\ type[PinFrom(x)] \notin NoType
    BY <1>1 DEF Finds, Pinned_
  <2>3. \A x : x[1] = c => PinPort(x) \in Ports
    BY <1>2 DEF PinPort
  <2> QED BY <1>1, <2>1, <2>2, <2>3, FlowTyped DEF KindsFound
<1>6. \A e : Queued(e)' <=> Queued(e)
  BY DEF Queued
<1>7. \A x \in ToSet(untyped_connections') : \A e \in Ends(x) : type'[e] = type_flow_dependent \/ Queued(e)'
  BY <1>1, <1>2, <1>6 DEF Finds, KindsFound
<1>8. \A x \in ToSet(task'.scan) : \A e \in Ends(x) :
        type'[e] = type_flow_dependent \/ Queued(e)' \/ Owner[e] = task'.name
  BY <1>6 DEF KindsFound
<1>9. \A x : Ends(x)' = Ends(x)
  BY DEF Ends
<1> QED
  BY <1>3, <1>4, <1>5, <1>7, <1>8, <1>9 DEF KindsFound, NoType

(* Steps that give no type and queue no process.                           *)
LEMMA KindsMoved ==
  ASSUME ListsInv, KindsFound, type' = type, declared' = declared,
         ToSet(connections') \subseteq ToSet(connections), Waiting' \subseteq Waiting, Pinned_' \subseteq Pinned_,
         ToSet(untyped_connections') \subseteq ToSet(untyped_connections), ToSet(task'.scan) = {},
         task.stage = "propagate" => task.kyu = <<>>
  PROVE  KindsFound'
<1>1. /\ \A c \in ToSet(connections') : TypesAgree(c)'
      /\ \A c \in Waiting' : Ends(c) \subseteq Flowing'
      /\ \A x \in Pinned_' : PinPort(x) \in Flowing' /\ type'[PinFrom(x)] \notin NoType
  BY KindsShrink
<1>2. \A e : ~Queued(e)
  BY SmallLists DEF Queued
<1>3. \A c \in ToSet(untyped_connections') : \A e \in Ends(c) : type'[e] = type_flow_dependent
  BY <1>2 DEF KindsFound
<1> QED
  BY <1>1, <1>3 DEF KindsFound, Ends, PinPort, PinFrom, NoType

LEMMA KindsConfigure ==
  ASSUME ListsInv, FlagsInv, TypesFound, KindsFound, ConfigureProcess, ~Throw, accepted \subseteq Conn
  PROVE  KindsFound'
<1>1. \A r \in Ports : type'[r] = type[r] \/ type[r] = type_data_dependent
  BY TypesConfigure
<1>2. /\ task.stage = "configure" /\ task \in Tasks /\ task.scan = <<>> /\ declared' = declared
      /\ \E calls : task' = [task EXCEPT !.calls = calls, !.work = Tail(@)]
      /\ UNCHANGED <<connections, untyped_connections, type_pinnings>>
      /\ DOMAIN task = {"stage", "calls", "work", "kyu", "name", "scan"}
  BY DEF ConfigureProcess, AtStage, ListsInv, TaskTyped, Tasks, asked
<1>3. task'.stage = "configure" /\ task'.scan = <<>>
  BY <1>2
<1>4. Waiting' = Waiting /\ Pinned_' = Pinned_ /\ ToSet(task'.scan) = {}
  BY <1>2, <1>3, SmallLists DEF Waiting, Pinned_
<1>5. /\ \A c \in ToSet(connections') : TypesAgree(c)'
      /\ \A c \in Waiting' : Ends(c) \subseteq Flowing'
      /\ \A x \in Pinned_' : PinPort(x) \in Flowing' /\ type'[PinFrom(x)] \notin NoType
  BY <1>1, <1>2, <1>4, KindsShrink DEF NoType
<1>6. ASSUME NEW c \in ToSet(untyped_connections'), NEW e \in Ends(c) PROVE type'[e] = type_flow_dependent
  <2>1. e \in Ports /\ type[e] = type_flow_dependent
    BY <1>2, <1>6, ListElements, TheTypes DEF KindsFound, Queued, Ends
  <2> QED BY <1>1, <2>1 DEF type_flow_dependent, type_data_dependent
<1> QED
  BY <1>4, <1>5, <1>6 DEF KindsFound, Ends, PinPort, PinFrom, NoType

(* After a port got its type, its process is in the queue.                 *)
LEMMA KindsTyped ==
  ASSUME ListsInv, KindsFound, declared' = declared, NEW p \in Ports,
         \A r \in Ports : \/ type'[r] = type[r]
                          \/ type[r] = type_flow_dependent /\ Owner[r] = Owner[p],
         UNCHANGED <<connections, type_pinnings>>,
         task'.stage = "propagate", task'.work = task.work, task.stage \in {"pin", "propagate"},
         task.stage = "propagate" => ToSet(task.kyu) \subseteq ToSet(task'.kyu) /\ task'.name = task.name,
         Owner[p] \in ToSet(task'.kyu), ToSet(task'.scan) \subseteq ToSet(task.scan),
         ToSet(untyped_connections') \subseteq ToSet(untyped_connections),
         task.stage = "pin" => task.scan = <<>>
  PROVE  KindsFound'
<1>1. Waiting' \subseteq Waiting /\ Pinned_' = Pinned_
  BY DEF Waiting, Pinned_
<1>2. /\ \A c \in ToSet(connections') : TypesAgree(c)'
      /\ \A c \in Waiting' : Ends(c) \subseteq Flowing'
      /\ \A x \in Pinned_' : PinPort(x) \in Flowing' /\ type'[PinFrom(x)] \notin NoType
  BY <1>1, KindsShrink DEF NoType
<1>3. ASSUME NEW c \in Conn, NEW e \in Ends(c), type[e] = type_flow_dependent \/ Queued(e)
      PROVE  type'[e] = type_flow_dependent \/ Queued(e)'
  <2>1. e \in Ports
    BY TheTypes DEF Ends
  <2>2. CASE type'[e] = type[e]
    BY <1>3, <2>2 DEF Queued
  <2>3. CASE type'[e] # type[e]
    BY <2>1, <2>3 DEF Queued
  <2> QED BY <2>2, <2>3
<1>4. \A c \in ToSet(untyped_connections') : \A e \in Ends(c) : type'[e] = type_flow_dependent \/ Queued(e)'
  BY <1>3, ListElements DEF KindsFound
<1>5. ASSUME NEW c \in ToSet(task'.scan), NEW e \in Ends(c)
      PROVE  type'[e] = type_flow_dependent \/ Queued(e)' \/ Owner[e] = task'.name
  <2>1. task.stage = "propagate" /\ c \in ToSet(task.scan) /\ c \in Conn
    BY <1>5, SmallLists, ListElements
  <2> QED BY <1>3, <2>1 DEF KindsFound
<1> QED
  BY <1>2, <1>4, <1>5 DEF KindsFound, Ends, PinPort, PinFrom, NoType

LEMMA PinGives ==
  ASSUME ListsInv, FlagsInv, HeldInv, TypesFound, KindsFound, ~failed, Pin
  PROVE  \E x \in Pinning :
           /\ x = Head(task.work) /\ x[1] \in Made /\ PinPort(x) \in Flowing
           /\ type[PinPort(x)] # type_data_dependent /\ type[PinFrom(x)] \notin NoType
           /\ type[PinFrom(x)] = type_any \/ type[PinFrom(x)] \in Pins(Made, PinPort(x))
           /\ setup /\ setup' = setup /\ accepted' = accepted /\ declared' = declared
           /\ \/ Throw /\ ~CanSet(PinPort(x), type[PinFrom(x)])
              \/ /\ CanSet(PinPort(x), type[PinFrom(x)])
                 /\ type' = Typed(PinPort(x), type[PinFrom(x)])
                 /\ task' = [task EXCEPT !.stage = "propagate", !.kyu = <<Owner[PinPort(x)]>>]
<1> DEFINE x == Head(task.work)
<1>1. /\ task.stage = "pin" /\ task.work \in Seq(Pinning) /\ task.work # <<>>
  BY DEF Pin, AtStage, ListsInv, TaskTyped
<1>2. x \in Pinning /\ x \in ToSet(task.work)
  BY <1>1, SetOfList
<1>3. /\ \/ Throw /\ ~CanSet(PinPort(x), type[PinFrom(x)])
         \/ /\ CanSet(PinPort(x), type[PinFrom(x)])
            /\ type' = Typed(PinPort(x), type[PinFrom(x)])
            /\ task' = [task EXCEPT !.stage = "propagate", !.kyu = <<Owner[PinPort(x)]>>]
      /\ setup' = setup /\ accepted' = accepted /\ declared' = declared
  BY DEF Pin, PinPort, PinFrom, Throw, flags, asked
<1> HIDE DEF x
<1>4. x \in Pinned_
  BY <1>1, <1>2 DEF Pinned_
<1>5. /\ x[1] \in Conn /\ PinPort(x) \in Ends(x[1]) /\ PinFrom(x) \in Ends(x[1])
      /\ x[1][1] \in Ports /\ x[1][2] \in Ports /\ x[1][2] \in Inputs
  BY <1>2, TheTypes DEF PinPort, PinFrom, Ends
<1>6. x[1] \in Made
  <2>1. x[1] \in Firsts(ToSet(task.work))
    BY <1>2 DEF Firsts
  <2>2. x[1] \in Pending /\ ~OfCluster(x[1]) /\ InSetup
    BY <1>1, <1>4, <2>1 DEF Pending, InTask, InSetup, ListsInv, KindsKnown
  <2> QED BY <1>5, <2>2, HeldMade
<1>7. PinPort(x) \in Flowing /\ type[PinFrom(x)] \notin NoType
  BY <1>4 DEF KindsFound
<1>8. type[PinPort(x)] # type_data_dependent
  <2>1. type[x[1][1]] # type_data_dependent
    BY <1>4 DEF ListsInv, KindsKnown
  <2>2. type[x[1][2]] # type_data_dependent
    BY <1>5, TheTypes DEF ListsInv, TypesKnown
  <2> QED BY <2>1, <2>2 DEF PinPort
<1>9. type[PinFrom(x)] = type_any \/ type[PinFrom(x)] \in Pins(Made, PinPort(x))
  BY <1>5, <1>6, <1>7, MadeParts, GivenType
<1>10. setup
  BY <1>1 DEF FlagsInv
<1> QED
  BY <1>2, <1>3, <1>6, <1>7, <1>8, <1>9, <1>10 DEF x

LEMMA PropagateGives ==
  ASSUME ListsInv, FlagsInv, HeldInv, TypesFound, KindsFound, ~failed, Propagate, Resolves(Head(task.scan))
  PROVE  \E c \in Made :
           /\ c = Head(task.scan) /\ Near(c) \in Ends(c) /\ Far(c) \in Flowing
           /\ type[Far(c)] # type_data_dependent /\ type[Near(c)] \notin NoType
           /\ type[Near(c)] \in Pins(Made, Far(c)) /\ type[Near(c)] # type_any
           /\ setup /\ setup' = setup /\ accepted' = accepted /\ declared' = declared
           /\ \/ Throw /\ ~CanSet(Far(c), type[Near(c)])
              \/ /\ CanSet(Far(c), type[Near(c)])
                 /\ type' = Typed(Far(c), type[Near(c)])
                 /\ task' = [task EXCEPT !.scan = Tail(@), !.calls = <<c>>,
                                         !.kyu = Append(@, Owner[Far(c)])]
                 /\ untyped_connections' = untyped_connections
<1> DEFINE c == Head(task.scan)
<1>1. /\ task.stage = "propagate" /\ task.scan \in Seq(Conn) /\ task.scan # <<>>
      /\ untyped_connections \in Seq(Conn)
  BY DEF Propagate, AtStage, ListsInv, ListsTyped, TaskTyped, Tasks
<1>2. c \in Conn /\ c \in ToSet(task.scan) /\ Resolves(c) /\ Kept(c) = <<>>
  BY <1>1, SetOfList DEF Kept
<1>3. /\ \/ Throw /\ ~CanSet(Far(c), type[Near(c)])
         \/ /\ CanSet(Far(c), type[Near(c)])
            /\ type' = Typed(Far(c), type[Near(c)])
            /\ task' = [task EXCEPT !.scan = Tail(@), !.calls = <<c>>, !.kyu = Append(@, Owner[Far(c)])]
      /\ setup' = setup /\ accepted' = accepted /\ declared' = declared
      /\ untyped_connections' = untyped_connections \o Kept(c)
  BY DEF Propagate, Throw, flags, asked
<1> HIDE DEF c
<1>4. untyped_connections' = untyped_connections
  BY <1>1, <1>2, <1>3, ConcatEmptySeq
<1>5. c \in Waiting /\ c[1] \in Ports /\ c[2] \in Ports /\ c[2] \in Inputs
  BY <1>2, TheTypes DEF Waiting
<1>6. Near(c) \in Ends(c) /\ Far(c) \in Ends(c) /\ Near(c) \in Flowing /\ Far(c) \in Flowing
  BY <1>5 DEF Near, Far, Ends, KindsFound
<1>7. c \in Made
  <2>1. c \in Pending /\ ~OfCluster(c) /\ InSetup
    BY <1>1, <1>2, <1>5 DEF Pending, InTask, InSetup, ListsInv, KindsKnown
  <2> QED BY <1>2, <2>1, HeldMade
<1>8. type[Near(c)] # type_data_dependent /\ type[Far(c)] # type_data_dependent
  <2>1. type[c[1]] # type_data_dependent
    BY <1>5 DEF ListsInv, KindsKnown
  <2>2. type[c[2]] # type_data_dependent
    BY <1>5, TheTypes DEF ListsInv, TypesKnown
  <2> QED BY <2>1, <2>2 DEF Near, Far
<1>9. type[Near(c)] \notin NoType /\ type[Near(c)] # type_any
  BY <1>2, <1>6, <1>8 DEF Resolves, NoType, TypesFound
<1>10. type[Near(c)] \in Pins(Made, Far(c))
  BY <1>6, <1>7, <1>9, MadeParts, GivenType
<1>11. setup
  BY <1>1 DEF FlagsInv
<1> QED
  BY <1>3, <1>4, <1>6, <1>7, <1>8, <1>9, <1>10, <1>11 DEF c

NoFlowLoop == \A c \in Flat(Wanted) : Owner[c[1]] = Owner[c[2]] => ~(Open(c[1]) /\ Open(c[2]))

LEMMA KindsPin ==
  ASSUME ListsInv, FlagsInv, HeldInv, TypesFound, KindsFound, ~failed, Pin, ~Throw
  PROVE  TypesFound' /\ KindsFound'
<1>1. PICK x \in Pinning :
           /\ PinPort(x) \in Flowing
           /\ type[PinPort(x)] # type_data_dependent /\ type[PinFrom(x)] \notin NoType
           /\ type[PinFrom(x)] = type_any \/ type[PinFrom(x)] \in Pins(Made, PinPort(x))
           /\ setup /\ setup' = setup /\ accepted' = accepted /\ declared' = declared
           /\ CanSet(PinPort(x), type[PinFrom(x)])
           /\ type' = Typed(PinPort(x), type[PinFrom(x)])
           /\ task' = [task EXCEPT !.stage = "propagate", !.kyu = <<Owner[PinPort(x)]>>]
  BY PinGives
<1> DEFINE p == PinPort(x)
<1>2. TypesFound' /\ \A r \in Ports : type'[r] = type[r] \/ (type[r] = type_flow_dependent /\ Owner[r] = Owner[p])
  <2>1. accepted \subseteq Conn
    BY MadeParts
  <2>2. PICK e, t : e = PinPort(x) /\ t = type[PinFrom(x)]
    OBVIOUS
  <2>3. /\ e \in Flowing /\ type[e] # type_data_dependent /\ t \notin NoType
        /\ t = type_any \/ t \in Pins(Made, e)
        /\ CanSet(e, t) /\ type' = Typed(e, t) /\ setup /\ setup' = setup
        /\ accepted' = accepted /\ declared' = declared
    BY <1>1, <2>2
  <2>4. /\ TypesFound'
        /\ \A r \in Ports : type'[r] = type[r] \/ (type[r] = type_flow_dependent /\ Owner[r] = Owner[e])
    BY <2>1, <2>3, TypesTyped
  <2> QED BY <2>2, <2>4
<1>3. /\ task \in Tasks /\ task.stage = "pin" /\ task.scan = <<>> /\ UNCHANGED lists
      /\ DOMAIN task = {"stage", "calls", "work", "kyu", "name", "scan"}
  BY DEF Pin, AtStage, ListsInv, TaskTyped, Tasks
<1>4. p \in Ports /\ Owner[p] \in Owners
  BY <1>1, TheTypes DEF Flowing
<1>5. /\ task'.stage = "propagate" /\ task'.work = task.work /\ task'.scan = task.scan
      /\ task'.kyu = <<Owner[p]>>
  BY <1>1, <1>3
<1>6. ToSet(task'.kyu) = {Owner[p]}
  BY <1>4, <1>5, SmallLists
<1> HIDE DEF p
<1>7. KindsFound'
  BY <1>1, <1>2, <1>3, <1>4, <1>5, <1>6, KindsTyped DEF lists
<1> QED
  BY <1>2, <1>7

LEMMA KindsNextName ==
  ASSUME ListsInv, KindsFound, NextName PROVE KindsFound'
<1>1. /\ task \in Tasks /\ task.stage = "propagate" /\ task.scan = <<>> /\ task.kyu # <<>>
      /\ task.kyu \in Seq(Owners)
      /\ DOMAIN task = {"stage", "calls", "work", "kyu", "name", "scan"}
  BY DEF NextName, AtStage, ListsInv, TaskTyped, Tasks
<1>2. /\ task' = [task EXCEPT !.name = Head(task.kyu), !.kyu = Tail(@), !.scan = untyped_connections]
      /\ untyped_connections' = <<>> /\ type' = type /\ declared' = declared
      /\ UNCHANGED <<connections, type_pinnings>>
  BY DEF NextName, asked
<1>3. /\ task'.stage = "propagate" /\ task'.name = Head(task.kyu) /\ task'.kyu = Tail(task.kyu)
      /\ task'.scan = untyped_connections /\ task'.work = task.work
  BY <1>1, <1>2
<1>4. ToSet(task.kyu) = {task'.name} \cup ToSet(task'.kyu) /\ ToSet(untyped_connections') = {}
  BY <1>1, <1>2, <1>3, SetOfList, SmallLists
<1>5. Waiting' \subseteq Waiting /\ Pinned_' = Pinned_
  BY <1>1, <1>2, <1>3, <1>4 DEF Waiting, Pinned_
<1>6. /\ \A c \in ToSet(connections') : TypesAgree(c)'
      /\ \A c \in Waiting' : Ends(c) \subseteq Flowing'
      /\ \A x \in Pinned_' : PinPort(x) \in Flowing' /\ type'[PinFrom(x)] \notin NoType
  BY <1>2, <1>5, KindsShrink
<1>7. ASSUME NEW c \in ToSet(task'.scan), NEW e \in Ends(c)
      PROVE  type'[e] = type_flow_dependent \/ Queued(e)' \/ Owner[e] = task'.name
  <2>1. type[e] = type_flow_dependent \/ Queued(e)
    BY <1>3, <1>7 DEF KindsFound
  <2>2. Queued(e) => Queued(e)' \/ Owner[e] = task'.name
    BY <1>1, <1>3, <1>4 DEF Queued
  <2> QED BY <1>2, <2>1, <2>2
<1> QED
  BY <1>4, <1>6, <1>7 DEF KindsFound, Ends, PinPort, PinFrom, NoType

LEMMA ScannedMade ==
  ASSUME ListsInv, HeldInv, ~failed, task.stage = "propagate", NEW c \in Waiting
  PROVE  c \in Made
<1>1. c \in Conn /\ c \in Pending /\ ~OfCluster(c) /\ InSetup
  BY ListElements DEF Pending, Listed, InTask, Waiting, InSetup, ListsInv, KindsKnown
<1> QED
  BY <1>1, HeldMade

LEMMA KindsUnresolved ==
  ASSUME NoFlowLoop, ListsInv, HeldInv, KindsFound, ~failed, accepted \subseteq Wanted,
         Propagate, ~Resolves(Head(task.scan))
  PROVE  KindsFound'
<1>1. PICK c : c = Head(task.scan)
  OBVIOUS
<1>2. /\ task \in Tasks /\ task.stage = "propagate" /\ task.scan \in Seq(Conn) /\ task.scan # <<>>
      /\ untyped_connections \in Seq(Conn)
      /\ DOMAIN task = {"stage", "calls", "work", "kyu", "name", "scan"}
  BY DEF Propagate, AtStage, ListsInv, ListsTyped, TaskTyped, Tasks
<1>3. c \in Conn /\ ToSet(task.scan) = {c} \cup ToSet(Tail(task.scan)) /\ c \in Waiting
  BY <1>1, <1>2, SetOfList DEF Waiting
<1>4. /\ untyped_connections' = untyped_connections \o <<c>>
      /\ task' = [task EXCEPT !.scan = Tail(@)] /\ type' = type /\ declared' = declared
      /\ UNCHANGED <<connections, type_pinnings>>
  BY <1>1 DEF Propagate, Kept, asked
<1>5. /\ task'.stage = "propagate" /\ task'.scan = Tail(task.scan) /\ task'.work = task.work
      /\ task'.kyu = task.kyu /\ task'.name = task.name
  BY <1>2, <1>4
<1>6. ToSet(untyped_connections') = ToSet(untyped_connections) \cup {c}
  <2>1. untyped_connections \o <<c>> = Append(untyped_connections, c)
    BY <1>2, <1>3, AppendIsConcat
  <2>2. untyped_connections' = Append(untyped_connections, c)
    BY <1>4, <2>1, Zenon
  <2>3. ToSet(Append(untyped_connections, c)) = ToSet(untyped_connections) \cup {c}
    BY <1>2, <1>3, SetOfList
  <2> QED BY <2>2, <2>3
<1>7. Waiting' \subseteq Waiting /\ Pinned_' = Pinned_
  BY <1>2, <1>3, <1>4, <1>5, <1>6 DEF Waiting, Pinned_
<1>8. /\ \A x \in ToSet(connections') : TypesAgree(x)'
      /\ \A x \in Waiting' : Ends(x) \subseteq Flowing'
      /\ \A x \in Pinned_' : PinPort(x) \in Flowing' /\ type'[PinFrom(x)] \notin NoType
  BY <1>4, <1>7, KindsShrink
<1>9. \A e : Queued(e)' <=> Queued(e)
  BY <1>2, <1>5 DEF Queued
<1>10. ASSUME NEW e \in Ends(c) PROVE type[e] = type_flow_dependent \/ Queued(e)
  <2> SUFFICES ASSUME Owner[e] = task.name, type[e] # type_flow_dependent PROVE FALSE
    BY <1>3 DEF KindsFound
  <2>1. ~(Owner[c[1]] = Owner[c[2]])
    <3>1. c \in Made /\ Open(c[1]) /\ Open(c[2])
      BY <1>2, <1>3, ScannedMade DEF ListsInv, KindsKnown
    <3>2. Made \subseteq Flat(Wanted)
      BY DEF Made, Flat
    <3> QED BY <3>1, <3>2 DEF NoFlowLoop
  <2>2. Near(c) = e
    BY <2>1 DEF Near, Ends
  <2> QED BY <1>1, <2>2 DEF Resolves
<1>11. \A x \in ToSet(untyped_connections') : \A e \in Ends(x) : type'[e] = type_flow_dependent \/ Queued(e)'
  BY <1>4, <1>6, <1>9, <1>10 DEF KindsFound
<1>12. \A x \in ToSet(task'.scan) : \A e \in Ends(x) :
         type'[e] = type_flow_dependent \/ Queued(e)' \/ Owner[e] = task'.name
  BY <1>3, <1>4, <1>5, <1>9 DEF KindsFound
<1> QED
  BY <1>8, <1>11, <1>12 DEF KindsFound, Ends, PinPort, PinFrom, NoType

LEMMA KindsPropagate ==
  ASSUME NoFlowLoop, ListsInv, FlagsInv, HeldInv, TypesFound, KindsFound, ~failed, accepted \subseteq Wanted,
         Propagate, ~Throw
  PROVE  TypesFound' /\ KindsFound'
<1>1. accepted \subseteq Conn
  BY MadeParts
<1>2. CASE ~Resolves(Head(task.scan))
  <2>1. type' = type /\ declared' = declared /\ setup' = setup /\ accepted' = accepted
    BY <1>2 DEF Propagate, flags, asked
  <2> QED BY <1>1, <1>2, <2>1, KindsUnresolved, TypesKept
<1>3. CASE Resolves(Head(task.scan))
  <2>1. PICK c \in Made :
           /\ Near(c) \in Ends(c) /\ Far(c) \in Flowing
           /\ type[Far(c)] # type_data_dependent /\ type[Near(c)] \notin NoType
           /\ type[Near(c)] \in Pins(Made, Far(c)) /\ type[Near(c)] # type_any
           /\ setup /\ setup' = setup /\ accepted' = accepted /\ declared' = declared
           /\ CanSet(Far(c), type[Near(c)])
           /\ type' = Typed(Far(c), type[Near(c)])
           /\ task' = [task EXCEPT !.scan = Tail(@), !.calls = <<c>>, !.kyu = Append(@, Owner[Far(c)])]
           /\ untyped_connections' = untyped_connections
    BY <1>3, PropagateGives
  <2>2. PICK e, t : e = Far(c) /\ t = type[Near(c)]
    OBVIOUS
  <2>3. /\ TypesFound'
        /\ \A r \in Ports : type'[r] = type[r] \/ (type[r] = type_flow_dependent /\ Owner[r] = Owner[e])
    <3>1. /\ e \in Flowing /\ type[e] # type_data_dependent /\ t \notin NoType
          /\ t = type_any \/ t \in Pins(Made, e)
          /\ CanSet(e, t) /\ type' = Typed(e, t) /\ setup /\ setup' = setup
          /\ accepted' = accepted /\ declared' = declared
      BY <2>1, <2>2
    <3> QED BY <1>1, <3>1, TypesTyped
  <2>4. /\ task \in Tasks /\ task.stage = "propagate" /\ task.scan \in Seq(Conn) /\ task.scan # <<>>
        /\ task.kyu \in Seq(Owners)
        /\ UNCHANGED <<connections, type_pinnings>>
        /\ DOMAIN task = {"stage", "calls", "work", "kyu", "name", "scan"}
    BY DEF Propagate, AtStage, ListsInv, TaskTyped, Tasks
  <2>5. e \in Ports /\ Owner[e] \in Owners
    BY <2>1, <2>2, TheTypes DEF Flowing
  <2>6. /\ task'.stage = "propagate" /\ task'.work = task.work /\ task'.scan = Tail(task.scan)
        /\ task'.kyu = Append(task.kyu, Owner[e]) /\ task'.name = task.name
    BY <2>1, <2>2, <2>4
  <2>7. /\ ToSet(task'.kyu) = ToSet(task.kyu) \cup {Owner[e]}
        /\ ToSet(task'.scan) \subseteq ToSet(task.scan)
    BY <2>4, <2>5, <2>6, SetOfList
  <2>8. KindsFound'
    BY <2>1, <2>3, <2>4, <2>5, <2>6, <2>7, KindsTyped
  <2> QED BY <2>3, <2>8
<1> QED
  BY <1>2, <1>3

LEMMA ThrowEnds ==
  ASSUME FlagsInv, Throw, InSetup PROVE ~Live'
<1>1. setup' = setup /\ task'.stage = "idle"
  BY DEF Throw, Idle
<1> QED
  BY <1>1 DEF FlagsInv, InSetup, Live

LEMMA KindsReset ==
  ASSUME Reset PROVE KindsFound'
<1>1. /\ connections' = <<>> /\ untyped_connections' = <<>> /\ type_pinnings' = <<>>
      /\ task'.scan = <<>> /\ task'.stage = "replay"
  BY DEF Reset, Idle
<1>2. /\ ToSet(connections') = {} /\ ToSet(untyped_connections') = {} /\ ToSet(type_pinnings') = {}
      /\ ToSet(task'.scan) = {}
  BY <1>1, SmallLists
<1>3. Waiting' = {} /\ Pinned_' = {}
  BY <1>1, <1>2 DEF Waiting, Pinned_
<1> QED
  BY <1>2, <1>3 DEF KindsFound

LEMMA KindsDisconnect ==
  ASSUME ListsInv, KindsFound, NEW c \in Wanted, Disconnect(c) PROVE KindsFound'
<1>1. /\ connections' = Without(connections, c) /\ untyped_connections' = Without(untyped_connections, c)
      /\ type_pinnings' = type_pinnings /\ type' = type /\ declared' = declared /\ task' = task
      /\ task.stage = "idle" /\ task.scan = <<>>
      /\ connections \in Seq(Conn) /\ untyped_connections \in Seq(Conn)
  BY DEF Disconnect, Idle, ListsInv, ListsTyped
<1>2. /\ ToSet(connections') \subseteq ToSet(connections)
      /\ ToSet(untyped_connections') \subseteq ToSet(untyped_connections)
      /\ ToSet(task'.scan) = {}
  BY <1>1, SetOfList, SmallLists DEF Without
<1>3. Waiting' \subseteq Waiting /\ Pinned_' = Pinned_
  BY <1>1, <1>2 DEF Waiting, Pinned_
<1> QED
  BY <1>1, <1>2, <1>3, KindsMoved

LEMMA KindsOthers ==
  ASSUME ListsInv, KindsFound, SetupPipeline \/ MapCluster \/ TakePinnings \/ RetryPinned \/ EndReset
  PROVE  KindsFound'
<1>1. /\ type' = type /\ declared' = declared
      /\ UNCHANGED <<connections, untyped_connections>>
  BY DEF SetupPipeline, MapCluster, TakePinnings, RetryPinned, EndReset, lists, asked
<1>2. /\ task \in Tasks /\ DOMAIN task = {"stage", "calls", "work", "kyu", "name", "scan"}
      /\ task.stage # "propagate" => task.scan = <<>>
      /\ task.stage = "propagate" => task.work \in Seq(Pinning) /\ task.work # <<>>
  BY DEF ListsInv, TaskTyped, Tasks
<1>3. CASE SetupPipeline
  <2>1. /\ task'.stage = "map" /\ task'.scan = <<>> /\ task.stage = "idle"
        /\ type_pinnings' = type_pinnings
    BY <1>3 DEF SetupPipeline, Idle
  <2>2. Waiting' \subseteq Waiting /\ Pinned_' \subseteq Pinned_ /\ ToSet(task'.scan) = {}
    BY <1>1, <2>1, SmallLists DEF Waiting, Pinned_
  <2> QED BY <1>1, <2>1, <2>2, KindsMoved
<1>4. CASE MapCluster
  <2>1. /\ task'.stage \in {"map", "configure"} /\ task'.scan = <<>> /\ task.stage = "map"
        /\ type_pinnings' = type_pinnings
    BY <1>2, <1>4 DEF MapCluster, AtStage
  <2>2. Waiting' \subseteq Waiting /\ Pinned_' \subseteq Pinned_ /\ ToSet(task'.scan) = {}
    BY <1>1, <2>1, SmallLists DEF Waiting, Pinned_
  <2> QED BY <1>1, <2>1, <2>2, KindsMoved
<1>5. CASE TakePinnings
  <2>1. /\ task'.stage = "pin" /\ task'.scan = <<>> /\ task.stage \in {"configure", "pin"}
        /\ type_pinnings' = <<>> /\ task'.work = type_pinnings
    BY <1>2, <1>5 DEF TakePinnings, AtStage
  <2>2. Waiting' \subseteq Waiting /\ Pinned_' \subseteq Pinned_ /\ ToSet(task'.scan) = {}
    BY <1>1, <2>1, SmallLists DEF Waiting, Pinned_
  <2> QED BY <1>1, <2>1, <2>2, KindsMoved
<1>6. CASE RetryPinned
  <2>1. /\ task'.stage = "pin" /\ task'.scan = <<>> /\ task.stage = "propagate" /\ task.kyu = <<>>
        /\ type_pinnings' = type_pinnings /\ task'.work = Tail(task.work)
    BY <1>2, <1>6 DEF RetryPinned, AtStage, lists
  <2>2. ToSet(task'.work) \subseteq ToSet(task.work)
    BY <1>2, <2>1, SetOfList
  <2>3. Waiting' \subseteq Waiting /\ Pinned_' \subseteq Pinned_ /\ ToSet(task'.scan) = {}
    BY <1>1, <2>1, <2>2, SmallLists DEF Waiting, Pinned_
  <2> QED BY <1>1, <2>1, <2>3, KindsMoved
<1>7. CASE EndReset
  <2>1. /\ task'.stage = "idle" /\ task'.scan = <<>> /\ task.stage = "replay"
        /\ type_pinnings' = type_pinnings
    BY <1>7 DEF EndReset, AtStage, Idle, lists
  <2>2. Waiting' \subseteq Waiting /\ Pinned_' \subseteq Pinned_ /\ ToSet(task'.scan) = {}
    BY <1>1, <2>1, SmallLists DEF Waiting, Pinned_
  <2> QED BY <1>1, <2>1, <2>2, KindsMoved
<1> QED
  BY <1>3, <1>4, <1>5, <1>6, <1>7

LEMMA KindsReconnect ==
  ASSUME ListsInv, TypesFound, KindsFound, Reconnect, ~Refused(Head(task.calls)) PROVE KindsFound'
<1>1. /\ task \in Tasks /\ DOMAIN task = {"stage", "calls", "work", "kyu", "name", "scan"}
      /\ task.calls \in Seq(Conn) /\ task.calls # <<>>
  BY DEF ListsInv, TaskTyped, Tasks, Reconnect
<1>2. PICK c \in Conn : c = Head(task.calls)
  BY <1>1, SetOfList
<1>3. Connect(c) /\ type' = type /\ declared' = declared /\ task' = [task EXCEPT !.calls = Tail(@)]
  BY <1>2 DEF Reconnect
<1>4. /\ task'.stage = task.stage /\ task'.work = task.work /\ task'.scan = task.scan
      /\ task'.kyu = task.kyu /\ task'.name = task.name
  BY <1>1, <1>3
<1> QED
  BY <1>3, <1>4, KindsConnected

LEMMA KindsNext ==
  ASSUME NoFlowLoop, ListsInv, FlagsInv, HeldInv, TypesFound, Live => KindsFound, ~failed, ~failed',
         accepted \subseteq Wanted, [Next]_vars
  PROVE  TypesFound' /\ (Live' => KindsFound')
<1>1. accepted \subseteq Conn
  BY MadeParts
<1>2. ASSUME NEW c \in Wanted, AskFor(c) PROVE TypesFound' /\ KindsFound'
  <2>1. /\ ~setup /\ c \in Conn /\ Connect(c) /\ task' = task
        /\ type' = type /\ declared' = declared /\ setup' = setup
    BY <1>2, TheTypes DEF AskFor, FlagsInv, Idle, flags
  <2>2. KindsFound'
    BY <2>1, KindsConnected DEF Live
  <2> QED BY <2>1, <2>2, TypesKept
<1>3. ASSUME NEW c \in Wanted, Disconnect(c) PROVE TypesFound' /\ KindsFound'
  <2>1. ~setup /\ type' = type /\ declared' = declared /\ setup' = setup
    BY <1>3 DEF Disconnect, flags
  <2>2. KindsFound'
    BY <1>3, <2>1, KindsDisconnect DEF Live
  <2> QED BY <2>1, <2>2, TypesKept
<1>4. CASE SetupPipeline \/ MapCluster \/ TakePinnings \/ RetryPinned \/ EndReset
  <2>1. type' = type /\ declared' = declared /\ (setup => setup') /\ accepted' = accepted
    BY <1>4 DEF SetupPipeline, MapCluster, TakePinnings, RetryPinned, EndReset, flags, asked
  <2>2. Live
    BY <1>4 DEF SetupPipeline, MapCluster, TakePinnings, RetryPinned, EndReset, Live, AtStage, InSetup, FlagsInv
  <2> QED BY <1>1, <1>4, <2>1, <2>2, TypesKept, KindsOthers
<1>5. CASE Reconnect
  <2>1. task.stage # "idle" /\ type' = type /\ declared' = declared /\ setup' = setup
    BY <1>5 DEF Reconnect, ListsInv, TaskTyped, Throw, flags
  <2>2. task.stage # "replay" => accepted' = accepted
    BY <1>5 DEF Reconnect, Throw
  <2>3. TypesFound'
    BY <1>1, <2>1, <2>2, TypesKept DEF FlagsInv
  <2>4. CASE Refused(Head(task.calls))
    <3>1. Throw
      BY <1>5, <2>4 DEF Reconnect
    <3>2. InSetup
      BY <2>1, <3>1 DEF Throw, InSetup
    <3> QED BY <2>3, <3>1, <3>2, ThrowEnds
  <2>5. CASE ~Refused(Head(task.calls))
    <3>1. Live
      BY <2>1 DEF Live, InSetup, FlagsInv
    <3> QED BY <1>5, <2>3, <2>5, <3>1, KindsReconnect
  <2> QED BY <2>4, <2>5
<1>6. CASE ConfigureProcess \/ Pin \/ NextName \/ Propagate \/ FinishSetup
  <2>1. InSetup /\ Live
    BY <1>6 DEF ConfigureProcess, Pin, NextName, Propagate, FinishSetup, AtStage, InSetup, Live
  <2>2. Throw => ~Live'
    BY <2>1, ThrowEnds
  <2>3. CASE ConfigureProcess
    BY <1>1, <2>1, <2>2, <2>3, TypesConfigure, KindsConfigure
  <2>4. CASE Pin
    <3>1. CASE Throw
      <4>1. type' = type /\ declared' = declared /\ (setup => setup') /\ accepted' = accepted
        <5>1. ~CanSet(PinPort(Head(task.work)), type[PinFrom(Head(task.work))]) => type' = type
          BY <2>4 DEF Pin, PinPort, PinFrom
        <5>2. task'.stage = "idle"
          BY <3>1 DEF Throw, Idle
        <5>3. CanSet(PinPort(Head(task.work)), type[PinFrom(Head(task.work))]) =>
                \E k : task' = [task EXCEPT !.stage = "propagate", !.kyu = k]
          BY <2>4 DEF Pin, PinPort, PinFrom
        <5>4. \A k : [task EXCEPT !.stage = "propagate", !.kyu = k].stage = "propagate"
          BY DEF ListsInv, TaskTyped, Tasks
        <5> QED BY <3>1, <5>1, <5>2, <5>3, <5>4 DEF Throw
      <4> QED BY <1>1, <2>2, <3>1, <4>1, TypesKept
    <3>2. CASE ~Throw
      BY <2>1, <2>4, <3>2, KindsPin
    <3> QED BY <3>1, <3>2
  <2>5. CASE NextName
    <3>1. type' = type /\ declared' = declared /\ setup' = setup /\ accepted' = accepted
      BY <2>5 DEF NextName, flags, asked
    <3> QED BY <1>1, <2>1, <2>5, <3>1, TypesKept, KindsNextName
  <2>6. CASE Propagate
    <3>1. CASE Throw
      <4>1. type' = type /\ declared' = declared /\ (setup => setup') /\ accepted' = accepted
        <5>1. task'.stage = "idle" /\ task.stage = "propagate" /\ DOMAIN task = {"stage", "calls", "work", "kyu", "name", "scan"}
          BY <2>6, <3>1 DEF Throw, Idle, Propagate, AtStage, ListsInv, TaskTyped, Tasks
        <5>2. \A s, d, k : /\ [task EXCEPT !.scan = s].stage = "propagate"
                           /\ [task EXCEPT !.scan = s, !.calls = d, !.kyu = k].stage = "propagate"
          BY <5>1
        <5>3. \/ \E s : task' = [task EXCEPT !.scan = s]
              \/ type' = type
              \/ \E s, d, k : task' = [task EXCEPT !.scan = s, !.calls = d, !.kyu = k]
          BY <2>6 DEF Propagate
        <5> QED BY <3>1, <5>1, <5>2, <5>3 DEF Throw
      <4> QED BY <1>1, <2>2, <3>1, <4>1, TypesKept
    <3>2. CASE ~Throw
      BY <2>1, <2>6, <3>2, KindsPropagate
    <3> QED BY <3>1, <3>2
  <2>7. CASE FinishSetup
    <3>1. type' = type /\ declared' = declared /\ setup' = setup /\ accepted' = accepted /\ task'.stage = "idle"
      <4>1. \/ Throw
            \/ task' = Idle /\ setup' = setup /\ UNCHANGED asked
        BY <2>7 DEF FinishSetup
      <4>2. type' = type
        BY <2>7 DEF FinishSetup
      <4>3. task' = Idle
        BY <4>1 DEF Throw
      <4>4. declared' = declared /\ accepted' = accepted
        BY <4>1 DEF Throw, asked
      <4>5. setup' = setup
        BY <4>1 DEF Throw
      <4> QED BY <4>2, <4>3, <4>4, <4>5 DEF Idle
    <3>2. ~Live'
      BY <2>1, <3>1 DEF Live, InSetup, FlagsInv
    <3> QED BY <1>1, <3>1, <3>2, TypesKept
  <2> QED BY <1>6, <2>3, <2>4, <2>5, <2>6, <2>7
<1>7. CASE Start \/ Stop \/ UNCHANGED vars
  <2>1. UNCHANGED <<lists, type, task, declared, setup, accepted>>
    BY <1>7 DEF Start, Stop, vars, flags, asked
  <2>2. Live' => KindsFound'
    <3>1. UNCHANGED <<connections, untyped_connections, type_pinnings>>
      BY <2>1 DEF lists
    <3>2. Flowing' = Flowing /\ Waiting' = Waiting /\ Pinned_' = Pinned_
      BY <2>1, <3>1, TypingStays DEF Waiting, Pinned_
    <3> QED BY <2>1, <3>1, <3>2 DEF Live, InSetup, KindsFound, TypesAgree, Queued, Ends, PinPort, PinFrom
  <2> QED BY <1>1, <2>1, <2>2, TypesKept
<1>8. CASE Reset
  BY <1>8, TypesReset, KindsReset
<1> QED
  BY <1>2, <1>3, <1>4, <1>5, <1>6, <1>7, <1>8 DEF Next, Setup

-----------------------------------------------------------------------------
(* How set-up hands connections on.                                        *)

MapWork == IF task.stage = "map" THEN task.work ELSE <<>>
PinWork == IF task.stage \in {"pin", "propagate"} THEN task.work ELSE <<>>

ClusterTaken ==
  /\ MapWork = <<>> /\ MapWork' = cluster_connections /\ cluster_connections' = <<>>
  /\ UNCHANGED <<connections, data_dep_connections, untyped_connections, type_pinnings,
                 task.calls, task.scan, PinWork>>

ClusterMapped ==
  /\ MapWork # <<>> /\ task.calls = <<>> /\ OfCluster(Head(MapWork))
  /\ task'.calls = Mapped(Head(MapWork)) /\ MapWork' = Tail(MapWork)
  /\ UNCHANGED <<connections, cluster_connections, data_dep_connections, untyped_connections,
                 type_pinnings, task.scan, PinWork>>

TypesGiven ==
  /\ task.calls = <<>>
  /\ \E A \in SUBSET ToSet(data_dep_connections) :
       /\ task'.calls = Chosen(data_dep_connections, A)
       /\ data_dep_connections' = Chosen(data_dep_connections, ToSet(data_dep_connections) \ A)
  /\ UNCHANGED <<connections, cluster_connections, untyped_connections, type_pinnings,
                 task.scan, MapWork, PinWork>>

PinningsTaken ==
  /\ PinWork = <<>> /\ PinWork' = type_pinnings /\ type_pinnings' = <<>>
  /\ UNCHANGED <<connections, cluster_connections, data_dep_connections, untyped_connections,
                 task.calls, task.scan, MapWork>>

PinningRetried ==
  /\ PinWork # <<>> /\ task.calls = <<>>
  /\ task'.calls = <<Head(PinWork)[1]>> /\ PinWork' = Tail(PinWork)
  /\ UNCHANGED <<connections, cluster_connections, data_dep_connections, untyped_connections,
                 type_pinnings, task.scan, MapWork>>

UntypedTaken ==
  /\ task.scan = <<>> /\ task'.scan = untyped_connections /\ untyped_connections' = <<>>
  /\ UNCHANGED <<connections, cluster_connections, data_dep_connections, type_pinnings,
                 task.calls, MapWork, PinWork>>

UntypedKept ==
  /\ task.scan # <<>> /\ task'.scan = Tail(task.scan)
  /\ untyped_connections' = Append(untyped_connections, Head(task.scan))
  /\ UNCHANGED <<connections, cluster_connections, data_dep_connections, type_pinnings,
                 task.calls, MapWork, PinWork>>

UntypedCalled ==
  /\ task.scan # <<>> /\ task.calls = <<>>
  /\ task'.scan = Tail(task.scan) /\ task'.calls = <<Head(task.scan)>>
  /\ UNCHANGED <<connections, cluster_connections, data_dep_connections, untyped_connections,
                 type_pinnings, MapWork, PinWork>>

NothingMoved ==
  UNCHANGED <<connections, cluster_connections, data_dep_connections, untyped_connections,
              type_pinnings, task.calls, task.scan, MapWork, PinWork>>

HandedOn ==
  \/ ClusterTaken \/ ClusterMapped \/ TypesGiven \/ PinningsTaken \/ PinningRetried
  \/ UntypedTaken \/ UntypedKept \/ UntypedCalled \/ NothingMoved

LEMMA WorkTyped ==
  ASSUME ListsInv
  PROVE  /\ MapWork \in Seq(Conn) /\ PinWork \in Seq(Pinning) /\ task.calls \in Seq(Conn)
         /\ task.scan \in Seq(Conn) /\ connections \in Seq(Conn) /\ cluster_connections \in Seq(Conn)
         /\ data_dep_connections \in Seq(Conn) /\ untyped_connections \in Seq(Conn)
         /\ type_pinnings \in Seq(Pinning) /\ planned_connections \in Seq(Conn)
         /\ DOMAIN task = {"stage", "calls", "work", "kyu", "name", "scan"} /\ task \in Tasks
<1>1. /\ connections \in Seq(Conn) /\ untyped_connections \in Seq(Conn) /\ type_pinnings \in Seq(Pinning)
      /\ data_dep_connections \in Seq(Conn)
      /\ cluster_connections \in Seq(Conn) /\ planned_connections \in Seq(Conn)
  BY DEF ListsInv, ListsTyped
<1>2. /\ task.stage = "map" => task.work \in Seq(Conn)
      /\ task.stage \in {"pin", "propagate"} => task.work \in Seq(Pinning)
      /\ task \in Tasks
  BY DEF ListsInv, TaskTyped
<1>3. MapWork \in Seq(Conn) /\ PinWork \in Seq(Pinning)
  BY <1>2, SmallLists DEF MapWork, PinWork
<1> QED
  BY <1>1, <1>2, <1>3 DEF Tasks

LEMMA Handing ==
  ASSUME ListsInv, SetupPipeline \/ MapCluster \/ ConfigureProcess \/ TakePinnings \/ Pin \/ NextName
                   \/ Propagate \/ RetryPinned \/ EndReset,
         ~Throw
  PROVE  HandedOn
<1>1. /\ DOMAIN task = {"stage", "calls", "work", "kyu", "name", "scan"}
      /\ task.stage # "propagate" => task.scan = <<>>
      /\ task.stage = "propagate" => task.work # <<>>
      /\ data_dep_connections \in Seq(Conn) /\ untyped_connections \in Seq(Conn) /\ task.scan \in Seq(Conn)
      /\ task.stage = "map" => \A c \in ToSet(task.work) : OfCluster(c)
      /\ task.stage = "map" => task.work \in Seq(Conn)
  BY WorkTyped DEF ListsInv, TaskTyped, KindsKnown
<1>2. CASE SetupPipeline
  <2>1. /\ task.stage = "idle" /\ task.calls = <<>> /\ task.scan = <<>>
        /\ task'.stage = "map" /\ task'.calls = <<>> /\ task'.scan = <<>> /\ task'.work = cluster_connections
    BY <1>2 DEF SetupPipeline, Idle
  <2>2. ClusterTaken
    BY <1>2, <2>1 DEF SetupPipeline, ClusterTaken, MapWork, PinWork
  <2> QED BY <2>2 DEF HandedOn
<1>3. CASE MapCluster
  <2>1. task.stage = "map" /\ task.calls = <<>>
    BY <1>3 DEF MapCluster, AtStage
  <2>2. CASE task.work # <<>>
    <3>1. /\ task' = [task EXCEPT !.calls = Mapped(Head(task.work)), !.work = Tail(@)]
          /\ UNCHANGED <<connections, cluster_connections, data_dep_connections, untyped_connections,
                         type_pinnings>>
      BY <1>3, <2>2 DEF MapCluster
    <3>2. /\ task'.stage = "map" /\ task'.calls = Mapped(Head(task.work)) /\ task'.scan = task.scan
          /\ task'.work = Tail(task.work)
      BY <1>1, <2>1, <3>1
    <3>3. OfCluster(Head(task.work))
      BY <1>1, <2>1, <2>2, SetOfList
    <3>4. ClusterMapped
      BY <2>1, <2>2, <3>1, <3>2, <3>3 DEF ClusterMapped, MapWork, PinWork
    <3> QED BY <3>4 DEF HandedOn
  <2>3. CASE task.work = <<>>
    <3>1. /\ task' = IF cluster_connections # <<>>
                     THEN [task EXCEPT !.work = cluster_connections]
                     ELSE [task EXCEPT !.stage = "configure", !.work = Procs]
          /\ cluster_connections' = <<>>
          /\ UNCHANGED <<connections, data_dep_connections, untyped_connections, type_pinnings>>
      BY <1>3, <2>3 DEF MapCluster
    <3>2. /\ task'.calls = task.calls /\ task'.scan = task.scan
          /\ \/ task'.stage = "map" /\ task'.work = cluster_connections
             \/ task'.stage = "configure" /\ cluster_connections = <<>>
      BY <1>1, <2>1, <3>1
    <3>3. ClusterTaken
      BY <2>1, <2>3, <3>1, <3>2 DEF ClusterTaken, MapWork, PinWork
    <3> QED BY <3>3 DEF HandedOn
  <2> QED BY <2>2, <2>3
<1>4. CASE ConfigureProcess
  <2>1. PICK A : /\ A = {c \in ToSet(data_dep_connections) : Owner[c[1]] = Head(task.work)}
                 /\ data_dep_connections' = Chosen(data_dep_connections, ToSet(data_dep_connections) \ A)
                 /\ task' = [task EXCEPT !.calls = Chosen(data_dep_connections, A), !.work = Tail(@)]
    BY <1>4 DEF ConfigureProcess
  <2>2. /\ task.stage = "configure" /\ task.calls = <<>>
        /\ UNCHANGED <<connections, cluster_connections, untyped_connections, type_pinnings>>
    BY <1>4 DEF ConfigureProcess, AtStage
  <2>3. /\ task'.stage = "configure" /\ task'.calls = Chosen(data_dep_connections, A)
        /\ task'.scan = task.scan
    BY <1>1, <2>1, <2>2
  <2>4. TypesGiven
    BY <2>1, <2>2, <2>3 DEF TypesGiven, MapWork, PinWork
  <2> QED BY <2>4 DEF HandedOn
<1>5. CASE TakePinnings
  <2>1. /\ task.stage \in {"configure", "pin"} /\ task.work = <<>> /\ type_pinnings' = <<>>
        /\ task' = [task EXCEPT !.stage = "pin", !.work = type_pinnings]
        /\ UNCHANGED <<connections, cluster_connections, data_dep_connections, untyped_connections>>
    BY <1>5 DEF TakePinnings, AtStage
  <2>2. /\ task'.stage = "pin" /\ task'.work = type_pinnings /\ task'.calls = task.calls
        /\ task'.scan = task.scan
    BY <1>1, <2>1
  <2>3. PinningsTaken
    BY <2>1, <2>2 DEF PinningsTaken, MapWork, PinWork
  <2> QED BY <2>3 DEF HandedOn
<1>6. CASE Pin
  <2>1. task.stage = "pin" /\ UNCHANGED lists /\ \E k : task' = [task EXCEPT !.stage = "propagate", !.kyu = k]
    <3>1. ~Throw => \E k : task' = [task EXCEPT !.stage = "propagate", !.kyu = k]
      BY <1>6 DEF Pin
    <3> QED BY <1>6, <3>1 DEF Pin, AtStage
  <2>2. /\ task'.stage = "propagate" /\ task'.work = task.work /\ task'.calls = task.calls
        /\ task'.scan = task.scan
    BY <1>1, <2>1
  <2>3. NothingMoved
    BY <2>1, <2>2 DEF NothingMoved, MapWork, PinWork, lists
  <2> QED BY <2>3 DEF HandedOn
<1>7. CASE NextName
  <2>1. /\ task.stage = "propagate" /\ task.scan = <<>> /\ untyped_connections' = <<>>
        /\ task' = [task EXCEPT !.name = Head(task.kyu), !.kyu = Tail(@), !.scan = untyped_connections]
        /\ UNCHANGED <<connections, cluster_connections, data_dep_connections, type_pinnings>>
    BY <1>7 DEF NextName, AtStage
  <2>2. /\ task'.stage = "propagate" /\ task'.work = task.work /\ task'.calls = task.calls
        /\ task'.scan = untyped_connections
    BY <1>1, <2>1
  <2>3. UntypedTaken
    BY <2>1, <2>2 DEF UntypedTaken, MapWork, PinWork
  <2> QED BY <2>3 DEF HandedOn
<1>8. CASE Propagate
  <2>1. /\ task.stage = "propagate" /\ task.scan # <<>> /\ task.calls = <<>>
        /\ untyped_connections' = untyped_connections \o Kept(Head(task.scan))
        /\ UNCHANGED <<connections, cluster_connections, data_dep_connections, type_pinnings>>
    BY <1>8 DEF Propagate, AtStage
  <2>2. Head(task.scan) \in Conn
    BY <1>1, <2>1, SetOfList
  <2>3. CASE Resolves(Head(task.scan))
    <3>1. \E k : task' = [task EXCEPT !.scan = Tail(@), !.calls = <<Head(task.scan)>>, !.kyu = k]
      BY <1>8, <2>3 DEF Propagate
    <3>2. /\ task'.stage = "propagate" /\ task'.work = task.work /\ task'.calls = <<Head(task.scan)>>
          /\ task'.scan = Tail(task.scan)
      BY <1>1, <2>1, <3>1
    <3>3. untyped_connections' = untyped_connections
      <4>1. untyped_connections' = untyped_connections \o <<>>
        BY <2>1, <2>3 DEF Kept
      <4> QED BY <1>1, <4>1, ConcatEmptySeq
    <3>4. UntypedCalled
      BY <2>1, <3>2, <3>3 DEF UntypedCalled, MapWork, PinWork
    <3> QED BY <3>4 DEF HandedOn
  <2>4. CASE ~Resolves(Head(task.scan))
    <3>1. task' = [task EXCEPT !.scan = Tail(@)]
      BY <1>8, <2>4 DEF Propagate
    <3>2. /\ task'.stage = "propagate" /\ task'.work = task.work /\ task'.calls = task.calls
          /\ task'.scan = Tail(task.scan)
      BY <1>1, <2>1, <3>1
    <3>3. untyped_connections' = Append(untyped_connections, Head(task.scan))
      <4>1. untyped_connections' = untyped_connections \o <<Head(task.scan)>>
        BY <2>1, <2>4 DEF Kept
      <4>2. Append(untyped_connections, Head(task.scan)) = untyped_connections \o <<Head(task.scan)>>
        BY <1>1, <2>2, AppendIsConcat
      <4> QED BY <4>1, <4>2, Zenon
    <3>4. UntypedKept
      BY <2>1, <3>2, <3>3 DEF UntypedKept, MapWork, PinWork
    <3> QED BY <3>4 DEF HandedOn
  <2> QED BY <2>3, <2>4
<1>9. CASE RetryPinned
  <2>1. /\ task.stage = "propagate" /\ task.scan = <<>> /\ task.calls = <<>> /\ UNCHANGED lists
        /\ task' = [task EXCEPT !.stage = "pin", !.calls = <<Head(task.work)[1]>>, !.work = Tail(@)]
    BY <1>9 DEF RetryPinned, AtStage
  <2>2. /\ task'.stage = "pin" /\ task'.work = Tail(task.work) /\ task'.calls = <<Head(task.work)[1]>>
        /\ task'.scan = task.scan
    BY <1>1, <2>1
  <2>3. PinningRetried
    BY <1>1, <2>1, <2>2 DEF PinningRetried, MapWork, PinWork, lists
  <2> QED BY <2>3 DEF HandedOn
<1>10. CASE EndReset
  <2>1. task.stage = "replay" /\ task.calls = <<>> /\ task' = Idle /\ UNCHANGED lists
    BY <1>10 DEF EndReset, AtStage
  <2>2. task'.stage = "idle" /\ task'.calls = <<>> /\ task'.scan = <<>> /\ task.scan = <<>>
    BY <1>1, <2>1 DEF Idle
  <2>3. NothingMoved
    BY <2>1, <2>2 DEF NothingMoved, MapWork, PinWork, lists
  <2> QED BY <2>3 DEF HandedOn
<1> QED
  BY <1>2, <1>3, <1>4, <1>5, <1>6, <1>7, <1>8, <1>9, <1>10

-----------------------------------------------------------------------------
(* Each connection is held as often as it was asked for.                   *)

PinnedOf(S) == {x \in Pinning : x[1] \in S}

ListTotal(S) ==
  Hits(connections, S) + Hits(cluster_connections, S) + Hits(data_dep_connections, S)
    + Hits(untyped_connections, S) + Hits(type_pinnings, PinnedOf(S))

TaskTotal(S) ==
  Hits(task.calls, S) + Hits(task.scan, S) + Hits(MapWork, S) + Hits(PinWork, PinnedOf(S))

Total(S) == ListTotal(S) + TaskTotal(S)

(* What the lists must hold: a reset has still to ask for its calls.       *)
Due == accepted \cup (IF task.stage = "replay" THEN ToSet(task.calls) ELSE {})


PlannedOnce == \A S : Hits(planned_connections, S) = Cardinality(ToSet(planned_connections) \cap S)
HeldOnce    == ~setup => \A S : Total(S) = Cardinality(Due \cap S)
FeedsHeld   == InSetup => \A r : Total(Fed(r)) = Cardinality(accepted \cap Fed(r))
CountInv    == PlannedOnce /\ HeldOnce /\ FeedsHeld

LEMMA TotalsTyped ==
  ASSUME ListsInv, NEW S
  PROVE  /\ Hits(connections, S) \in Nat /\ Hits(cluster_connections, S) \in Nat
         /\ Hits(data_dep_connections, S) \in Nat /\ Hits(untyped_connections, S) \in Nat
         /\ Hits(type_pinnings, PinnedOf(S)) \in Nat /\ Hits(task.calls, S) \in Nat
         /\ Hits(task.scan, S) \in Nat /\ Hits(MapWork, S) \in Nat /\ Hits(PinWork, PinnedOf(S)) \in Nat
         /\ ListTotal(S) \in Nat /\ TaskTotal(S) \in Nat
<1>1. \A s \in Seq(Conn) \cup Seq(Pinning) : \A P : Hits(s, P) \in Nat
  BY HitsCount
<1>2. /\ Hits(connections, S) \in Nat /\ Hits(cluster_connections, S) \in Nat
      /\ Hits(data_dep_connections, S) \in Nat /\ Hits(untyped_connections, S) \in Nat
      /\ Hits(type_pinnings, PinnedOf(S)) \in Nat /\ Hits(task.calls, S) \in Nat
      /\ Hits(task.scan, S) \in Nat /\ Hits(MapWork, S) \in Nat /\ Hits(PinWork, PinnedOf(S)) \in Nat
  BY <1>1, WorkTyped
<1> QED
  BY <1>2 DEF ListTotal, TaskTotal

(* Head and Tail by name.                                                  *)
Unfolded(s, x, q) == s # <<>> /\ x = Head(s) /\ q = Tail(s)

LEMMA HitsPopped ==
  ASSUME NEW T, NEW s \in Seq(T), NEW x, NEW q, Unfolded(s, x, q), NEW S
  PROVE  x \in T /\ Hits(q, S) \in Nat /\ Hits(s, S) = Hits(q, S) + (IF x \in S THEN 1 ELSE 0)
<1>1. s # <<>> /\ x = Head(s) /\ q = Tail(s)
  BY DEF Unfolded
<1>2. x \in T /\ q \in Seq(T)
  BY <1>1, SetOfList
<1>3. Hits(s, S) = Hits(Tail(s), S) + (IF Head(s) \in S THEN 1 ELSE 0)
  BY <1>1, HitsHead
<1> QED
  BY <1>1, <1>2, <1>3, HitsCount, Zenon

LEMMA TotalHandedOn ==
  ASSUME MappedOnce, ListsInv, HandedOn
  PROVE  /\ \A r : Total(Fed(r))' = Total(Fed(r))
         /\ MapWork = <<>> => \A S : Total(S)' = Total(S)
<1>0. /\ MapWork \in Seq(Conn) /\ PinWork \in Seq(Pinning) /\ task.calls \in Seq(Conn)
      /\ task.scan \in Seq(Conn) /\ data_dep_connections \in Seq(Conn) /\ untyped_connections \in Seq(Conn)
  BY WorkTyped
<1> SUFFICES ASSUME NEW S, (\E r : S = Fed(r)) \/ MapWork = <<>> PROVE Total(S)' = Total(S)
  OBVIOUS
<1>1. PICK P : P = PinnedOf(S)
  OBVIOUS
<1>2. /\ Total(S) = (Hits(connections, S) + Hits(cluster_connections, S) + Hits(data_dep_connections, S)
                      + Hits(untyped_connections, S) + Hits(type_pinnings, P))
                    + (Hits(task.calls, S) + Hits(task.scan, S) + Hits(MapWork, S) + Hits(PinWork, P))
      /\ Total(S)' = (Hits(connections', S) + Hits(cluster_connections', S) + Hits(data_dep_connections', S)
                      + Hits(untyped_connections', S) + Hits(type_pinnings', P))
                    + (Hits(task'.calls, S) + Hits(task'.scan, S) + Hits(MapWork', S) + Hits(PinWork', P))
  <2>1. PinnedOf(S)' = PinnedOf(S)
    BY DEF PinnedOf, Pinning, Conn
  <2> QED BY <1>1, <2>1 DEF Total, ListTotal, TaskTotal, Hits, Places
<1>3. /\ Hits(connections, S) \in Nat /\ Hits(cluster_connections, S) \in Nat
      /\ Hits(data_dep_connections, S) \in Nat /\ Hits(untyped_connections, S) \in Nat
      /\ Hits(type_pinnings, P) \in Nat /\ Hits(task.calls, S) \in Nat
      /\ Hits(task.scan, S) \in Nat /\ Hits(MapWork, S) \in Nat /\ Hits(PinWork, P) \in Nat
      /\ Hits(<<>>, S) = 0 /\ Hits(<<>>, P) = 0
  BY <1>1, TotalsTyped, HitsNone
<1>4. CASE ClusterTaken
  <2>1. /\ Hits(MapWork, S) = 0 /\ Hits(MapWork', S) = Hits(cluster_connections, S)
        /\ Hits(cluster_connections', S) = 0
    BY <1>3, <1>4, Zenon DEF ClusterTaken
  <2>2. UNCHANGED <<connections, data_dep_connections, untyped_connections, type_pinnings,
                    task.calls, task.scan, PinWork>>
    BY <1>4 DEF ClusterTaken
  <2>3. /\ Hits(connections', S) = Hits(connections, S) /\ Hits(data_dep_connections', S) = Hits(data_dep_connections, S)
        /\ Hits(untyped_connections', S) = Hits(untyped_connections, S) /\ Hits(type_pinnings', P) = Hits(type_pinnings, P)
        /\ Hits(task'.calls, S) = Hits(task.calls, S) /\ Hits(task'.scan, S) = Hits(task.scan, S)
        /\ Hits(PinWork', P) = Hits(PinWork, P)
    BY <2>2, Zenon
  <2>4. PICK a, b, c, d, e, f, g, h :
          /\ a = Hits(connections, S) /\ b = Hits(cluster_connections, S)
          /\ c = Hits(data_dep_connections, S) /\ d = Hits(untyped_connections, S)
          /\ e = Hits(type_pinnings, P) /\ f = Hits(task.calls, S) /\ g = Hits(task.scan, S)
          /\ h = Hits(PinWork, P)
    OBVIOUS
  <2>5. /\ Total(S) = (a + b + c + d + e) + (f + g + 0 + h)
        /\ Total(S)' = (a + 0 + c + d + e) + (f + g + b + h)
    BY <1>2, <2>1, <2>3, <2>4, Zenon
  <2>6. /\ a \in Nat /\ b \in Nat /\ c \in Nat /\ d \in Nat /\ e \in Nat /\ f \in Nat
        /\ g \in Nat /\ h \in Nat
    BY <1>3, <2>4
  <2> QED BY <2>5, <2>6
<1>5. CASE ClusterMapped
  <2>1. PICK q, x, m : q = Tail(MapWork) /\ x = Head(MapWork) /\ m = Mapped(x)
    OBVIOUS
  <2>2. /\ Unfolded(MapWork, x, q) /\ OfCluster(x) /\ Hits(MapWork', S) = Hits(q, S)
        /\ Hits(task.calls, S) = 0 /\ Hits(task'.calls, S) = Hits(m, S)
    BY <1>3, <1>5, <2>1, Zenon DEF ClusterMapped, Unfolded
  <2>3. Hits(MapWork, S) = Hits(q, S) + (IF x \in S THEN 1 ELSE 0) /\ x \in Conn /\ Hits(q, S) \in Nat
    BY <1>0, <2>2, HitsPopped
  <2>4. Hits(m, S) = IF x \in S THEN 1 ELSE 0
    <3>1. PICK r : S = Fed(r)
      BY <2>2 DEF Unfolded
    <3> QED BY <2>1, <2>2, <2>3, <3>1, HitsMapped, Zenon
  <2>5. UNCHANGED <<connections, cluster_connections, data_dep_connections, untyped_connections,
                    type_pinnings, task.scan, PinWork>>
    BY <1>5 DEF ClusterMapped
  <2> QED BY <1>2, <1>3, <2>2, <2>3, <2>4, <2>5
<1>6. CASE TypesGiven
  <2>1. PICK A, y, z : /\ y = Chosen(data_dep_connections, A)
                       /\ z = Chosen(data_dep_connections, ToSet(data_dep_connections) \ A)
                       /\ task'.calls = y /\ data_dep_connections' = z
    BY <1>6, Zenon DEF TypesGiven
  <2>2. Hits(y, S) + Hits(z, S) = Hits(data_dep_connections, S)
    BY <1>0, <2>1, HitsParted
  <2>3. Hits(y, S) \in Nat /\ Hits(z, S) \in Nat
    <3>1. y \in Seq(Conn) /\ z \in Seq(Conn)
      BY <1>0, <2>1, SetOfList
    <3> QED BY <3>1, HitsCount
  <2>4. Hits(task.calls, S) = 0 /\ Hits(task'.calls, S) = Hits(y, S) /\ Hits(data_dep_connections', S) = Hits(z, S)
    BY <1>3, <1>6, <2>1, Zenon DEF TypesGiven
  <2>5. UNCHANGED <<connections, cluster_connections, untyped_connections, type_pinnings,
                    task.scan, MapWork, PinWork>>
    BY <1>6 DEF TypesGiven
  <2>6. /\ Hits(connections', S) = Hits(connections, S) /\ Hits(cluster_connections', S) = Hits(cluster_connections, S)
        /\ Hits(untyped_connections', S) = Hits(untyped_connections, S) /\ Hits(type_pinnings', P) = Hits(type_pinnings, P)
        /\ Hits(task'.scan, S) = Hits(task.scan, S) /\ Hits(MapWork', S) = Hits(MapWork, S)
        /\ Hits(PinWork', P) = Hits(PinWork, P)
    BY <2>5, Zenon
  <2>7. PICK a, b, c, d, e, f, g, h, k, l :
          /\ a = Hits(connections, S) /\ b = Hits(cluster_connections, S)
          /\ c = Hits(data_dep_connections, S) /\ d = Hits(untyped_connections, S)
          /\ e = Hits(type_pinnings, P) /\ f = Hits(task.scan, S) /\ g = Hits(MapWork, S)
          /\ h = Hits(PinWork, P) /\ k = Hits(y, S) /\ l = Hits(z, S)
    OBVIOUS
  <2>8. /\ Total(S) = (a + b + c + d + e) + (0 + f + g + h)
        /\ Total(S)' = (a + b + l + d + e) + (k + f + g + h) /\ k + l = c
    BY <1>2, <2>2, <2>4, <2>6, <2>7, Zenon
  <2>9. /\ a \in Nat /\ b \in Nat /\ c \in Nat /\ d \in Nat /\ e \in Nat /\ f \in Nat
        /\ g \in Nat /\ h \in Nat /\ k \in Nat /\ l \in Nat
    BY <1>3, <2>3, <2>7
  <2> QED BY <2>8, <2>9
<1>7. CASE PinningsTaken
  <2>1. /\ Hits(PinWork, P) = 0 /\ Hits(PinWork', P) = Hits(type_pinnings, P)
        /\ Hits(type_pinnings', P) = 0
    BY <1>3, <1>7, Zenon DEF PinningsTaken
  <2>2. UNCHANGED <<connections, cluster_connections, data_dep_connections, untyped_connections,
                    task.calls, task.scan, MapWork>>
    BY <1>7 DEF PinningsTaken
  <2>3. /\ Hits(connections', S) = Hits(connections, S)
        /\ Hits(cluster_connections', S) = Hits(cluster_connections, S)
        /\ Hits(data_dep_connections', S) = Hits(data_dep_connections, S)
        /\ Hits(untyped_connections', S) = Hits(untyped_connections, S)
        /\ Hits(task'.calls, S) = Hits(task.calls, S)
        /\ Hits(task'.scan, S) = Hits(task.scan, S)
        /\ Hits(MapWork', S) = Hits(MapWork, S)
    BY <2>2, Zenon
  <2>4. PICK a, b, c, d, e, f, g, h :
          /\ a = Hits(connections, S)
          /\ b = Hits(cluster_connections, S)
          /\ c = Hits(data_dep_connections, S)
          /\ d = Hits(untyped_connections, S)
          /\ e = Hits(type_pinnings, P)
          /\ f = Hits(task.calls, S)
          /\ g = Hits(task.scan, S)
          /\ h = Hits(MapWork, S)
    OBVIOUS
  <2>5. /\ Total(S) = (a + b + c + d + e) + (f + g + h + 0)
        /\ Total(S)' = (a + b + c + d + 0) + (f + g + h + e)
    BY <1>2, <2>1, <2>3, <2>4, Zenon
  <2>6. /\ a \in Nat /\ b \in Nat /\ c \in Nat /\ d \in Nat
        /\ e \in Nat /\ f \in Nat /\ g \in Nat /\ h \in Nat
    BY <1>3, <2>4
  <2> QED BY <2>5, <2>6
<1>8. CASE PinningRetried
  <2>1. PICK q, x, y : q = Tail(PinWork) /\ x = Head(PinWork) /\ y = <<x[1]>>
    OBVIOUS
  <2>2. /\ Unfolded(PinWork, x, q) /\ Hits(PinWork', P) = Hits(q, P)
        /\ Hits(task.calls, S) = 0 /\ Hits(task'.calls, S) = Hits(y, S)
    BY <1>3, <1>8, <2>1, Zenon DEF PinningRetried, Unfolded
  <2>3. Hits(PinWork, P) = Hits(q, P) + (IF x \in P THEN 1 ELSE 0) /\ x \in Pinning /\ Hits(q, P) \in Nat
    BY <1>0, <2>2, HitsPopped
  <2>4. x \in P <=> x[1] \in S
    BY <1>1, <2>3 DEF PinnedOf
  <2>5. Hits(y, S) = IF x[1] \in S THEN 1 ELSE 0
    BY <2>1, HitsNone, Zenon
  <2>6. UNCHANGED <<connections, cluster_connections, data_dep_connections, untyped_connections,
                    type_pinnings, task.scan, MapWork>>
    BY <1>8 DEF PinningRetried
  <2> QED BY <1>2, <1>3, <2>2, <2>3, <2>4, <2>5, <2>6
<1>9. CASE UntypedTaken
  <2>1. /\ Hits(task.scan, S) = 0 /\ Hits(task'.scan, S) = Hits(untyped_connections, S)
        /\ Hits(untyped_connections', S) = 0
    BY <1>3, <1>9, Zenon DEF UntypedTaken
  <2>2. UNCHANGED <<connections, cluster_connections, data_dep_connections, type_pinnings,
                    task.calls, MapWork, PinWork>>
    BY <1>9 DEF UntypedTaken
  <2>3. /\ Hits(connections', S) = Hits(connections, S)
        /\ Hits(cluster_connections', S) = Hits(cluster_connections, S)
        /\ Hits(data_dep_connections', S) = Hits(data_dep_connections, S)
        /\ Hits(type_pinnings', P) = Hits(type_pinnings, P)
        /\ Hits(task'.calls, S) = Hits(task.calls, S)
        /\ Hits(MapWork', S) = Hits(MapWork, S)
        /\ Hits(PinWork', P) = Hits(PinWork, P)
    BY <2>2, Zenon
  <2>4. PICK a, b, c, d, e, f, h, k :
          /\ a = Hits(connections, S)
          /\ b = Hits(cluster_connections, S)
          /\ c = Hits(data_dep_connections, S)
          /\ d = Hits(untyped_connections, S)
          /\ e = Hits(type_pinnings, P)
          /\ f = Hits(task.calls, S)
          /\ h = Hits(MapWork, S)
          /\ k = Hits(PinWork, P)
    OBVIOUS
  <2>5. /\ Total(S) = (a + b + c + d + e) + (f + 0 + h + k)
        /\ Total(S)' = (a + b + c + 0 + e) + (f + d + h + k)
    BY <1>2, <2>1, <2>3, <2>4, Zenon
  <2>6. /\ a \in Nat /\ b \in Nat /\ c \in Nat /\ d \in Nat
        /\ e \in Nat /\ f \in Nat /\ h \in Nat /\ k \in Nat
    BY <1>3, <2>4
  <2> QED BY <2>5, <2>6
<1>10. CASE UntypedKept
  <2>1. PICK q, x, y : q = Tail(task.scan) /\ x = Head(task.scan) /\ y = Append(untyped_connections, x)
    OBVIOUS
  <2>2. Unfolded(task.scan, x, q) /\ Hits(task'.scan, S) = Hits(q, S) /\ Hits(untyped_connections', S) = Hits(y, S)
    BY <1>10, <2>1, Zenon DEF UntypedKept, Unfolded
  <2>3. Hits(task.scan, S) = Hits(q, S) + (IF x \in S THEN 1 ELSE 0) /\ x \in Conn /\ Hits(q, S) \in Nat
    BY <1>0, <2>2, HitsPopped
  <2>4. Hits(y, S) = Hits(untyped_connections, S) + (IF x \in S THEN 1 ELSE 0)
    <3>1. Hits(Append(untyped_connections, x), S) = Hits(untyped_connections, S) + (IF x \in S THEN 1 ELSE 0)
      BY <1>0, <2>3, HitsAppend
    <3> QED BY <2>1, <3>1, Zenon
  <2>5. UNCHANGED <<connections, cluster_connections, data_dep_connections, type_pinnings,
                    task.calls, MapWork, PinWork>>
    BY <1>10 DEF UntypedKept
  <2>6. /\ Hits(connections', S) = Hits(connections, S) /\ Hits(cluster_connections', S) = Hits(cluster_connections, S)
        /\ Hits(data_dep_connections', S) = Hits(data_dep_connections, S)
        /\ Hits(type_pinnings', P) = Hits(type_pinnings, P)
        /\ Hits(task'.calls, S) = Hits(task.calls, S) /\ Hits(MapWork', S) = Hits(MapWork, S)
        /\ Hits(PinWork', P) = Hits(PinWork, P)
    BY <2>5, Zenon
  <2>7. PICK k : k = IF x \in S THEN 1 ELSE 0
    OBVIOUS
  <2>8. Hits(task.scan, S) = Hits(q, S) + k /\ Hits(y, S) = Hits(untyped_connections, S) + k /\ k \in Nat
    BY <2>3, <2>4, <2>7
  <2>9. PICK a, b, c, d, e, f, g, h, l :
          /\ a = Hits(connections, S) /\ b = Hits(cluster_connections, S)
          /\ c = Hits(data_dep_connections, S) /\ d = Hits(untyped_connections, S)
          /\ e = Hits(type_pinnings, P) /\ f = Hits(task.calls, S) /\ g = Hits(MapWork, S)
          /\ h = Hits(PinWork, P) /\ l = Hits(q, S)
    OBVIOUS
  <2>10. /\ Total(S) = (a + b + c + d + e) + (f + (l + k) + g + h)
         /\ Total(S)' = (a + b + c + (d + k) + e) + (f + l + g + h)
    BY <1>2, <2>2, <2>6, <2>8, <2>9, Zenon
  <2>11. /\ a \in Nat /\ b \in Nat /\ c \in Nat /\ d \in Nat /\ e \in Nat /\ f \in Nat
         /\ g \in Nat /\ h \in Nat /\ l \in Nat
    BY <1>3, <2>3, <2>9
  <2> QED BY <2>8, <2>10, <2>11
<1>11. CASE UntypedCalled
  <2>1. PICK q, x, y : q = Tail(task.scan) /\ x = Head(task.scan) /\ y = <<x>>
    OBVIOUS
  <2>2. /\ Unfolded(task.scan, x, q) /\ Hits(task'.scan, S) = Hits(q, S) /\ Hits(task.calls, S) = 0
        /\ Hits(task'.calls, S) = Hits(y, S)
    BY <1>3, <1>11, <2>1, Zenon DEF UntypedCalled, Unfolded
  <2>3. Hits(task.scan, S) = Hits(q, S) + (IF x \in S THEN 1 ELSE 0) /\ x \in Conn /\ Hits(q, S) \in Nat
    BY <1>0, <2>2, HitsPopped
  <2>4. Hits(y, S) = IF x \in S THEN 1 ELSE 0
    BY <2>1, HitsNone, Zenon
  <2>5. UNCHANGED <<connections, cluster_connections, data_dep_connections, untyped_connections,
                    type_pinnings, MapWork, PinWork>>
    BY <1>11 DEF UntypedCalled
  <2> QED BY <1>2, <1>3, <2>2, <2>3, <2>4, <2>5
<1>12. CASE NothingMoved
  BY <1>2, <1>12 DEF NothingMoved
<1> QED
  BY <1>4, <1>5, <1>6, <1>7, <1>8, <1>9, <1>10, <1>11, <1>12 DEF HandedOn

LEMMA TotalConnected ==
  ASSUME ListsInv, NEW c \in Conn, Connect(c), NEW S
  PROVE  ListTotal(S)' = ListTotal(S) + (IF c \in S /\ ~Refused(c) THEN 1 ELSE 0)
<1> DEFINE o == Outcome(c)
<1>1. /\ connections \in Seq(Conn) /\ cluster_connections \in Seq(Conn)
      /\ data_dep_connections \in Seq(Conn) /\ untyped_connections \in Seq(Conn)
      /\ type_pinnings \in Seq(Pinning)
  BY WorkTyped
<1>2. PICK P : P = PinnedOf(S)
  OBVIOUS
<1>3. /\ ListTotal(S) = Hits(connections, S) + Hits(cluster_connections, S) + Hits(data_dep_connections, S)
                      + Hits(untyped_connections, S) + Hits(type_pinnings, P)
      /\ ListTotal(S)' = Hits(connections', S) + Hits(cluster_connections', S) + Hits(data_dep_connections', S)
                      + Hits(untyped_connections', S) + Hits(type_pinnings', P)
  <2>1. PinnedOf(S)' = PinnedOf(S)
    BY DEF PinnedOf, Pinning, Conn
  <2> QED BY <1>2, <2>1 DEF ListTotal, Hits, Places
<1>4. /\ Hits(connections, S) \in Nat /\ Hits(cluster_connections, S) \in Nat
      /\ Hits(data_dep_connections, S) \in Nat /\ Hits(untyped_connections, S) \in Nat
      /\ Hits(type_pinnings, P) \in Nat
  BY <1>2, TotalsTyped
<1>5. \A push \in {"push_upstream", "push_downstream"} : <<c, push>> \in Pinning /\ (<<c, push>> \in P <=> c \in S)
  BY <1>2 DEF Pinning, PinnedOf
<1>6. /\ connections' = IF o = "compatible" THEN Append(connections, c) ELSE connections
      /\ cluster_connections' = IF o = "cluster" THEN Append(cluster_connections, c) ELSE cluster_connections
      /\ data_dep_connections' = IF o = "data_dep" THEN Append(data_dep_connections, c) ELSE data_dep_connections
      /\ untyped_connections' = IF o = "untyped" THEN Append(untyped_connections, c) ELSE untyped_connections
      /\ type_pinnings' = IF o \in {"push_upstream", "push_downstream"}
                          THEN Append(type_pinnings, <<c, o>>) ELSE type_pinnings
  BY DEF Connect, Put
<1>7. /\ o \in {"cluster", "flags", "data_dep", "untyped", "push_upstream", "push_downstream",
               "mismatch", "compatible"}
      /\ Refused(c) <=> o \in {"flags", "mismatch"}
  BY DEF Outcome, check_connection_types, Refused
<1> HIDE DEF o
<1>8. /\ \A s \in Seq(Conn) : Hits(Append(s, c), S) = Hits(s, S) + (IF c \in S THEN 1 ELSE 0)
      /\ o \in {"push_upstream", "push_downstream"} =>
           Hits(Append(type_pinnings, <<c, o>>), P) = Hits(type_pinnings, P) + (IF c \in S THEN 1 ELSE 0)
  <2>1. \A s \in Seq(Conn) : Hits(Append(s, c), S) = Hits(s, S) + (IF c \in S THEN 1 ELSE 0)
    BY HitsAppend
  <2>2. ASSUME o \in {"push_upstream", "push_downstream"}
        PROVE  Hits(Append(type_pinnings, <<c, o>>), P) = Hits(type_pinnings, P) + (IF c \in S THEN 1 ELSE 0)
    <3>1. PICK x : x = <<c, o>>
      OBVIOUS
    <3>2. x \in Pinning /\ (x \in P <=> c \in S)
      BY <1>5, <2>2, <3>1
    <3>3. Hits(Append(type_pinnings, x), P) = Hits(type_pinnings, P) + (IF x \in P THEN 1 ELSE 0)
      BY <1>1, <3>2, HitsAppend
    <3> QED BY <3>1, <3>2, <3>3, Zenon
  <2> QED BY <2>1, <2>2
<1>9. /\ Hits(connections', S) = Hits(connections, S) + (IF o = "compatible" /\ c \in S THEN 1 ELSE 0)
      /\ Hits(cluster_connections', S) = Hits(cluster_connections, S) + (IF o = "cluster" /\ c \in S THEN 1 ELSE 0)
      /\ Hits(data_dep_connections', S) = Hits(data_dep_connections, S) + (IF o = "data_dep" /\ c \in S THEN 1 ELSE 0)
      /\ Hits(untyped_connections', S) = Hits(untyped_connections, S) + (IF o = "untyped" /\ c \in S THEN 1 ELSE 0)
      /\ Hits(type_pinnings', P) = Hits(type_pinnings, P)
           + (IF o \in {"push_upstream", "push_downstream"} /\ c \in S THEN 1 ELSE 0)
  <2>1. PICK k : k = IF c \in S THEN 1 ELSE 0
    OBVIOUS
  <2>2. /\ Hits(Append(connections, c), S) = Hits(connections, S) + k
        /\ Hits(Append(cluster_connections, c), S) = Hits(cluster_connections, S) + k
        /\ Hits(Append(data_dep_connections, c), S) = Hits(data_dep_connections, S) + k
        /\ Hits(Append(untyped_connections, c), S) = Hits(untyped_connections, S) + k
        /\ o \in {"push_upstream", "push_downstream"} =>
             Hits(Append(type_pinnings, <<c, o>>), P) = Hits(type_pinnings, P) + k
    BY <1>1, <1>8, <2>1, Zenon
  <2>3. /\ Hits(connections', S) = IF o = "compatible" THEN Hits(connections, S) + k ELSE Hits(connections, S)
        /\ Hits(cluster_connections', S) =
             IF o = "cluster" THEN Hits(cluster_connections, S) + k ELSE Hits(cluster_connections, S)
        /\ Hits(data_dep_connections', S) =
             IF o = "data_dep" THEN Hits(data_dep_connections, S) + k ELSE Hits(data_dep_connections, S)
        /\ Hits(untyped_connections', S) =
             IF o = "untyped" THEN Hits(untyped_connections, S) + k ELSE Hits(untyped_connections, S)
        /\ Hits(type_pinnings', P) =
             IF o \in {"push_upstream", "push_downstream"} THEN Hits(type_pinnings, P) + k ELSE Hits(type_pinnings, P)
    BY <1>6, <2>2, Zenon
  <2> QED BY <1>4, <2>1, <2>3
<1> QED
  BY <1>3, <1>4, <1>7, <1>9

LEMMA OneMore ==
  ASSUME NEW A, IsFiniteSet(A), NEW c, c \notin A, NEW S
  PROVE  /\ Cardinality(A \cap S) \in Nat
         /\ Cardinality((A \cup {c}) \cap S) = Cardinality(A \cap S) + (IF c \in S THEN 1 ELSE 0)
<1>1. PICK B : B = A \cap S
  OBVIOUS
<1>2. IsFiniteSet(B) /\ c \notin B
  BY <1>1, FS_Subset
<1>3. Cardinality(B) \in Nat
  BY <1>2, FS_CardinalityType
<1>4. (A \cup {c}) \cap S = IF c \in S THEN B \cup {c} ELSE B
  BY <1>1
<1>5. Cardinality(B \cup {c}) = Cardinality(B) + 1
  BY <1>2, FS_AddElement
<1> QED
  BY <1>1, <1>3, <1>4, <1>5

LEMMA SameTotal ==
  ASSUME ListsInv, NEW S, UNCHANGED <<task, connections, cluster_connections, data_dep_connections,
                                      untyped_connections, type_pinnings>>
  PROVE  Total(S)' = Total(S)
<1>1. PinnedOf(S)' = PinnedOf(S)
  BY DEF PinnedOf, Pinning, Conn
<1> QED
  BY <1>1 DEF Total, ListTotal, TaskTotal, MapWork, PinWork, Hits, Places

LEMMA FiniteLists ==
  ASSUME NEW T, NEW s \in Seq(T) PROVE IsFiniteSet(ToSet(s))
<1>1. Len(s) \in Nat /\ DOMAIN s = 1..Len(s)
  BY LenProperties
<1>2. IsFiniteSet(1..Len(s))
  BY <1>1, FS_Interval
<1>3. ToSet(s) = {s[i] : i \in 1..Len(s)}
  BY <1>1 DEF ToSet
<1> DEFINE f == [i \in 1..Len(s) |-> s[i]]
<1>4. f \in Surjection(1..Len(s), ToSet(s))
  BY <1>3 DEF Surjection
<1> QED
  BY <1>2, <1>4, FS_Surjection

LEMMA CountAskFor ==
  ASSUME ListsInv, FlagsInv, HeldInv, CountInv, ~failed, NEW c \in Wanted, AskFor(c)
  PROVE  CountInv'
<1>1. /\ task = Idle /\ task' = task /\ c \notin ToSet(planned_connections) /\ c \notin accepted
      /\ setup' = setup /\ Connect(c) /\ c \in Conn
      /\ accepted' = IF Refused(c) THEN accepted ELSE accepted \cup {c}
  BY TheTypes DEF AskFor, flags
<1>2. task.stage = "idle" /\ ~setup /\ task.calls = <<>>
  <2>1. task.stage = "idle" /\ task.calls = <<>>
    BY <1>1 DEF Idle
  <2>2. setup => setup_in_progress
    BY DEF AskFor
  <2> QED BY <2>1, <2>2 DEF FlagsInv
<1>3. /\ planned_connections \in Seq(Conn) /\ accepted \subseteq ToSet(planned_connections)
      /\ planned_connections' = Append(planned_connections, c)
  BY <1>2 DEF ListsInv, ListsTyped, HeldInv, AskFor
<1>4. IsFiniteSet(ToSet(planned_connections)) /\ IsFiniteSet(accepted)
  BY <1>3, FiniteLists, FS_Subset
<1>5. PlannedOnce'
  <2> SUFFICES ASSUME NEW S
               PROVE  Hits(planned_connections', S) = Cardinality(ToSet(planned_connections') \cap S)
    BY DEF PlannedOnce, Hits, Places
  <2>1. Hits(Append(planned_connections, c), S) = Hits(planned_connections, S) + (IF c \in S THEN 1 ELSE 0)
    BY <1>1, <1>3, HitsAppend
  <2>2. ToSet(planned_connections') = ToSet(planned_connections) \cup {c}
    BY <1>1, <1>3, SetOfList
  <2>3. Hits(planned_connections, S) = Cardinality(ToSet(planned_connections) \cap S)
    BY DEF CountInv, PlannedOnce
  <2>4. Cardinality((ToSet(planned_connections) \cup {c}) \cap S)
          = Cardinality(ToSet(planned_connections) \cap S) + (IF c \in S THEN 1 ELSE 0)
    BY <1>1, <1>4, OneMore
  <2> QED BY <1>3, <2>1, <2>2, <2>3, <2>4, Zenon
<1>6. Due = accepted /\ Due' = accepted'
  BY <1>1, <1>2 DEF Due
<1>7. HeldOnce'
  <2> SUFFICES ASSUME NEW S PROVE Total(S)' = Cardinality(accepted' \cap S)
    BY <1>6 DEF HeldOnce
  <2>1. ListTotal(S)' = ListTotal(S) + (IF c \in S /\ ~Refused(c) THEN 1 ELSE 0)
    BY <1>1, TotalConnected
  <2>2. TaskTotal(S)' = TaskTotal(S)
    <3>1. PinnedOf(S)' = PinnedOf(S)
      BY DEF PinnedOf, Pinning, Conn
    <3> QED BY <1>1, <3>1 DEF TaskTotal, MapWork, PinWork, Hits, Places
  <2>3. ListTotal(S) \in Nat /\ TaskTotal(S) \in Nat
    BY TotalsTyped
  <2>4. Total(S) = ListTotal(S) + TaskTotal(S) /\ Total(S)' = ListTotal(S)' + TaskTotal(S)'
    BY DEF Total
  <2>5. Total(S) = Cardinality(accepted \cap S)
    BY <1>2, <1>6 DEF CountInv, HeldOnce
  <2>6. /\ Cardinality(accepted \cap S) \in Nat
        /\ Cardinality((accepted \cup {c}) \cap S) = Cardinality(accepted \cap S) + (IF c \in S THEN 1 ELSE 0)
    BY <1>1, <1>4, OneMore
  <2>7. PICK a, b, k, m, n : /\ a = ListTotal(S) /\ b = TaskTotal(S) /\ k = (IF c \in S THEN 1 ELSE 0)
                             /\ m = Cardinality(accepted \cap S) /\ n = Cardinality((accepted \cup {c}) \cap S)
    OBVIOUS
  <2>8. /\ a \in Nat /\ b \in Nat /\ a + b = m /\ n = m + k /\ k \in {0, 1}
    BY <2>3, <2>4, <2>5, <2>6, <2>7
  <2>9. CASE Refused(c)
    BY <1>1, <2>1, <2>2, <2>3, <2>4, <2>5, <2>9
  <2>10. CASE ~Refused(c)
    <3>1. Total(S)' = (a + k) + b
      BY <2>1, <2>2, <2>4, <2>7, <2>10
    <3>2. (a + k) + b = n
      BY <2>8
    <3> QED BY <1>1, <2>7, <2>10, <3>1, <3>2
  <2> QED BY <2>9, <2>10
<1>8. ~InSetup'
  BY <1>1, <1>2 DEF InSetup
<1> QED
  BY <1>5, <1>7, <1>8 DEF CountInv, FeedsHeld

LEMMA CountDisconnect ==
  ASSUME NeverPinned, ListsInv, FlagsInv, HeldInv, CountInv, ~failed, NEW c \in Wanted, Disconnect(c)
  PROVE  CountInv'
<1>1. /\ task = Idle /\ task' = task /\ ~setup /\ setup' = setup /\ c \in MayDisconnect /\ c \in Conn
      /\ accepted' = accepted \ {c} /\ type_pinnings' = type_pinnings
      /\ planned_connections' = Without(planned_connections, c)
      /\ connections' = Without(connections, c) /\ data_dep_connections' = Without(data_dep_connections, c)
      /\ untyped_connections' = Without(untyped_connections, c)
      /\ cluster_connections' = Without(cluster_connections, c)
  BY TheTypes DEF Disconnect, flags
<1>2. /\ task.stage = "idle" /\ task.calls = <<>> /\ task.scan = <<>>
  BY <1>1 DEF Idle
<1>3. /\ planned_connections \in Seq(Conn) /\ connections \in Seq(Conn) /\ data_dep_connections \in Seq(Conn)
      /\ untyped_connections \in Seq(Conn) /\ cluster_connections \in Seq(Conn)
  BY DEF ListsInv, ListsTyped
<1>4. ASSUME NEW S, NEW s \in Seq(Conn) PROVE Hits(Without(s, c), S) = Hits(s, S \ {c})
  <2>1. Hits(Without(s, c), S) = Hits(s, (ToSet(s) \ {c}) \cap S)
    BY <1>4, HitsChosen DEF Without
  <2>2. Places(s, (ToSet(s) \ {c}) \cap S) = Places(s, S \ {c})
    <3>1. \A i \in 1..Len(s) : s[i] \in ToSet(s)
      BY <1>4, LenProperties DEF ToSet
    <3> QED BY <3>1 DEF Places
  <2> QED BY <2>1, <2>2 DEF Hits
<1>5. PlannedOnce'
  <2> SUFFICES ASSUME NEW S
               PROVE  Hits(planned_connections', S) = Cardinality(ToSet(planned_connections') \cap S)
    BY DEF PlannedOnce, Hits, Places
  <2>1. Hits(planned_connections', S) = Hits(planned_connections, S \ {c})
    BY <1>1, <1>3, <1>4
  <2>2. ToSet(planned_connections') = ToSet(planned_connections) \cap (ToSet(planned_connections) \ {c})
    BY <1>1, <1>3, SetOfList DEF Without
  <2>3. ToSet(planned_connections') \cap S = ToSet(planned_connections) \cap (S \ {c})
    BY <2>2
  <2>4. Hits(planned_connections, S \ {c}) = Cardinality(ToSet(planned_connections) \cap (S \ {c}))
    BY DEF CountInv, PlannedOnce
  <2> QED BY <2>1, <2>3, <2>4
<1>6. Due = accepted /\ Due' = accepted'
  BY <1>1, <1>2 DEF Due
<1>7. HeldOnce'
  <2> SUFFICES ASSUME NEW S PROVE Total(S)' = Cardinality(accepted' \cap S)
    BY <1>6 DEF HeldOnce
  <2>1. Places(type_pinnings, PinnedOf(S)) = Places(type_pinnings, PinnedOf(S \ {c}))
    <3>1. ASSUME NEW i \in 1..Len(type_pinnings) PROVE type_pinnings[i][1] # c
      <4>1. type_pinnings[i] \in ToSet(type_pinnings) /\ ToSet(type_pinnings) \subseteq Pinned_
        BY <3>1, LenProperties DEF ToSet, ListsInv, ListsTyped, Pinned_
      <4>2. PICK x : x = type_pinnings[i] /\ x \in Pinned_
        BY <4>1
      <4>3. ~OfCluster(x[1]) /\ Open(PinPort(x))
        BY <4>2 DEF ListsInv, KindsKnown
      <4>4. OfCluster(c) \/ (~Open(c[1]) /\ ~Open(c[2]))
        BY <1>1 DEF NeverPinned
      <4>5. x[1] # c
        BY <4>3, <4>4 DEF PinPort
      <4> QED BY <4>2, <4>5
    <3>2. \A i \in 1..Len(type_pinnings) :
            type_pinnings[i] \in PinnedOf(S) <=> type_pinnings[i] \in PinnedOf(S \ {c})
      BY <3>1 DEF PinnedOf
    <3> QED BY <3>2 DEF Places
  <2>2. /\ Hits(connections', S) = Hits(connections, S \ {c})
        /\ Hits(cluster_connections', S) = Hits(cluster_connections, S \ {c})
        /\ Hits(data_dep_connections', S) = Hits(data_dep_connections, S \ {c})
        /\ Hits(untyped_connections', S) = Hits(untyped_connections, S \ {c})
        /\ Hits(type_pinnings', PinnedOf(S)) = Hits(type_pinnings, PinnedOf(S \ {c}))
    BY <1>1, <1>3, <1>4, <2>1, Zenon DEF Hits
  <2>3. PinnedOf(S)' = PinnedOf(S)
    BY DEF PinnedOf, Pinning, Conn
  <2>4. ListTotal(S)' = ListTotal(S \ {c})
    <3>1. ListTotal(S)' = Hits(connections', S) + Hits(cluster_connections', S) + Hits(data_dep_connections', S)
                      + Hits(untyped_connections', S) + Hits(type_pinnings', PinnedOf(S))
      BY <2>3 DEF ListTotal, Hits, Places
    <3> QED BY <2>2, <3>1, Zenon DEF ListTotal
  <2>5. TaskTotal(S)' = TaskTotal(S \ {c})
    <3>1. MapWork = <<>> /\ PinWork = <<>> /\ MapWork' = <<>> /\ PinWork' = <<>>
      BY <1>1, <1>2 DEF MapWork, PinWork
    <3>2. \A P : Hits(<<>>, P) = 0
      BY HitsNone
    <3>3. /\ Hits(task.calls, S \ {c}) = 0 /\ Hits(task.scan, S \ {c}) = 0
          /\ Hits(MapWork, S \ {c}) = 0 /\ Hits(PinWork, PinnedOf(S \ {c})) = 0
      BY <1>2, <3>1, <3>2, Zenon
    <3>4. /\ Hits(task'.calls, S) = 0 /\ Hits(task'.scan, S) = 0
          /\ Hits(MapWork', S) = 0 /\ Hits(PinWork', PinnedOf(S)) = 0
      <4>1. task'.calls = <<>> /\ task'.scan = <<>>
        BY <1>1, <1>2
      <4> QED BY <3>1, <3>2, <4>1, Zenon
    <3>5. TaskTotal(S)' = Hits(task'.calls, S) + Hits(task'.scan, S) + Hits(MapWork', S) + Hits(PinWork', PinnedOf(S))
      BY <2>3 DEF TaskTotal, Hits, Places
    <3> QED BY <3>3, <3>4, <3>5 DEF TaskTotal
  <2>6. Total(S)' = Total(S \ {c})
    BY <2>4, <2>5 DEF Total
  <2>7. Total(S \ {c}) = Cardinality(accepted \cap (S \ {c}))
    BY <1>1, <1>6 DEF CountInv, HeldOnce
  <2>8. accepted' \cap S = accepted \cap (S \ {c})
    BY <1>1
  <2> QED BY <2>6, <2>7, <2>8
<1>8. ~InSetup'
  BY <1>1, <1>2 DEF InSetup
<1> QED
  BY <1>5, <1>7, <1>8 DEF CountInv, FeedsHeld

LEMMA CountReset ==
  ASSUME ListsInv, HeldInv, CountInv, ~failed, Reset PROVE CountInv'
<1>1. /\ connections' = <<>> /\ cluster_connections' = <<>> /\ data_dep_connections' = <<>>
      /\ untyped_connections' = <<>> /\ type_pinnings' = <<>> /\ ~setup'
      /\ task' = [Idle EXCEPT !.stage = "replay", !.calls = planned_connections]
      /\ UNCHANGED <<planned_connections, accepted>>
  BY DEF Reset
<1>2. /\ task'.stage = "replay" /\ task'.calls = planned_connections /\ task'.scan = <<>>
  BY <1>1 DEF Idle
<1>3. Due' = ToSet(planned_connections)
  BY <1>1, <1>2 DEF Due, HeldInv
<1>4. \A S : Hits(planned_connections, S) = Cardinality(ToSet(planned_connections) \cap S)
  BY DEF CountInv, PlannedOnce
<1>5. \A S : Total(S)' = Hits(planned_connections, S)
  <2> SUFFICES ASSUME NEW S PROVE Total(S)' = Hits(planned_connections, S)
    OBVIOUS
  <2>1. PinnedOf(S)' = PinnedOf(S)
    BY DEF PinnedOf, Pinning, Conn
  <2>2. Total(S)' = (Hits(connections', S) + Hits(cluster_connections', S) + Hits(data_dep_connections', S)
                      + Hits(untyped_connections', S) + Hits(type_pinnings', PinnedOf(S)))
                    + (Hits(task'.calls, S) + Hits(task'.scan, S) + Hits(MapWork', S) + Hits(PinWork', PinnedOf(S)))
    BY <2>1 DEF Total, ListTotal, TaskTotal, Hits, Places
  <2>3. MapWork' = <<>> /\ PinWork' = <<>>
    BY <1>2 DEF MapWork, PinWork
  <2>4. \A P : Hits(<<>>, P) = 0
    BY HitsNone
  <2>5. PICK n : n = Hits(planned_connections, S)
    OBVIOUS
  <2>6. Total(S)' = (0 + 0 + 0 + 0 + 0) + (n + 0 + 0 + 0)
    <3>1. /\ Hits(connections', S) = 0 /\ Hits(cluster_connections', S) = 0
          /\ Hits(data_dep_connections', S) = 0 /\ Hits(untyped_connections', S) = 0
          /\ Hits(type_pinnings', PinnedOf(S)) = 0
      BY <1>1, <2>4, Zenon
    <3>2. /\ Hits(task'.calls, S) = n /\ Hits(task'.scan, S) = 0
          /\ Hits(MapWork', S) = 0 /\ Hits(PinWork', PinnedOf(S)) = 0
      BY <1>2, <2>3, <2>4, <2>5, Zenon
    <3> QED BY <2>2, <3>1, <3>2, Zenon
  <2>7. n \in Nat
    BY <2>5, HitsCount DEF ListsInv, ListsTyped
  <2> QED BY <2>5, <2>6, <2>7
<1>6. PlannedOnce'
  BY <1>1, <1>4 DEF PlannedOnce, Hits, Places
<1>7. HeldOnce'
  BY <1>3, <1>4, <1>5 DEF HeldOnce
<1>8. ~InSetup'
  BY <1>2 DEF InSetup
<1> QED
  BY <1>6, <1>7, <1>8 DEF CountInv, FeedsHeld

LEMMA CountReconnect ==
  ASSUME ListsInv, FlagsInv, HeldInv, CountInv, ~failed', Reconnect PROVE CountInv'
<1>1. PICK c, q : c = Head(task.calls) /\ q = Tail(task.calls)
  OBVIOUS
<1>2. /\ DOMAIN task = {"stage", "calls", "work", "kyu", "name", "scan"} /\ task.calls \in Seq(Conn)
      /\ task.stage # "idle" /\ Unfolded(task.calls, c, q)
  BY <1>1, WorkTyped DEF Reconnect, ListsInv, TaskTyped, Unfolded
<1>3. c \in Conn /\ Connect(c) /\ ToSet(task.calls) = {c} \cup ToSet(q) /\ q \in Seq(Conn)
  BY <1>1, <1>2, SetOfList DEF Unfolded, Reconnect
<1>4. planned_connections' = planned_connections /\ setup' = setup
  BY DEF Reconnect, Throw, flags
<1>5. PlannedOnce'
  BY <1>4 DEF CountInv, PlannedOnce, Hits, Places
<1>6. CASE Refused(c)
  <2>1. Throw
    BY <1>1, <1>6 DEF Reconnect
  <2>2. task.stage # "replay" /\ task'.stage = "idle"
    BY <2>1 DEF Throw, Idle
  <2>3. setup /\ ~InSetup'
    BY <1>2, <2>2 DEF FlagsInv, InSetup
  <2> QED BY <1>4, <1>5, <2>3 DEF CountInv, FeedsHeld, HeldOnce
<1>7. CASE ~Refused(c)
  <2>1. /\ task' = [task EXCEPT !.calls = Tail(task.calls)]
        /\ accepted' = IF task.stage = "replay" THEN accepted \cup {c} ELSE accepted
    BY <1>1, <1>7 DEF Reconnect
  <2>2. /\ task'.stage = task.stage /\ task'.work = task.work /\ task'.scan = task.scan /\ task'.calls = q
    BY <1>1, <1>2, <2>1
  <2>3. MapWork' = MapWork /\ PinWork' = PinWork
    BY <2>2 DEF MapWork, PinWork
  <2>4. ASSUME NEW S PROVE Total(S)' = Total(S)
    <3>1. PICK k : k = IF c \in S THEN 1 ELSE 0
      OBVIOUS
    <3>2. ListTotal(S)' = ListTotal(S) + k
      <4>1. ListTotal(S)' = ListTotal(S) + (IF c \in S /\ ~Refused(c) THEN 1 ELSE 0)
        BY <1>3, TotalConnected
      <4> QED BY <1>7, <3>1, <4>1
    <3>3. Hits(task.calls, S) = Hits(q, S) + k /\ Hits(q, S) \in Nat
      BY <1>2, <3>1, HitsPopped
    <3>4. PinnedOf(S)' = PinnedOf(S)
      BY DEF PinnedOf, Pinning, Conn
    <3>5. PICK a, b, d, e, f : /\ a = ListTotal(S) /\ b = Hits(q, S) /\ d = Hits(task.scan, S)
                               /\ e = Hits(MapWork, S) /\ f = Hits(PinWork, PinnedOf(S))
      OBVIOUS
    <3>6. a \in Nat /\ b \in Nat /\ d \in Nat /\ e \in Nat /\ f \in Nat /\ k \in Nat
      BY <3>1, <3>3, <3>5, TotalsTyped
    <3>7. Total(S) = a + (b + k + d + e + f)
      <4>1. TaskTotal(S) = b + k + d + e + f
        BY <3>3, <3>5 DEF TaskTotal
      <4> QED BY <3>5, <4>1 DEF Total
    <3>8. Total(S)' = (a + k) + (b + d + e + f)
      <4>1. TaskTotal(S)' = Hits(task'.calls, S) + Hits(task'.scan, S) + Hits(MapWork', S) + Hits(PinWork', PinnedOf(S))
        BY <3>4 DEF TaskTotal, Hits, Places
      <4>2. TaskTotal(S)' = b + d + e + f
        BY <2>2, <2>3, <3>5, <4>1, Zenon
      <4>3. Total(S)' = ListTotal(S)' + TaskTotal(S)'
        BY DEF Total
      <4> QED BY <3>2, <3>5, <4>2, <4>3, Zenon
    <3> QED BY <3>6, <3>7, <3>8
  <2>5. InSetup' <=> InSetup
    BY <2>2 DEF InSetup
  <2>6. HeldOnce'
    <3>1. Due' = Due
      BY <1>3, <2>1, <2>2 DEF Due
    <3>2. \A S : Total(S)' = Total(S)
      BY <2>4
    <3> QED BY <1>4, <3>1, <3>2 DEF CountInv, HeldOnce
  <2>7. FeedsHeld'
    <3>1. ASSUME InSetup' PROVE accepted' = accepted /\ InSetup
      BY <2>1, <2>5, <3>1 DEF InSetup
    <3>2. \A r : Total(Fed(r))' = Total(Fed(r))
      <4> SUFFICES ASSUME NEW r PROVE Total(Fed(r))' = Total(Fed(r))
        OBVIOUS
      <4>1. PICK S : S = Fed(r)
        OBVIOUS
      <4>2. Total(S)' = Total(S)
        BY <2>4
      <4> QED BY <4>1, <4>2
    <3>3. \A r : (accepted \cap Fed(r))' = accepted' \cap Fed(r)
      BY DEF Fed, Conn
    <3> QED BY <3>1, <3>2, <3>3 DEF CountInv, FeedsHeld
  <2> QED BY <1>5, <2>6, <2>7 DEF CountInv
<1> QED
  BY <1>6, <1>7

LEMMA CountOthers ==
  ASSUME MappedOnce, ListsInv, FlagsInv, CountInv,
         SetupPipeline \/ MapCluster \/ ConfigureProcess \/ TakePinnings \/ Pin \/ NextName
           \/ Propagate \/ RetryPinned \/ EndReset,
         ~Throw
  PROVE  CountInv'
<1>1. UNCHANGED <<planned_connections, accepted>>
  BY DEF SetupPipeline, MapCluster, ConfigureProcess, TakePinnings, Pin, NextName, Propagate, RetryPinned,
         EndReset, asked
<1>2. HandedOn
  BY Handing
<1>3. PlannedOnce'
  BY <1>1 DEF CountInv, PlannedOnce, Hits, Places
<1>4. /\ \A r : Total(Fed(r))' = Total(Fed(r))
      /\ MapWork = <<>> => \A S : Total(S)' = Total(S)
  BY <1>2, TotalHandedOn
<1>5. \A r : (accepted \cap Fed(r))' = accepted \cap Fed(r)
  BY <1>1 DEF Fed, Conn
<1>6. CASE SetupPipeline
  <2>1. task.stage = "idle" /\ ~setup /\ setup' /\ task'.stage = "map"
    BY <1>6 DEF SetupPipeline, Idle
  <2>2. Due = accepted
    BY <2>1 DEF Due
  <2>3. \A r : Total(Fed(r)) = Cardinality(accepted \cap Fed(r))
    BY <2>1, <2>2 DEF CountInv, HeldOnce
  <2> QED BY <1>3, <1>4, <1>5, <2>1, <2>3 DEF CountInv, HeldOnce, FeedsHeld
<1>7. CASE EndReset
  <2>1. task.stage = "replay" /\ task.calls = <<>> /\ task'.stage = "idle" /\ setup' = setup /\ ~setup
    BY <1>7 DEF EndReset, AtStage, Idle, FlagsInv
  <2>2. ToSet(<<>>) = {}
    BY SmallLists
  <2>3. Due = accepted /\ Due' = accepted
    BY <1>1, <2>1, <2>2 DEF Due
  <2>4. MapWork = <<>> /\ ~InSetup'
    BY <2>1 DEF MapWork, InSetup
  <2>5. \A S : Total(S)' = Cardinality(Due' \cap S)
    BY <1>4, <2>1, <2>3, <2>4 DEF CountInv, HeldOnce
  <2> QED BY <1>3, <2>4, <2>5 DEF CountInv, HeldOnce, FeedsHeld
<1>8. CASE MapCluster \/ ConfigureProcess \/ TakePinnings \/ Pin \/ NextName \/ Propagate \/ RetryPinned
  <2>1. InSetup /\ setup
    BY <1>8 DEF MapCluster, ConfigureProcess, TakePinnings, Pin, NextName, Propagate, RetryPinned,
                AtStage, InSetup, FlagsInv
  <2>2. setup' = setup
    BY <1>8 DEF MapCluster, ConfigureProcess, TakePinnings, Pin, NextName, Propagate, RetryPinned, flags
  <2>3. \A r : Total(Fed(r)) = Cardinality(accepted \cap Fed(r))
    BY <2>1 DEF CountInv, FeedsHeld
  <2> QED BY <1>3, <1>4, <1>5, <2>1, <2>2, <2>3 DEF CountInv, HeldOnce, FeedsHeld
<1> QED
  BY <1>6, <1>7, <1>8

LEMMA CountNext ==
  ASSUME NeverPinned, MappedOnce, ListsInv, FlagsInv, HeldInv, CountInv, ~failed, ~failed', [Next]_vars
  PROVE  CountInv'
<1>1. ASSUME Throw, InSetup, planned_connections' = planned_connections PROVE CountInv'
  <2>1. setup' = setup /\ setup /\ task'.stage = "idle"
    BY <1>1 DEF Throw, Idle, FlagsInv, InSetup
  <2>2. ~InSetup'
    BY <2>1 DEF InSetup
  <2>3. PlannedOnce'
    BY <1>1 DEF CountInv, PlannedOnce, Hits, Places
  <2> QED BY <2>1, <2>2, <2>3 DEF CountInv, HeldOnce, FeedsHeld
<1>2. CASE SetupPipeline \/ MapCluster \/ TakePinnings \/ RetryPinned \/ EndReset
           \/ ConfigureProcess \/ Pin \/ NextName \/ Propagate
  <2>1. CASE Throw
    <3>1. planned_connections' = planned_connections
      BY <2>1 DEF Throw
    <3>2. task'.stage = "idle" /\ setup' = setup /\ (task.stage = "replay" => failed')
      BY <2>1 DEF Throw, Idle
    <3>3. InSetup \/ EndReset
      <4>1. SetupPipeline => task'.stage = "map"
        BY DEF SetupPipeline, Idle
      <4> QED BY <1>2, <3>2, <4>1 DEF MapCluster, ConfigureProcess, TakePinnings, Pin, NextName, Propagate,
                RetryPinned, AtStage, InSetup
    <3>4. EndReset => task.stage = "replay"
      BY DEF EndReset, AtStage
    <3> QED BY <1>1, <2>1, <3>1, <3>2, <3>3, <3>4
  <2> QED BY <1>2, <2>1, CountOthers
<1>3. CASE FinishSetup
  <2>1. /\ InSetup /\ setup
    BY <1>3 DEF FinishSetup, AtStage, InSetup, FlagsInv
  <2>2. Throw \/ (task' = Idle /\ UNCHANGED <<setup, asked>>)
    BY <1>3 DEF FinishSetup
  <2>3. planned_connections' = planned_connections /\ setup' = setup /\ task'.stage = "idle"
    <3>1. CASE Throw
      BY <3>1 DEF Throw, Idle
    <3>2. CASE task' = Idle /\ UNCHANGED <<setup, asked>>
      BY <3>2 DEF asked, Idle
    <3> QED BY <2>2, <3>1, <3>2
  <2>4. PlannedOnce'
    BY <2>3 DEF CountInv, PlannedOnce, Hits, Places
  <2> QED BY <2>1, <2>3, <2>4 DEF CountInv, HeldOnce, FeedsHeld, InSetup
<1>4. CASE Start \/ Stop \/ UNCHANGED vars
  <2>1. UNCHANGED <<lists, task, accepted, planned_connections, setup>>
    BY <1>4 DEF Start, Stop, vars, flags, asked
  <2>2. \A S : Total(S)' = Total(S)
    BY <2>1, SameTotal DEF lists
  <2>3. Due' = Due /\ InSetup' = InSetup
    BY <2>1 DEF Due, InSetup
  <2>4. PlannedOnce'
    BY <2>1 DEF CountInv, PlannedOnce, Hits, Places
  <2>5. HeldOnce'
    BY <2>1, <2>2, <2>3 DEF CountInv, HeldOnce
  <2>6. FeedsHeld'
    <3>1. \A r : Total(Fed(r))' = Total(Fed(r))
      <4> SUFFICES ASSUME NEW r PROVE Total(Fed(r))' = Total(Fed(r))
        OBVIOUS
      <4>1. PICK S : S = Fed(r)
        OBVIOUS
      <4>2. Total(S)' = Total(S)
        BY <2>2
      <4> QED BY <4>1, <4>2
    <3>2. \A r : (accepted \cap Fed(r))' = accepted \cap Fed(r)
      BY <2>1 DEF Fed, Conn
    <3> QED BY <2>3, <3>1, <3>2 DEF CountInv, FeedsHeld
  <2> QED BY <2>4, <2>5, <2>6 DEF CountInv
<1>5. CASE Reconnect
  BY <1>5, CountReconnect
<1>6. CASE Reset
  BY <1>6, CountReset
<1> QED
  BY <1>2, <1>3, <1>4, <1>5, <1>6, CountAskFor, CountDisconnect DEF Next, Setup

LEMMA CountInit ==
  ASSUME Init PROVE CountInv
<1>1. /\ planned_connections = <<>> /\ connections = <<>> /\ cluster_connections = <<>>
      /\ data_dep_connections = <<>> /\ untyped_connections = <<>> /\ type_pinnings = <<>>
      /\ task = Idle /\ accepted = {}
  BY DEF Init
<1>2. task.stage = "idle" /\ task.calls = <<>> /\ task.scan = <<>>
  BY <1>1 DEF Idle
<1>3. MapWork = <<>> /\ PinWork = <<>>
  BY <1>2 DEF MapWork, PinWork
<1>4. \A P : Hits(<<>>, P) = 0
  BY HitsNone
<1>5. ASSUME NEW S PROVE Total(S) = 0
  <2>1. /\ Hits(connections, S) = 0 /\ Hits(cluster_connections, S) = 0
        /\ Hits(data_dep_connections, S) = 0 /\ Hits(untyped_connections, S) = 0
        /\ Hits(type_pinnings, PinnedOf(S)) = 0
    BY <1>1, <1>4, Zenon
  <2>2. /\ Hits(task.calls, S) = 0 /\ Hits(task.scan, S) = 0
        /\ Hits(MapWork, S) = 0 /\ Hits(PinWork, PinnedOf(S)) = 0
    BY <1>2, <1>3, <1>4, Zenon
  <2> QED BY <2>1, <2>2 DEF Total, ListTotal, TaskTotal
<1>6. Due = {}
  BY <1>1, <1>2 DEF Due
<1>7. \A S : Cardinality({} \cap S) = 0
  BY FS_EmptySet
<1>8. ToSet(planned_connections) = {} /\ \A S : Hits(planned_connections, S) = 0
  BY <1>1, <1>4, SmallLists
<1>9. PlannedOnce
  BY <1>7, <1>8 DEF PlannedOnce
<1>10. HeldOnce
  BY <1>5, <1>6, <1>7 DEF HeldOnce
<1> QED
  BY <1>2, <1>9, <1>10 DEF CountInv, FeedsHeld, InSetup

-----------------------------------------------------------------------------
(* What is asked for, and the marks of shared ports.                       *)

Asked == ToSet(planned_connections) \subseteq Wanted

LEMMA AskedNext ==
  ASSUME ListsInv, Asked, [Next]_vars PROVE Asked'
<1>1. planned_connections \in Seq(Conn)
  BY DEF ListsInv, ListsTyped
<1>2. ASSUME NEW c \in Wanted, AskFor(c) PROVE Asked'
  <2>1. c \in Conn
    BY TheTypes
  <2>2. \/ planned_connections' = planned_connections
        \/ planned_connections' = Append(planned_connections, c)
    BY <1>2 DEF AskFor
  <2>3. ToSet(Append(planned_connections, c)) = ToSet(planned_connections) \cup {c}
    BY <1>1, <2>1, SetOfList
  <2> QED BY <2>2, <2>3, Zenon DEF Asked
<1>3. ASSUME NEW c \in Wanted, Disconnect(c) PROVE Asked'
  <2>1. planned_connections' = Without(planned_connections, c)
    BY <1>3 DEF Disconnect
  <2> QED BY <1>1, <2>1, SetOfList DEF Without, Asked
<1>4. ASSUME planned_connections' = planned_connections PROVE Asked'
  BY <1>4 DEF Asked
<1>5. SetupPipeline \/ MapCluster \/ ConfigureProcess \/ TakePinnings \/ Pin \/ NextName
        \/ Propagate \/ RetryPinned \/ EndReset \/ FinishSetup \/ Reconnect \/ Start \/ Stop \/ Reset
        \/ UNCHANGED vars => planned_connections' = planned_connections
  BY DEF SetupPipeline, MapCluster, ConfigureProcess, TakePinnings, Pin, NextName, Propagate, RetryPinned,
         EndReset, FinishSetup, Reconnect, Start, Stop, Reset, Throw, vars, asked
<1> QED
  BY <1>2, <1>3, <1>4, <1>5 DEF Next, Setup

(* A mutable reader of a shared port is asked for between the ports of two *)
(* processes, of fixed types that agree, and is not taken back.            *)
SharedPlainly ==
  \A d \in Wanted : \A c \in Flat({d}) : MutableShared(c) =>
    /\ d = c /\ c \notin MayDisconnect /\ ~Open(c[1]) /\ ~Open(c[2])
    /\ type_any \in {Declared[c[1]], Declared[c[2]]} \/ Declared[c[1]] = Declared[c[2]]

(* The connections that may still be in connect's way during set-up.       *)
DeferredLists ==
  ToSet(cluster_connections) \cup ToSet(data_dep_connections) \cup ToSet(untyped_connections)
    \cup Firsts(ToSet(type_pinnings))

Deferred ==
  DeferredLists \cup ToSet(MapWork) \cup Firsts(ToSet(PinWork)) \cup ToSet(task.scan)
    \cup (IF task.stage = "replay" THEN {} ELSE ToSet(task.calls))

MarksMade == \A p : MarksMutable(p) => \E d \in ToSet(connections) : d[1] = p /\ d[2] \in Mutable
NoneDeferred == \A c \in Flat(Deferred) : ~MutableShared(c)
MarksFound == MarksMade /\ NoneDeferred

LEMMA FlatGrows ==
  /\ \A A, B : A \subseteq B => Flat(A) \subseteq Flat(B)
  /\ \A A : \A x \in Flat(A) : \E d \in A : x \in Flat({d})
BY DEF Flat

LEMMA PlainlyTyped ==
  ASSUME SharedPlainly, ListsInv, NEW c \in Wanted, NEW x \in Flat({c}), MutableShared(x)
  PROVE  /\ x = c /\ ~OfCluster(c) /\ c \notin MayDisconnect /\ type[c[1]] \notin NoType /\ type[c[2]] \notin NoType
         /\ Outcome(c) \in {"flags", "compatible"}
<1>1. c \in Conn /\ c[1] \in Ports /\ c[2] \in Ports
  BY TheTypes
<1>2. /\ x = c /\ c \notin MayDisconnect /\ ~Open(c[1]) /\ ~Open(c[2])
      /\ type_any \in {Declared[c[1]], Declared[c[2]]} \/ Declared[c[1]] = Declared[c[2]]
  BY DEF SharedPlainly
<1>3. ~OfCluster(c)
  BY <1>1, <1>2, FlatOfAccepted
<1>4. type[c[1]] = Declared[c[1]] /\ type[c[2]] = Declared[c[2]]
  BY <1>1, <1>2 DEF ListsInv, TypesKnown
<1>5. type[c[1]] \notin NoType /\ type[c[2]] \notin NoType
  BY <1>2, <1>4 DEF Open, NoType
<1>6. Outcome(c) \in {"flags", "compatible"}
  BY <1>2, <1>3, <1>4, <1>5 DEF Outcome, check_connection_types, NoType
<1> QED
  BY <1>2, <1>3, <1>5, <1>6

LEMMA Deferring ==
  ASSUME ListsInv, NEW c \in Conn, Connect(c)
  PROVE  /\ \A x \in DeferredLists' :
              \/ x \in DeferredLists
              \/ x = c /\ (OfCluster(c) \/ type[c[1]] \in NoType \/ type[c[2]] \in NoType)
         /\ \A p : MarksMutable(p)' =>
              \/ MarksMutable(p)
              \/ /\ p = c[1] /\ MutableShared(c) /\ ~OfCluster(c)
                 /\ (c \in ToSet(connections') \/ Outcome(c) \notin {"flags", "compatible"})
         /\ ToSet(connections) \subseteq ToSet(connections')
<1>1. Finds(c)
  BY Finding
<1>2. ASSUME NEW x \in DeferredLists'
      PROVE  \/ x \in DeferredLists
             \/ x = c /\ (OfCluster(c) \/ type[c[1]] \in NoType \/ type[c[2]] \in NoType)
  <2>1. CASE x \in ToSet(cluster_connections')
    BY <1>1, <2>1 DEF Finds, DeferredLists
  <2>2. CASE x \in ToSet(data_dep_connections')
    BY <1>1, <2>2 DEF Finds, DeferredLists, NoType
  <2>3. CASE x \in ToSet(untyped_connections')
    BY <1>1, <2>3 DEF Finds, DeferredLists, NoType
  <2>4. CASE x \in Firsts(ToSet(type_pinnings'))
    <3>1. PICK y \in ToSet(type_pinnings') : x = y[1]
      BY <2>4 DEF Firsts
    <3>2. CASE y \in ToSet(type_pinnings)
      BY <3>1, <3>2 DEF Firsts, DeferredLists
    <3>3. CASE y[1] = c /\ type[PinPort(y)] = type_flow_dependent
      BY <3>1, <3>3 DEF PinPort, NoType
    <3> QED BY <1>1, <3>2, <3>3 DEF Finds
  <2> QED BY <2>1, <2>2, <2>3, <2>4 DEF DeferredLists, Firsts
<1>3. ASSUME NEW p, MarksMutable(p)'
      PROVE  \/ MarksMutable(p)
             \/ /\ p = c[1] /\ MutableShared(c) /\ ~OfCluster(c)
                /\ (c \in ToSet(connections') \/ Outcome(c) \notin {"flags", "compatible"})
  BY <1>1, <1>3 DEF Finds
<1> QED
  BY <1>1, <1>2, <1>3 DEF Finds

(* connect, when it is given what the application asked for.               *)
LEMMA MarksWanted ==
  ASSUME SharedPlainly, ListsInv, MarksFound, NEW c \in Wanted, Connect(c),
         Deferred' \subseteq DeferredLists' \cup Deferred
  PROVE  MarksFound'
<1>1. c \in Conn
  BY TheTypes
<1>2. /\ \A x \in DeferredLists' :
           \/ x \in DeferredLists
           \/ x = c /\ (OfCluster(c) \/ type[c[1]] \in NoType \/ type[c[2]] \in NoType)
      /\ \A p : MarksMutable(p)' =>
           \/ MarksMutable(p)
           \/ /\ p = c[1] /\ MutableShared(c) /\ ~OfCluster(c)
              /\ (c \in ToSet(connections') \/ Outcome(c) \notin {"flags", "compatible"})
      /\ ToSet(connections) \subseteq ToSet(connections')
  BY <1>1, Deferring
<1>3. MarksMade'
  <2> SUFFICES ASSUME NEW p, MarksMutable(p)'
               PROVE  \E d \in ToSet(connections') : d[1] = p /\ d[2] \in Mutable
    BY DEF MarksMade
  <2>1. CASE MarksMutable(p)
    BY <1>2, <2>1 DEF MarksFound, MarksMade
  <2>2. CASE /\ p = c[1] /\ MutableShared(c) /\ ~OfCluster(c)
             /\ (c \in ToSet(connections') \/ Outcome(c) \notin {"flags", "compatible"})
    <3>1. c \in Flat({c})
      <4>1. Flat({c}) = {c}
        BY <1>1, <2>2, FlatOfProcesses
      <4> QED BY <4>1
    <3>2. Outcome(c) \in {"flags", "compatible"}
      BY <2>2, <3>1, PlainlyTyped
    <3> QED BY <2>2, <3>2 DEF MutableShared
  <2> QED BY <1>2, <2>1, <2>2
<1>4. NoneDeferred'
  <2> SUFFICES ASSUME NEW x \in Flat(Deferred'), MutableShared(x) PROVE FALSE
    BY DEF NoneDeferred, MutableShared, Flat, Leaves, Whole
  <2>1. PICK d \in Deferred' : x \in Flat({d})
    <3>1. PICK D : D = Deferred'
      OBVIOUS
    <3>2. x \in Flat(D)
      BY <3>1
    <3>3. \A y \in Flat(D) : \E d \in D : y \in Flat({d})
      BY DEF Flat
    <3>4. \E d \in D : x \in Flat({d})
      BY <3>2, <3>3
    <3> QED BY <3>1, <3>4
  <2>2. CASE d \in Deferred
    <3>1. {d} \subseteq Deferred
      BY <2>2
    <3>2. x \in Flat(Deferred)
      BY <2>1, <3>1, FlatGrows
    <3> QED BY <3>2 DEF MarksFound, NoneDeferred
  <2>3. CASE d \in DeferredLists' /\ d \notin Deferred
    <3>1. d \notin DeferredLists
      BY <2>3 DEF Deferred
    <3>2. d = c /\ (OfCluster(c) \/ type[c[1]] \in NoType \/ type[c[2]] \in NoType)
      BY <1>2, <2>3, <3>1
    <3> QED BY <2>1, <3>2, PlainlyTyped
  <2> QED BY <2>1, <2>2, <2>3
<1> QED
  BY <1>3, <1>4 DEF MarksFound

(* connect, when set-up gives it a connection that was deferred.           *)
LEMMA MarksDeferred ==
  ASSUME ListsInv, MarksFound, NEW c \in Conn, c \in Deferred, Connect(c),
         Deferred' \subseteq DeferredLists' \cup Deferred
  PROVE  MarksFound'
<1>1. /\ \A x \in DeferredLists' : x \in DeferredLists \/ x = c
      /\ \A p : MarksMutable(p)' => MarksMutable(p) \/ (p = c[1] /\ MutableShared(c) /\ ~OfCluster(c))
      /\ ToSet(connections) \subseteq ToSet(connections')
  BY Deferring
<1>2. MutableShared(c) => OfCluster(c)
  <2>1. ASSUME ~OfCluster(c) PROVE ~MutableShared(c)
    <3>1. Flat({c}) = {c}
      BY <2>1, FlatOfProcesses
    <3>2. c \in Flat(Deferred)
      <4>1. {c} \subseteq Deferred
        OBVIOUS
      <4> QED BY <3>1, <4>1, FlatGrows
    <3> QED BY <3>2 DEF MarksFound, NoneDeferred
  <2> QED BY <2>1
<1>3. MarksMade'
  BY <1>1, <1>2 DEF MarksFound, MarksMade
<1>4. Deferred' \subseteq Deferred
  BY <1>1 DEF Deferred
<1>5. NoneDeferred'
  <2>1. Flat(Deferred)' \subseteq Flat(Deferred)
    <3>1. Flat(Deferred') \subseteq Flat(Deferred)
      BY <1>4, FlatGrows
    <3>2. Flat(Deferred)' = Flat(Deferred')
      BY DEF Flat, Leaves, Whole
    <3> QED BY <3>1, <3>2
  <2> QED BY <2>1 DEF MarksFound, NoneDeferred, MutableShared
<1> QED
  BY <1>3, <1>5 DEF MarksFound

LEMMA DeferredHanded ==
  ASSUME ListsInv, HandedOn, task.stage # "replay", task'.stage # "replay"
  PROVE  Flat(Deferred') \subseteq Flat(Deferred)
<1>0. /\ MapWork \in Seq(Conn) /\ PinWork \in Seq(Pinning) /\ task.calls \in Seq(Conn)
      /\ task.scan \in Seq(Conn) /\ data_dep_connections \in Seq(Conn) /\ untyped_connections \in Seq(Conn)
  BY WorkTyped
<1>1. /\ Deferred = ToSet(cluster_connections) \cup ToSet(data_dep_connections) \cup ToSet(untyped_connections)
           \cup Firsts(ToSet(type_pinnings)) \cup ToSet(MapWork) \cup Firsts(ToSet(PinWork))
           \cup ToSet(task.scan) \cup ToSet(task.calls)
      /\ Deferred' = ToSet(cluster_connections') \cup ToSet(data_dep_connections') \cup ToSet(untyped_connections')
           \cup Firsts(ToSet(type_pinnings')) \cup ToSet(MapWork') \cup Firsts(ToSet(PinWork'))
           \cup ToSet(task'.scan) \cup ToSet(task'.calls)
  BY DEF Deferred, DeferredLists, Firsts
<1>2. ToSet(<<>>) = {} /\ Firsts({}) = {}
  BY SmallLists, FirstsParts
<1>3. Deferred' \subseteq Deferred => Flat(Deferred') \subseteq Flat(Deferred)
  BY FlatGrows
<1>4. CASE ClusterTaken
  <2>1. Deferred' \subseteq Deferred
    BY <1>1, <1>2, <1>4 DEF ClusterTaken
  <2> QED BY <1>3, <2>1
<1>5. CASE ClusterMapped
  <2>1. PICK q, x, m : q = Tail(MapWork) /\ x = Head(MapWork) /\ m = Mapped(x)
    OBVIOUS
  <2>2. /\ MapWork # <<>> /\ OfCluster(x) /\ MapWork' = q /\ task'.calls = m /\ task.calls = <<>>
        /\ UNCHANGED <<cluster_connections, data_dep_connections, untyped_connections,
                       type_pinnings, task.scan, PinWork>>
    BY <1>5, <2>1, Zenon DEF ClusterMapped
  <2>3. x \in Conn /\ ToSet(MapWork) = {x} \cup ToSet(q)
    BY <1>0, <2>1, <2>2, SetOfList
  <2>4. PICK D : D = Deferred
    OBVIOUS
  <2>5. Deferred' \subseteq D \cup ToSet(m) /\ x \in D
    BY <1>1, <2>2, <2>3, <2>4
  <2>6. Flat(ToSet(m)) = Flat({x})
    BY <2>1, <2>2, <2>3, FlatMapped
  <2>7. Flat({x}) \subseteq Flat(D)
    BY <2>5, FlatGrows
  <2>8. Flat(D \cup ToSet(m)) = Flat(D) \cup Flat(ToSet(m))
    BY FlatParts
  <2>9. Flat(Deferred') \subseteq Flat(D \cup ToSet(m))
    BY <2>5, FlatGrows
  <2> QED BY <2>4, <2>6, <2>7, <2>8, <2>9
<1>6. CASE TypesGiven
  <2>1. PICK A, y, z : /\ y = Chosen(data_dep_connections, A)
                       /\ z = Chosen(data_dep_connections, ToSet(data_dep_connections) \ A)
                       /\ task'.calls = y /\ data_dep_connections' = z
    BY <1>6, Zenon DEF TypesGiven
  <2>2. ToSet(y) \subseteq ToSet(data_dep_connections) /\ ToSet(z) \subseteq ToSet(data_dep_connections)
    BY <1>0, <2>1, SetOfList
  <2>3. Deferred' \subseteq Deferred
    BY <1>1, <1>6, <2>1, <2>2 DEF TypesGiven
  <2> QED BY <1>3, <2>3
<1>7. CASE PinningsTaken
  <2>1. Deferred' \subseteq Deferred
    BY <1>1, <1>2, <1>7 DEF PinningsTaken
  <2> QED BY <1>3, <2>1
<1>8. CASE PinningRetried
  <2>1. PICK q, x, y : q = Tail(PinWork) /\ x = Head(PinWork) /\ y = <<x[1]>>
    OBVIOUS
  <2>2. /\ PinWork # <<>> /\ PinWork' = q /\ task'.calls = y
        /\ UNCHANGED <<cluster_connections, data_dep_connections, untyped_connections,
                       type_pinnings, task.scan, MapWork>>
    BY <1>8, <2>1, Zenon DEF PinningRetried
  <2>3. ToSet(PinWork) = {x} \cup ToSet(q) /\ ToSet(y) = {x[1]}
    <3>1. x \in Pinning /\ ToSet(PinWork) = {x} \cup ToSet(q)
      BY <1>0, <2>1, <2>2, SetOfList
    <3>2. x[1] \in Conn
      BY <3>1, TheTypes
    <3>3. ToSet(<<x[1]>>) = {x[1]}
      BY <3>2, SmallLists
    <3> QED BY <2>1, <3>1, <3>3
  <2>4. Firsts(ToSet(PinWork)) = {x[1]} \cup Firsts(ToSet(q))
    BY <2>3 DEF Firsts
  <2>5. Deferred' \subseteq Deferred
    BY <1>1, <2>2, <2>3, <2>4
  <2> QED BY <1>3, <2>5
<1>9. CASE UntypedTaken
  <2>1. Deferred' \subseteq Deferred
    BY <1>1, <1>2, <1>9 DEF UntypedTaken
  <2> QED BY <1>3, <2>1
<1>10. CASE UntypedKept
  <2>1. PICK q, x, y : q = Tail(task.scan) /\ x = Head(task.scan) /\ y = Append(untyped_connections, x)
    OBVIOUS
  <2>2. /\ task.scan # <<>> /\ task'.scan = q /\ untyped_connections' = y
        /\ UNCHANGED <<cluster_connections, data_dep_connections, type_pinnings, task.calls, MapWork, PinWork>>
    BY <1>10, <2>1, Zenon DEF UntypedKept
  <2>3. ToSet(task.scan) = {x} \cup ToSet(q) /\ x \in Conn
    BY <1>0, <2>1, <2>2, SetOfList
  <2>4. ToSet(y) = ToSet(untyped_connections) \cup {x}
    BY <1>0, <2>1, <2>3, SetOfList
  <2>5. Deferred' \subseteq Deferred
    BY <1>1, <2>2, <2>3, <2>4
  <2> QED BY <1>3, <2>5
<1>11. CASE UntypedCalled
  <2>1. PICK q, x, y : q = Tail(task.scan) /\ x = Head(task.scan) /\ y = <<x>>
    OBVIOUS
  <2>2. /\ task.scan # <<>> /\ task'.scan = q /\ task'.calls = y
        /\ UNCHANGED <<cluster_connections, data_dep_connections, untyped_connections, type_pinnings,
                       MapWork, PinWork>>
    BY <1>11, <2>1, Zenon DEF UntypedCalled
  <2>3. ToSet(task.scan) = {x} \cup ToSet(q) /\ ToSet(y) = {x}
    BY <1>0, <2>1, <2>2, SetOfList, SmallLists
  <2>4. Deferred' \subseteq Deferred
    BY <1>1, <2>2, <2>3
  <2> QED BY <1>3, <2>4
<1>12. CASE NothingMoved
  <2>1. Deferred' \subseteq Deferred
    BY <1>1, <1>12 DEF NothingMoved
  <2> QED BY <1>3, <2>1
<1> QED
  BY <1>4, <1>5, <1>6, <1>7, <1>8, <1>9, <1>10, <1>11, <1>12 DEF HandedOn

LEMMA MarksKept ==
  ASSUME MarksFound, connections' = connections, connected_shared_ports' = connected_shared_ports,
         Flat(Deferred') \subseteq Flat(Deferred)
  PROVE  MarksFound'
<1>1. Flat(Deferred)' = Flat(Deferred')
  BY DEF Flat, Leaves, Whole
<1> QED
  BY <1>1 DEF MarksFound, MarksMade, NoneDeferred, MarksMutable, MutableShared

LEMMA MarksQuiet ==
  ASSUME ListsInv, FlagsInv, MarksFound,
         SetupPipeline \/ MapCluster \/ ConfigureProcess \/ TakePinnings \/ Pin \/ NextName
           \/ Propagate \/ RetryPinned \/ EndReset,
         ~Throw
  PROVE  MarksFound'
<1>1. HandedOn
  BY Handing
<1>2. connections' = connections /\ connected_shared_ports' = connected_shared_ports
  BY DEF SetupPipeline, MapCluster, ConfigureProcess, TakePinnings, Pin, NextName, Propagate, RetryPinned,
         EndReset, lists
<1>3. CASE EndReset
  <2>1. /\ task.calls = <<>> /\ task.scan = <<>> /\ task'.calls = <<>> /\ task'.scan = <<>>
        /\ task.stage = "replay" /\ task'.stage = "idle" /\ UNCHANGED lists
    BY <1>3 DEF EndReset, AtStage, Idle, ListsInv, TaskTyped
  <2>2. Deferred' = Deferred
    <3>1. MapWork' = MapWork /\ PinWork' = PinWork
      BY <2>1 DEF MapWork, PinWork
    <3>2. ToSet(<<>>) = {}
      BY SmallLists
    <3>3. DeferredLists' = DeferredLists
      BY <2>1 DEF DeferredLists, Firsts, lists
    <3>4. Firsts(ToSet(PinWork))' = Firsts(ToSet(PinWork)) /\ ToSet(MapWork)' = ToSet(MapWork)
      BY <3>1 DEF Firsts
    <3> QED BY <2>1, <3>2, <3>3, <3>4 DEF Deferred
  <2> QED BY <1>2, <2>2, MarksKept
<1>4. CASE ~EndReset
  <2>1. task.stage # "replay" /\ task'.stage # "replay"
    <3>1. CASE SetupPipeline
      BY <3>1 DEF SetupPipeline, Idle
    <3>2. CASE MapCluster \/ ConfigureProcess \/ TakePinnings \/ Pin \/ NextName \/ Propagate \/ RetryPinned
      <4>1. task.stage \in {"map", "configure", "pin", "propagate"}
        BY <3>2 DEF MapCluster, ConfigureProcess, TakePinnings, Pin, NextName, Propagate, RetryPinned, AtStage
      <4>2. setup' = setup
        BY <3>2 DEF MapCluster, ConfigureProcess, TakePinnings, Pin, NextName, Propagate, RetryPinned, flags
      <4>3. setup
        BY <4>1 DEF FlagsInv
      <4>4. FlagsInv'
        BY <3>2, FlagsNext DEF Next, Setup
      <4> QED BY <4>1, <4>2, <4>3, <4>4 DEF FlagsInv
    <3> QED BY <1>4, <3>1, <3>2
  <2> QED BY <1>1, <1>2, <2>1, DeferredHanded, MarksKept
<1> QED
  BY <1>3, <1>4

LEMMA MarksAskFor ==
  ASSUME SharedPlainly, ListsInv, MarksFound, NEW c \in Wanted, AskFor(c) PROVE MarksFound'
<1>1. Connect(c) /\ task' = task
  BY DEF AskFor
<1>2. Deferred' \subseteq DeferredLists' \cup Deferred
  <2>1. MapWork' = MapWork /\ PinWork' = PinWork
    BY <1>1 DEF MapWork, PinWork
  <2>2. Firsts(ToSet(PinWork))' = Firsts(ToSet(PinWork)) /\ ToSet(MapWork)' = ToSet(MapWork)
    BY <2>1 DEF Firsts
  <2> QED BY <1>1, <2>2 DEF Deferred
<1> QED
  BY <1>1, <1>2, MarksWanted

LEMMA MarksDisconnect ==
  ASSUME SharedPlainly, ListsInv, FlagsInv, StageInv, HeldInv, ~failed, Asked, MarksFound,
         NEW c \in Wanted, Disconnect(c)
  PROVE  MarksFound'
<1>1. /\ task = Idle /\ task' = task /\ ~setup /\ c \in MayDisconnect
      /\ type_pinnings' = type_pinnings /\ connected_shared_ports' = connected_shared_ports
      /\ connections' = Without(connections, c) /\ data_dep_connections' = Without(data_dep_connections, c)
      /\ untyped_connections' = Without(untyped_connections, c)
      /\ cluster_connections' = Without(cluster_connections, c)
  BY DEF Disconnect
<1>2. task.stage = "idle"
  BY <1>1 DEF Idle
<1>3. /\ connections \in Seq(Conn) /\ data_dep_connections \in Seq(Conn)
      /\ untyped_connections \in Seq(Conn) /\ cluster_connections \in Seq(Conn)
  BY DEF ListsInv, ListsTyped
<1>4. ASSUME NEW s \in Seq(Conn) PROVE ToSet(Without(s, c)) = ToSet(s) \ {c}
  <2>1. ToSet(Without(s, c)) = ToSet(s) \cap (ToSet(s) \ {c})
    BY <1>4, SetOfList DEF Without
  <2> QED BY <2>1
<1>5. /\ ToSet(connections') = ToSet(connections) \ {c}
      /\ ToSet(data_dep_connections') = ToSet(data_dep_connections) \ {c}
      /\ ToSet(untyped_connections') = ToSet(untyped_connections) \ {c}
      /\ ToSet(cluster_connections') = ToSet(cluster_connections) \ {c}
  BY <1>1, <1>3, <1>4
<1>6. NoneDeferred'
  <2>1. MapWork' = MapWork /\ PinWork' = PinWork
    BY <1>1 DEF MapWork, PinWork
  <2>2. Firsts(ToSet(PinWork))' = Firsts(ToSet(PinWork)) /\ ToSet(MapWork)' = ToSet(MapWork)
        /\ Firsts(ToSet(type_pinnings))' = Firsts(ToSet(type_pinnings))
    BY <1>1, <2>1 DEF Firsts
  <2>3. Deferred' \subseteq Deferred
    BY <1>1, <1>5, <2>2 DEF Deferred, DeferredLists
  <2>4. Flat(Deferred') \subseteq Flat(Deferred) /\ Flat(Deferred)' = Flat(Deferred')
    BY <2>3, FlatGrows DEF Flat, Leaves, Whole
  <2> QED BY <2>4 DEF MarksFound, NoneDeferred, MutableShared
<1>7. MarksMade'
  <2> SUFFICES ASSUME NEW p, MarksMutable(p)
               PROVE  \E d \in ToSet(connections') : d[1] = p /\ d[2] \in Mutable
    BY <1>1 DEF MarksMade, MarksMutable
  <2>1. PICK d \in ToSet(connections) : d[1] = p /\ d[2] \in Mutable
    BY DEF MarksFound, MarksMade
  <2>2. d \in Wanted
    <3>1. d \in Pending
      BY DEF Pending, Listed
    <3>2. d \in ToSet(planned_connections)
      BY <1>1, <1>2, <3>1 DEF HeldInv
    <3> QED BY <3>2 DEF Asked
  <2>3. MutableShared(d)
    BY <2>1 DEF MarksMutable, ListsInv, Marks, MutableShared
  <2>4. d \in Conn /\ ~OfCluster(d)
    BY <1>3, ListElements DEF StageInv
  <2>5. d \in Flat({d})
    <3>1. Flat({d}) = {d}
      BY <2>4, FlatOfProcesses
    <3> QED BY <3>1
  <2>6. d \notin MayDisconnect
    BY <2>2, <2>3, <2>5 DEF SharedPlainly
  <2> QED BY <1>1, <1>5, <2>1, <2>6
<1> QED
  BY <1>6, <1>7 DEF MarksFound

LEMMA MarksReset ==
  ASSUME Reset PROVE MarksFound'
<1>1. /\ cluster_connections' = <<>> /\ data_dep_connections' = <<>>
      /\ untyped_connections' = <<>> /\ type_pinnings' = <<>> /\ connected_shared_ports' = NoTypes
      /\ task'.stage = "replay" /\ task'.scan = <<>>
  BY DEF Reset, Idle
<1>2. MapWork' = <<>> /\ PinWork' = <<>>
  BY <1>1 DEF MapWork, PinWork
<1>3. ToSet(<<>>) = {} /\ Firsts({}) = {}
  BY SmallLists, FirstsParts
<1>4. Deferred' = {}
  <2>1. Deferred' = ToSet(cluster_connections') \cup ToSet(data_dep_connections') \cup ToSet(untyped_connections')
           \cup Firsts(ToSet(type_pinnings')) \cup ToSet(MapWork') \cup Firsts(ToSet(PinWork'))
           \cup ToSet(task'.scan)
    BY <1>1 DEF Deferred, DeferredLists, Firsts
  <2> QED BY <1>1, <1>2, <1>3, <2>1
<1>5. Flat(Deferred)' = {}
  <2>1. Flat(Deferred)' = Flat(Deferred')
    BY DEF Flat, Leaves, Whole
  <2> QED BY <1>4, <2>1 DEF Flat
<1>6. MarksMade'
  <2>1. DOMAIN connected_shared_ports' = {}
    BY <1>1 DEF NoTypes
  <2> QED BY <2>1 DEF MarksMade, MarksMutable
<1> QED
  BY <1>5, <1>6 DEF MarksFound, NoneDeferred

LEMMA MarksReconnect ==
  ASSUME SharedPlainly, ListsInv, FlagsInv, HeldInv, ~failed, Asked, MarksFound, Reconnect,
         ~Refused(Head(task.calls))
  PROVE  MarksFound'
<1>1. PICK c, q : c = Head(task.calls) /\ q = Tail(task.calls)
  OBVIOUS
<1>2. /\ DOMAIN task = {"stage", "calls", "work", "kyu", "name", "scan"} /\ task.calls \in Seq(Conn)
      /\ task.stage # "idle" /\ task.calls # <<>>
  BY WorkTyped DEF Reconnect, ListsInv, TaskTyped
<1>3. /\ c \in Conn /\ Connect(c) /\ ToSet(task.calls) = {c} \cup ToSet(q)
      /\ task' = [task EXCEPT !.calls = q]
  BY <1>1, <1>2, SetOfList DEF Reconnect
<1>4. /\ task'.stage = task.stage /\ task'.work = task.work /\ task'.scan = task.scan /\ task'.calls = q
  BY <1>2, <1>3
<1>5. MapWork' = MapWork /\ PinWork' = PinWork
  BY <1>4 DEF MapWork, PinWork
<1>6. Deferred' \subseteq DeferredLists' \cup Deferred
  <2>1. Firsts(ToSet(PinWork))' = Firsts(ToSet(PinWork)) /\ ToSet(MapWork)' = ToSet(MapWork)
    BY <1>5 DEF Firsts
  <2> QED BY <1>3, <1>4, <2>1 DEF Deferred
<1>7. CASE task.stage = "replay"
  <2>1. c \in Wanted
    BY <1>3, <1>7 DEF HeldInv, Asked
  <2> QED BY <1>3, <1>6, <2>1, MarksWanted
<1>8. CASE task.stage # "replay"
  <2>1. c \in Deferred
    BY <1>3, <1>8 DEF Deferred
  <2> QED BY <1>3, <1>6, <2>1, MarksDeferred
<1> QED
  BY <1>7, <1>8

LEMMA MarksNext ==
  ASSUME SharedPlainly, ListsInv, FlagsInv, StageInv, HeldInv, Asked, Live => MarksFound, ~failed, ~failed',
         [Next]_vars
  PROVE  Live' => MarksFound'
<1>1. ASSUME NEW c \in Wanted, AskFor(c) \/ Disconnect(c) PROVE MarksFound'
  <2>1. ~setup
    <3>1. AskFor(c) => task = Idle /\ (setup => setup_in_progress)
      BY DEF AskFor
    <3>2. ASSUME task = Idle PROVE task.stage = "idle"
      BY <3>2 DEF Idle
    <3> QED BY <1>1, <3>1, <3>2 DEF FlagsInv, Disconnect
  <2> QED BY <1>1, <2>1, MarksAskFor, MarksDisconnect DEF Live
<1>2. CASE SetupPipeline \/ MapCluster \/ TakePinnings \/ RetryPinned \/ EndReset
           \/ ConfigureProcess \/ Pin \/ NextName \/ Propagate
  <2>1. Live
    BY <1>2 DEF SetupPipeline, MapCluster, TakePinnings, RetryPinned, EndReset, ConfigureProcess, Pin,
                NextName, Propagate, Live, AtStage, InSetup, FlagsInv
  <2>2. CASE Throw
    <3>1. task'.stage = "idle" /\ (task.stage = "replay" => failed')
      BY <2>2 DEF Throw, Idle
    <3>2. InSetup \/ EndReset
      <4>1. SetupPipeline => task'.stage = "map"
        BY DEF SetupPipeline, Idle
      <4> QED BY <1>2, <3>1, <4>1 DEF MapCluster, ConfigureProcess, TakePinnings, Pin, NextName, Propagate,
                RetryPinned, AtStage, InSetup
    <3>3. EndReset => task.stage = "replay"
      BY DEF EndReset, AtStage
    <3> QED BY <2>2, <3>1, <3>2, <3>3, ThrowEnds
  <2> QED BY <1>2, <2>1, <2>2, MarksQuiet
<1>3. CASE FinishSetup
  <2>1. InSetup /\ setup
    BY <1>3 DEF FinishSetup, AtStage, InSetup, FlagsInv
  <2>2. Throw \/ (task' = Idle /\ setup' = setup)
    BY <1>3 DEF FinishSetup
  <2>3. setup' = setup /\ task' = Idle
    BY <2>2 DEF Throw
  <2>4. task'.stage = "idle"
    BY <2>3 DEF Idle
  <2> QED BY <2>1, <2>3, <2>4 DEF Live, InSetup
<1>4. CASE Start \/ Stop \/ UNCHANGED vars
  <2>1. UNCHANGED <<lists, task, setup>>
    BY <1>4 DEF Start, Stop, vars, flags
  <2>2. ASSUME Live' PROVE MarksFound'
    <3>1. Live
      BY <2>1, <2>2 DEF Live, InSetup
    <3>2. Flat(Deferred)' = Flat(Deferred') /\ Deferred' = Deferred
      BY <2>1 DEF Flat, Leaves, Whole, Deferred, DeferredLists, lists, MapWork, PinWork, Firsts
    <3> QED BY <2>1, <3>1, <3>2, MarksKept DEF lists
  <2> QED BY <2>2
<1>5. CASE Reconnect
  <2>1. Live
    BY <1>5 DEF Reconnect, ListsInv, TaskTyped, FlagsInv, Live, InSetup
  <2>2. CASE Refused(Head(task.calls))
    <3>1. Throw
      BY <1>5, <2>2 DEF Reconnect
    <3>2. InSetup
      BY <1>5, <3>1 DEF Throw, InSetup, Reconnect, ListsInv, TaskTyped
    <3> QED BY <3>1, <3>2, ThrowEnds
  <2> QED BY <1>5, <2>1, <2>2, MarksReconnect
<1> QED
  BY <1>1, <1>2, <1>3, <1>4, <1>5, MarksReset DEF Next, Setup

LEMMA MarksInit ==
  ASSUME Init PROVE Asked /\ MarksFound
<1>1. /\ planned_connections = <<>> /\ connections = <<>> /\ cluster_connections = <<>>
      /\ data_dep_connections = <<>> /\ untyped_connections = <<>> /\ type_pinnings = <<>>
      /\ task = Idle /\ connected_shared_ports = NoTypes
  BY DEF Init
<1>2. task.stage = "idle" /\ task.calls = <<>> /\ task.scan = <<>>
  BY <1>1 DEF Idle
<1>3. MapWork = <<>> /\ PinWork = <<>>
  BY <1>2 DEF MapWork, PinWork
<1>4. ToSet(<<>>) = {} /\ Firsts({}) = {}
  BY SmallLists, FirstsParts
<1>5. Deferred = {}
  BY <1>1, <1>2, <1>3, <1>4 DEF Deferred, DeferredLists
<1>6. Flat(Deferred) = {}
  BY <1>5 DEF Flat
<1>7. DOMAIN connected_shared_ports = {}
  BY <1>1 DEF NoTypes
<1> QED
  BY <1>1, <1>4, <1>6, <1>7 DEF Asked, MarksFound, MarksMade, NoneDeferred, MarksMutable

-----------------------------------------------------------------------------
(* The verdict: what connections deserve to be set up.                     *)

Deserved == FedOnce(accepted) /\ Sound(Made)

TypedRight ==
  \A p \in UNION {Ends(c) : c \in Made} :
    type[p] = IF p \in Flowing THEN CHOOSE t \in Pins(Made, p) : TRUE ELSE Settled(p)

LEMMA VerdictParts ==
  VerdictByTypes <=> ((setup /\ ~setup_in_progress /\ ~failed) =>
                        (setup_successful <=> Deserved) /\ (setup_successful => TypedRight))
BY Zenon DEF VerdictByTypes, Deserved, TypedRight, Made

LEMMA GoodStays ==
  ASSUME declared' = declared, accepted' = accepted, accepted \subseteq Conn
  PROVE  /\ Deserved' <=> Deserved
         /\ type' = type => (TypedRight' <=> TypedRight)
<1>1. PICK M : M = Made
  OBVIOUS
<1>2. M \in SUBSET Conn /\ Made' = M
  BY <1>1, PinsStay, FlatOfAccepted DEF Made
<1>3. /\ Flowing' = Flowing /\ \A p : Settled(p)' = Settled(p)
      /\ \A p : Pins(M, p)' = Pins(M, p)
  BY <1>2, TypingStays
<1>4. FedOnce(accepted)' <=> FedOnce(accepted)
  BY DEF FedOnce, Leaves, Whole
<1>5. Sound(Made)' <=> Sound(M)'
  BY <1>2
<1>6. Typable(M)' <=> Typable(M)
  BY <1>3, Zenon DEF Typable, Ends
<1>7. /\ Sharable(M)' <=> Sharable(M)
      /\ check_for_required_ports(M)' <=> check_for_required_ports(M)
      /\ Acyclic(M)' <=> Acyclic(M)
  BY DEF Sharable, check_for_required_ports, OneGraph, Acyclic, Between
<1>8. Sound(M)' <=> Sound(M)
  BY <1>6, <1>7 DEF Sound
<1>9. type' = type => (TypedRight' <=> TypedRight)
  BY <1>1, <1>2, <1>3, ZenonT(60) DEF TypedRight, Ends
<1> QED
  BY <1>1, <1>4, <1>5, <1>8, <1>9 DEF Deserved

(* A flow-dependent group that two types are wanted of is not typable.     *)
LEMMA PinsFinite ==
  ASSUME IsFiniteSet(Ports), NEW cs \in SUBSET Conn, NEW p PROVE IsFiniteSet(Pins(cs, p))
<1> DEFINE f == [r \in Ports |-> Settled(r)]
           Y == {Settled(r) : r \in Ports}
<1>1. f \in Surjection(Ports, Y)
  BY DEF Surjection
<1>2. IsFiniteSet(Y)
  BY <1>1, FS_Surjection
<1>3. \A c \in cs : Ends(c) \subseteq Ports
  BY TheTypes DEF Ends
<1>4. Pins(cs, p) \subseteq Y
  BY <1>3 DEF Pins
<1> HIDE DEF Y
<1> QED
  BY <1>2, <1>4, FS_Subset

LEMMA OnePin ==
  ASSUME IsFiniteSet(Ports), NEW cs \in SUBSET Conn, Typable(cs), NEW c \in cs, NEW e \in Ends(c), e \in Flowing
  PROVE  \E t : Pins(cs, e) = {t}
<1>1. e \in (UNION {Ends(d) : d \in cs}) \cap Flowing
  OBVIOUS
<1>2. Cardinality(Pins(cs, e)) = 1
  BY <1>1, Zenon DEF Typable
<1>3. IsFiniteSet(Pins(cs, e))
  BY PinsFinite
<1> QED
  BY <1>2, <1>3, FS_Singleton

(* What connect refuses during set-up no order of the calls could accept.  *)
LEMMA RefusedIsBad ==
  ASSUME IsFiniteSet(Ports), ListsInv, StageInv, HeldInv, TypesFound, KindsFound, MarksFound, ~failed, InSetup,
         Made \subseteq Conn, NEW c \in Conn, c \in ToSet(task.calls), Refused(c)
  PROVE  ~Deserved
<1>1. ~OfCluster(c) /\ (~check_connection_flags(c) \/ check_connection_types(c) = "mismatch")
  BY DEF Refused, Outcome, check_connection_types
<1>2. c \in Made
  BY <1>1, HeldMade DEF Pending, InTask
<1>3. CASE ~check_connection_flags(c)
  <2>1. ~MutableShared(c)
    <3>1. c \in Deferred /\ {c} \subseteq Deferred
      BY DEF Deferred, InSetup
    <3>2. Flat({c}) = {c} /\ Flat({c}) \subseteq Flat(Deferred)
      BY <1>1, <3>1, FlatOfProcesses, FlatGrows
    <3> QED BY <3>2 DEF MarksFound, NoneDeferred
  <2>2. CASE c[1] \in Const /\ c[2] \in Mutable
    BY <1>2, <2>2 DEF Deserved, Sound, Sharable
  <2>3. CASE c[1] \in Shared /\ Marked(c[1]) /\ connected_shared_ports[c[1]]
    <3>1. PICK d \in ToSet(connections) : d[1] = c[1] /\ d[2] \in Mutable
      BY <2>3 DEF MarksFound, MarksMade, MarksMutable, Marked
    <3>2. d # c
      BY <2>1, <2>3, <3>1 DEF MutableShared
    <3>3. d \in Made
      <4>1. d \in Conn /\ ~OfCluster(d) /\ d \in Pending
        BY <3>1, ListElements DEF StageInv, Pending, Listed
      <4> QED BY <4>1, HeldMade
    <3> QED BY <1>2, <2>3, <3>1, <3>2, <3>3 DEF Deserved, Sound, Sharable
  <2> QED BY <1>3, <2>1, <2>2, <2>3 DEF check_connection_flags, MutableShared
<1>4. CASE check_connection_types(c) = "mismatch"
  <2>1. /\ type[c[1]] \notin NoType /\ type[c[2]] # type_flow_dependent
        /\ type[c[1]] # type_any /\ type[c[2]] # type_any /\ type[c[1]] # type[c[2]]
    BY <1>4 DEF check_connection_types, NoType
  <2>2. c[1] \in Ports /\ c[2] \in Ports /\ c[2] \in Inputs
    BY TheTypes
  <2>3. type[c[2]] \notin NoType
    BY <2>1, <2>2, TheTypes DEF ListsInv, TypesKnown, NoType
  <2>4. SUFFICES ASSUME Deserved PROVE FALSE
    OBVIOUS
  <2>5. Typable(Made)
    BY <2>4 DEF Deserved, Sound
  <2>6. CASE \E e \in Ends(c) : e \in Flowing
    <3>1. PICK e \in Ends(c) : e \in Flowing
      BY <2>6
    <3>2. type[c[1]] \in Pins(Made, e) /\ type[c[2]] \in Pins(Made, e)
      BY <1>2, <2>1, <2>3, <3>1, GivenType DEF Ends
    <3>3. \E t : Pins(Made, e) = {t}
      BY <1>2, <2>5, <3>1, OnePin
    <3> QED BY <2>1, <3>2, <3>3
  <2>7. CASE \A e \in Ends(c) : e \notin Flowing
    <3>1. c[1] \notin Flowing /\ c[2] \notin Flowing
      BY <2>7 DEF Ends
    <3>2. type[c[1]] = Settled(c[1]) /\ type[c[2]] = Settled(c[2])
      BY <2>1, <2>2, <2>3, <3>1 DEF TypesFound, NoType
    <3>3. Settled(c[1]) # type_flow_dependent /\ Settled(c[2]) # type_flow_dependent
      BY <2>2, <3>1 DEF Flowing
    <3>4. PICK T : T = {Settled(p) : p \in Ends(c)}
      OBVIOUS
    <3>5. T = {Settled(c[1]), Settled(c[2])}
      BY <3>4 DEF Ends
    <3>6. {type_any, type_flow_dependent} \cap T = {}
      BY <2>1, <3>2, <3>3, <3>5
    <3>7. Cardinality(T) = 1
      BY <1>2, <2>5, <3>4, <3>6, Zenon DEF Typable
    <3>8. IsFiniteSet(T)
      <4>1. IsFiniteSet({Settled(c[1])})
        BY FS_Singleton
      <4>2. IsFiniteSet({Settled(c[1])} \cup {Settled(c[2])})
        BY <4>1, FS_AddElement
      <4>3. T = {Settled(c[1])} \cup {Settled(c[2])}
        BY <3>5
      <4> QED BY <4>2, <4>3
    <3>9. \E x : T = {x}
      BY <3>7, <3>8, FS_Singleton
    <3> QED BY <2>1, <3>2, <3>5, <3>9
  <2> QED BY <2>6, <2>7
<1> QED
  BY <1>1, <1>3, <1>4

(* Nor what a process gets or gives no type for.                           *)
LEMMA CannotSetIsBad ==
  ASSUME IsFiniteSet(Ports), TypesFound, Made \subseteq Conn, NEW c \in Made, NEW e \in Ends(c), e \in Flowing,
         type[e] # type_data_dependent, NEW t, t = type_any \/ t \in Pins(Made, e), ~CanSet(e, t)
  PROVE  ~Deserved
<1>1. t # type_any /\ t # type[e] /\ type[e] \notin NoType /\ type[e] # type_any
  BY DEF CanSet, Settable, NoType
<1>2. SUFFICES ASSUME Deserved PROVE FALSE
  OBVIOUS
<1>3. type[e] \in Pins(Made, e)
  BY <1>1, GivenType
<1>4. \E u : Pins(Made, e) = {u}
  BY <1>2, OnePin DEF Deserved, Sound
<1> QED
  BY <1>1, <1>3, <1>4

LEMMA PinRefusedIsBad ==
  ASSUME IsFiniteSet(Ports), ListsInv, FlagsInv, HeldInv, TypesFound, KindsFound, ~failed,
         Made \subseteq Conn, Pin, Throw
  PROVE  ~Deserved
<1>1. PICK x \in Pinning :
        /\ x = Head(task.work) /\ x[1] \in Made /\ PinPort(x) \in Flowing
        /\ type[PinPort(x)] # type_data_dependent /\ type[PinFrom(x)] \notin NoType
        /\ type[PinFrom(x)] = type_any \/ type[PinFrom(x)] \in Pins(Made, PinPort(x))
  BY PinGives
<1>2. ~CanSet(PinPort(x), type[PinFrom(x)])
  <2>1. task'.stage = "idle"
    <3>1. task' = Idle
      BY DEF Throw
    <3> QED BY <3>1 DEF Idle
  <2>2. CanSet(PinPort(x), type[PinFrom(x)]) => \E k : task' = [task EXCEPT !.stage = "propagate", !.kyu = k]
    BY <1>1 DEF Pin, PinPort, PinFrom
  <2>3. \A k : [task EXCEPT !.stage = "propagate", !.kyu = k].stage = "propagate"
    BY DEF ListsInv, TaskTyped, Tasks
  <2> QED BY <2>1, <2>2, <2>3
<1>3. PinPort(x) \in Ends(x[1])
  BY DEF PinPort, Ends
<1> QED
  BY <1>1, <1>2, <1>3, CannotSetIsBad

LEMMA PropagateRefusedIsBad ==
  ASSUME IsFiniteSet(Ports), ListsInv, FlagsInv, HeldInv, TypesFound, KindsFound, ~failed,
         Made \subseteq Conn, Propagate, Throw
  PROVE  ~Deserved
<1>1. task'.stage = "idle" /\ task.stage = "propagate"
      /\ DOMAIN task = {"stage", "calls", "work", "kyu", "name", "scan"}
  <2>1. task' = Idle
    BY DEF Throw
  <2> QED BY <2>1 DEF Idle, Propagate, AtStage, ListsInv, TaskTyped, Tasks
<1>2. \A s, d, k : /\ [task EXCEPT !.scan = s].stage = "propagate"
                   /\ [task EXCEPT !.scan = s, !.calls = d, !.kyu = k].stage = "propagate"
  BY <1>1
<1>3. /\ Resolves(Head(task.scan))
      /\ ~CanSet(Far(Head(task.scan)), type[Near(Head(task.scan))])
  <2>1. PICK c : c = Head(task.scan)
    OBVIOUS
  <2>2. ~Resolves(c) => \E s : task' = [task EXCEPT !.scan = s]
    BY <2>1 DEF Propagate
  <2>3. CanSet(Far(c), type[Near(c)]) =>
          \/ \E s : task' = [task EXCEPT !.scan = s]
          \/ \E s, d, k : task' = [task EXCEPT !.scan = s, !.calls = d, !.kyu = k]
    BY <2>1 DEF Propagate
  <2> QED BY <1>1, <1>2, <2>1, <2>2, <2>3
<1>4. PICK c \in Made :
        /\ c = Head(task.scan) /\ Near(c) \in Ends(c) /\ Far(c) \in Flowing
        /\ type[Far(c)] # type_data_dependent /\ type[Near(c)] \notin NoType
        /\ type[Near(c)] \in Pins(Made, Far(c)) /\ type[Near(c)] # type_any
  BY <1>3, PropagateGives
<1>5. Far(c) \in Ends(c)
  BY DEF Far, Ends
<1> QED
  BY <1>3, <1>4, <1>5, CannotSetIsBad

LEMMA UnprovidedIsBad ==
  ASSUME ListsInv, HeldInv, TypesFound, ~failed, ConfigureProcess, Throw
  PROVE  ~Deserved
<1>1. task.stage = "configure" /\ InSetup /\ task'.stage = "idle"
      /\ DOMAIN task = {"stage", "calls", "work", "kyu", "name", "scan"}
  <2>1. task' = Idle
    BY DEF Throw
  <2> QED BY <2>1 DEF Idle, ConfigureProcess, AtStage, InSetup, ListsInv, TaskTyped, Tasks
<1>2. PICK name, now, mine :
        /\ name = Head(task.work) /\ mine = {c \in ToSet(data_dep_connections) : Owner[c[1]] = name}
        /\ now = [p \in Ports |-> IF Owner[p] = name /\ type[p] = type_data_dependent
                                  THEN Provides[p] ELSE type[p]]
  OBVIOUS
<1>3. \E c \in mine : now[c[1]] = type_data_dependent
  <2>1. (\A c \in mine : now[c[1]] # type_data_dependent) =>
           \E s, d : task' = [task EXCEPT !.calls = s, !.work = d]
    BY <1>2 DEF ConfigureProcess
  <2>2. \A s, d : [task EXCEPT !.calls = s, !.work = d].stage = "configure"
    BY <1>1
  <2> QED BY <1>1, <2>1, <2>2
<1>4. PICK c \in mine : now[c[1]] = type_data_dependent
  BY <1>3
<1>5. c \in ToSet(data_dep_connections) /\ Owner[c[1]] = name
  BY <1>2, <1>4
<1>6. c \in Conn /\ ~OfCluster(c) /\ c \in Pending
  BY <1>5, ListElements DEF ListsInv, KindsKnown, Pending, Listed
<1>7. c \in Made
  BY <1>1, <1>6, HeldMade
<1>8. c[1] \in Ports
  BY <1>6, TheTypes
<1>9. now[c[1]] = IF Owner[c[1]] = name /\ type[c[1]] = type_data_dependent THEN Provides[c[1]] ELSE type[c[1]]
  BY <1>2, <1>8
<1>10. type[c[1]] = type_data_dependent /\ Provides[c[1]] = type_data_dependent
  BY <1>4, <1>5, <1>9
<1>11. Settled(c[1]) = type_data_dependent
  BY <1>8, <1>10 DEF TypesFound, Settled
<1> QED
  BY <1>7, <1>11 DEF Deserved, Sound, Typable

(* FinishSetup: what the lists are then.                                   *)
LEMMA AtTheEnd ==
  ASSUME ListsInv, StageInv, HeldInv, KindsFound, ~failed, AtStage("pin"), task.work = <<>>, type_pinnings = <<>>
  PROVE  /\ InSetup /\ Made = ToSet(connections) \cup ToSet(untyped_connections)
         /\ \A c \in ToSet(untyped_connections) :
              /\ Ends(c) \subseteq Flowing /\ \A e \in Ends(c) : type[e] = type_flow_dependent
         /\ \A c \in ToSet(connections) : TypesAgree(c)
<1>1. /\ task.stage = "pin" /\ task.calls = <<>> /\ task.scan = <<>> /\ InSetup
  BY DEF AtStage, InSetup, ListsInv, TaskTyped
<1>2. ToSet(<<>>) = {} /\ Firsts({}) = {}
  BY SmallLists, FirstsParts
<1>3. Pending = ToSet(connections) \cup ToSet(untyped_connections)
  <2>1. InTask = {}
    BY <1>1, <1>2 DEF InTask
  <2>2. ToSet(cluster_connections) = {} /\ ToSet(data_dep_connections) = {}
    BY <1>1 DEF StageInv
  <2> QED BY <1>2, <2>1, <2>2 DEF Pending, Listed
<1>4. Pending \in SUBSET Conn /\ \A c \in Pending : ~OfCluster(c)
  BY <1>3, ListElements DEF ListsInv, KindsKnown, StageInv, Waiting
<1>5. Made = Pending
  BY <1>1, <1>4, FlatOfProcesses DEF HeldInv, Made
<1>6. \A c \in ToSet(untyped_connections) : \A e \in Ends(c) : type[e] = type_flow_dependent
  BY <1>1 DEF KindsFound, Queued
<1> QED
  BY <1>1, <1>3, <1>5, <1>6 DEF KindsFound, Waiting

LEMMA AcceptedFinite ==
  ASSUME ListsInv, HeldInv, ~failed PROVE accepted \subseteq Conn /\ IsFiniteSet(accepted)
<1>1. planned_connections \in Seq(Conn) /\ accepted \subseteq ToSet(planned_connections)
  BY DEF ListsInv, ListsTyped, HeldInv
<1>2. IsFiniteSet(ToSet(planned_connections)) /\ ToSet(planned_connections) \subseteq Conn
  BY <1>1, FiniteLists, SetOfList
<1> QED
  BY <1>1, <1>2, FS_Subset

LEMMA FedOnceParts ==
  ASSUME ListsInv, HeldInv, ~failed
  PROVE  FedOnce(accepted) <=> \A r : Cardinality(accepted \cap Fed(r)) <= 1
<1>1. accepted \subseteq Conn /\ IsFiniteSet(accepted)
  BY AcceptedFinite
<1>2. \A r : Cardinality(accepted \cap Fed(r)) <= 1 <=> \A c, d \in accepted \cap Fed(r) : c = d
  <2> SUFFICES ASSUME NEW r
               PROVE  Cardinality(accepted \cap Fed(r)) <= 1 <=> \A c, d \in accepted \cap Fed(r) : c = d
    OBVIOUS
  <2>1. PICK X : X = accepted \cap Fed(r)
    OBVIOUS
  <2>2. IsFiniteSet(X)
    BY <1>1, <2>1, FS_Subset
  <2>3. Cardinality(X) <= 1 <=> \A c, d \in X : c = d
    BY <2>2, OneAtMost
  <2> QED BY <2>1, <2>3
<1>3. \A c \in accepted : \A r : c \in Fed(r) <=> r \in Leaves[c[2]]
  BY <1>1 DEF Fed
<1>4. FedOnce(accepted) <=> \A r : \A c, d \in accepted \cap Fed(r) : c = d
  BY <1>3 DEF FedOnce
<1> QED
  BY <1>2, <1>4

LEMMA CountAtTheEnd ==
  ASSUME ListsInv, StageInv, HeldInv, KindsFound, CountInv, ~failed, AtStage("pin"), task.work = <<>>,
         type_pinnings = <<>>
  PROVE  \A r : /\ Hits(connections, Fed(r)) \in Nat /\ Hits(untyped_connections, Fed(r)) \in Nat
                /\ Cardinality(accepted \cap Fed(r)) = Hits(connections, Fed(r)) + Hits(untyped_connections, Fed(r))
<1> SUFFICES ASSUME NEW r
             PROVE  /\ Hits(connections, Fed(r)) \in Nat /\ Hits(untyped_connections, Fed(r)) \in Nat
                    /\ Cardinality(accepted \cap Fed(r)) = Hits(connections, Fed(r)) + Hits(untyped_connections, Fed(r))
  OBVIOUS
<1>1. /\ task.stage = "pin" /\ task.calls = <<>> /\ task.scan = <<>> /\ InSetup
  BY DEF AtStage, InSetup, ListsInv, TaskTyped
<1>2. MapWork = <<>> /\ PinWork = <<>>
  BY <1>1 DEF MapWork, PinWork
<1>3. PICK S : S = Fed(r)
  OBVIOUS
<1>4. \A P : Hits(<<>>, P) = 0
  BY HitsNone
<1>5. Hits(cluster_connections, S) = 0 /\ Hits(data_dep_connections, S) = 0
  <2>1. ToSet(cluster_connections) = {} /\ ToSet(data_dep_connections) = {}
    BY <1>1 DEF StageInv
  <2>2. cluster_connections \in Seq(Conn) /\ data_dep_connections \in Seq(Conn)
    BY DEF ListsInv, ListsTyped
  <2>3. cluster_connections = <<>> /\ data_dep_connections = <<>>
    BY <2>1, <2>2, SetOfList
  <2> QED BY <1>4, <2>3, Zenon
<1>6. /\ Hits(type_pinnings, PinnedOf(S)) = 0 /\ Hits(task.calls, S) = 0 /\ Hits(task.scan, S) = 0
      /\ Hits(MapWork, S) = 0 /\ Hits(PinWork, PinnedOf(S)) = 0
  BY <1>1, <1>2, <1>4, Zenon
<1>7. Hits(connections, S) \in Nat /\ Hits(untyped_connections, S) \in Nat
  BY TotalsTyped
<1>8. Total(S) = (Hits(connections, S) + 0 + 0 + Hits(untyped_connections, S) + 0) + (0 + 0 + 0 + 0)
  BY <1>5, <1>6, Zenon DEF Total, ListTotal, TaskTotal
<1>9. PICK a, b : a = Hits(connections, S) /\ b = Hits(untyped_connections, S)
  OBVIOUS
<1>10. Total(S) = a + b
  BY <1>7, <1>8, <1>9
<1>11. Total(Fed(r)) = Cardinality(accepted \cap Fed(r))
  BY <1>1 DEF CountInv, FeedsHeld
<1> QED
  BY <1>3, <1>7, <1>9, <1>10, <1>11

LEMMA FedAtTheEnd ==
  ASSUME ListsInv, StageInv, HeldInv, KindsFound, CountInv, ~failed, AtStage("pin"), task.work = <<>>,
         type_pinnings = <<>>
  PROVE  /\ FedOnce(accepted) => make_connections
         /\ untyped_connections = <<>> /\ make_connections => FedOnce(accepted)
<1>1. connections \in Seq(Conn) /\ Len(connections) \in Nat /\ DOMAIN connections = 1..Len(connections)
  BY LenProperties DEF ListsInv, ListsTyped
<1>2. \A i \in 1..Len(connections) : connections[i] \in Conn /\ ~OfCluster(connections[i])
  <2>1. \A i \in 1..Len(connections) : connections[i] \in ToSet(connections)
    BY <1>1 DEF ToSet
  <2> QED BY <2>1, ListElements DEF StageInv
<1>3. \A i \in 1..Len(connections) : Leaves[connections[i][2]] = {connections[i][2]}
  BY <1>2, TheTypes, LeavesOfProcess DEF OfCluster
<1>4. \A r : Places(connections, Fed(r)) = {i \in 1..Len(connections) : connections[i][2] = r}
  BY <1>2, <1>3 DEF Places, Fed
<1>5. \A r : IsFiniteSet(Places(connections, Fed(r)))
  BY <1>1, HitsCount
<1>6. \A r : Hits(connections, Fed(r)) <= 1 <=>
               \A i, j \in 1..Len(connections) : connections[i][2] = r /\ connections[j][2] = r => i = j
  <2> SUFFICES ASSUME NEW r
               PROVE  Hits(connections, Fed(r)) <= 1 <=>
                 \A i, j \in 1..Len(connections) : connections[i][2] = r /\ connections[j][2] = r => i = j
    OBVIOUS
  <2>1. PICK X : X = Places(connections, Fed(r))
    OBVIOUS
  <2>2. Cardinality(X) <= 1 <=> \A i, j \in X : i = j
    BY <1>5, <2>1, OneAtMost
  <2>3. X = {i \in 1..Len(connections) : connections[i][2] = r}
    BY <1>4, <2>1
  <2> QED BY <2>1, <2>2, <2>3 DEF Hits
<1>7. make_connections <=> \A r : Hits(connections, Fed(r)) <= 1
  BY <1>1, <1>6 DEF make_connections
<1>8. FedOnce(accepted) <=> \A r : Hits(connections, Fed(r)) + Hits(untyped_connections, Fed(r)) <= 1
  BY FedOnceParts, CountAtTheEnd
<1>9. \A r : Hits(connections, Fed(r)) \in Nat /\ Hits(untyped_connections, Fed(r)) \in Nat
  BY CountAtTheEnd
<1>10. untyped_connections = <<>> => \A r : Hits(untyped_connections, Fed(r)) = 0
  BY HitsNone, Zenon
<1>11. FedOnce(accepted) => \A r : Hits(connections, Fed(r)) <= 1
  BY <1>8, <1>9
<1>12. untyped_connections = <<>> /\ (\A r : Hits(connections, Fed(r)) <= 1) => FedOnce(accepted)
  BY <1>8, <1>9, <1>10
<1> QED
  BY <1>7, <1>11, <1>12

(* A group with a connection that nothing has typed has no type.           *)
LEMMA UntypedIsBad ==
  ASSUME ListsInv, TypesFound, Made \subseteq Conn,
         Made = ToSet(connections) \cup ToSet(untyped_connections),
         \A c \in ToSet(untyped_connections) :
           Ends(c) \subseteq Flowing /\ \A e \in Ends(c) : type[e] = type_flow_dependent,
         \A c \in ToSet(connections) : TypesAgree(c), NEW c \in ToSet(untyped_connections)
  PROVE  ~Deserved
<1> DEFINE S == {r \in Flowing : type[r] = type_flow_dependent}
<1>1. c \in Made /\ c[1] \in Ends(c) /\ c[1] \in S /\ c[1] \in Flowing
  BY DEF Ends
<1>2. \A d \in ToSet(connections) : \A e \in Ends(d) : type[e] # type_flow_dependent
  BY DEF TypesAgree, Ends, NoType
<1>3. ClosedUnder(Flowing, Made, S)
  <2>1. ASSUME NEW d \in Made, Ends(d) \subseteq Flowing PROVE Ends(d) \subseteq S \/ Ends(d) \cap S = {}
    BY <1>2, <2>1
  <2>2. ASSUME NEW r \in Flowing
        PROVE  (Tagged(r) \cap Flowing) \subseteq S \/ (Tagged(r) \cap Flowing) \cap S = {}
    <3>1. \A q \in Tagged(r) : type[q] = type[r]
      BY <2>2 DEF TypesFound, Flowing
    <3> QED BY <3>1
  <2> QED BY <2>1, <2>2 DEF ClosedUnder
<1>4. GroupOf(Flowing, Made, c[1]) \subseteq S
  BY <1>1, <1>3, GroupParts
<1>5. PICK P : P = Pins(Made, c[1])
  OBVIOUS
<1>6. P = PinsOf(Flowing, SettledTypes, Made, c[1])
  BY <1>5, PinsAre
<1>7. P = {}
  <2>1. SUFFICES ASSUME NEW t \in P PROVE FALSE
    OBVIOUS
  <2>2. PICK d \in Made : \E r \in Ends(d) :
          Ends(d) \cap GroupOf(Flowing, Made, c[1]) # {} /\ SettledTypes[r] = t /\ t # type_flow_dependent
    BY <1>6, <2>1 DEF PinsOf
  <2>6. PICK r \in Ends(d) : SettledTypes[r] = t /\ t # type_flow_dependent
    BY <2>2
  <2>3. \E e \in Ends(d) : type[e] = type_flow_dependent
    BY <1>4, <2>2
  <2>4. d \in ToSet(untyped_connections)
    BY <1>2, <2>3
  <2>5. r \in Flowing
    BY <2>4
  <2> QED BY <2>5, <2>6 DEF Flowing, SettledTypes
<1>8. SUFFICES ASSUME Deserved PROVE FALSE
  OBVIOUS
<1>9. c[1] \in (UNION {Ends(d) : d \in Made}) \cap Flowing
  BY <1>1
<1>10. Cardinality(P) = 1
  BY <1>5, <1>8, <1>9, Zenon DEF Deserved, Sound, Typable
<1> QED
  BY <1>7, <1>10, FS_EmptySet

(* When every connection is made, each group has the one type that its     *)
(* ports have.                                                             *)
LEMMA TypedAtTheEnd ==
  ASSUME ListsInv, TypesFound, Made \subseteq Conn, \A c \in Made : TypesAgree(c)
  PROVE  Typable(Made) /\ TypedRight
<1>1. \A c \in Made : \A e \in Ends(c) : e \in Ports /\ type[e] \notin NoType
  <2> SUFFICES ASSUME NEW c \in Made, NEW e \in Ends(c) PROVE e \in Ports /\ type[e] \notin NoType
    OBVIOUS
  <2>1. c \in Conn /\ c[1] \in Ports /\ c[2] \in Ports /\ c[2] \in Inputs
    BY TheTypes
  <2>2. type[c[2]] # type_data_dependent
    BY <2>1, TheTypes DEF ListsInv, TypesKnown
  <2> QED BY <2>1, <2>2 DEF TypesAgree, Ends, NoType
<1>2. \A c \in Made : \A e \in Ends(c) :
        /\ e \notin Flowing => type[e] = Settled(e)
        /\ e \in Flowing => type[e] # type_any /\ type[e] \in Pins(Made, e)
  BY <1>1 DEF TypesFound, NoType, Made
<1>3. \A c \in Made : \A e, f \in Ends(c) : type[e] # type_any /\ type[f] # type_any => type[e] = type[f]
  BY DEF TypesAgree, Ends
<1>4. ASSUME NEW c \in Made, NEW e \in Ends(c), e \in Flowing PROVE Pins(Made, e) = {type[e]}
  <2> DEFINE S == {r \in Flowing : type[r] = type[e]}
  <2>1. e \in S
    BY <1>4
  <2>2. ClosedUnder(Flowing, Made, S)
    <3>1. ASSUME NEW d \in Made, Ends(d) \subseteq Flowing PROVE Ends(d) \subseteq S \/ Ends(d) \cap S = {}
      BY <1>2, <1>3, <3>1
    <3>2. ASSUME NEW r \in Flowing
          PROVE  (Tagged(r) \cap Flowing) \subseteq S \/ (Tagged(r) \cap Flowing) \cap S = {}
      <4>1. \A q \in Tagged(r) : type[q] = type[r]
        BY <3>2 DEF TypesFound, Flowing
      <4> QED BY <4>1
    <3> QED BY <3>1, <3>2 DEF ClosedUnder
  <2>3. GroupOf(Flowing, Made, e) \subseteq S
    BY <1>4, <2>1, <2>2, GroupParts
  <2>4. PICK P : P = Pins(Made, e)
    OBVIOUS
  <2>5. P = PinsOf(Flowing, SettledTypes, Made, e)
    BY <2>4, PinsAre
  <2>6. ASSUME NEW t \in P PROVE t = type[e]
    <3>0. PICK d \in Made : \E r \in Ends(d) :
            /\ Ends(d) \cap GroupOf(Flowing, Made, e) # {} /\ SettledTypes[r] = t
            /\ t # type_any /\ t # type_flow_dependent
      BY <2>5, <2>6 DEF PinsOf
    <3>1. PICK r \in Ends(d) :
            /\ Ends(d) \cap GroupOf(Flowing, Made, e) # {} /\ SettledTypes[r] = t
            /\ t # type_any /\ t # type_flow_dependent
      BY <3>0
    <3>2. PICK g \in Ends(d) : g \in Flowing /\ type[g] = type[e]
      BY <2>3, <3>1
    <3>3. r \in Ports /\ Settled(r) = t
      BY <1>1, <3>1 DEF SettledTypes
    <3>4. r \notin Flowing
      BY <3>1, <3>3 DEF Flowing
    <3>5. type[r] = t /\ type[g] # type_any
      BY <1>2, <3>2, <3>3, <3>4
    <3> QED BY <1>3, <3>1, <3>2, <3>5
  <2>7. type[e] \in P
    BY <1>2, <1>4, <2>4
  <2> QED BY <2>4, <2>6, <2>7
<1>5. \A c \in Made : Settled(c[1]) # type_data_dependent
  <2> SUFFICES ASSUME NEW c \in Made, Settled(c[1]) = type_data_dependent PROVE FALSE
    OBVIOUS
  <2>1. c[1] \in Ends(c) /\ c[1] \notin Flowing
    BY DEF Ends, Flowing, type_data_dependent, type_flow_dependent
  <2> QED BY <1>1, <1>2, <2>1 DEF NoType
<1>6. \A p \in (UNION {Ends(c) : c \in Made}) \cap Flowing : Cardinality(Pins(Made, p)) = 1
  <2> SUFFICES ASSUME NEW p \in (UNION {Ends(c) : c \in Made}) \cap Flowing
               PROVE  Cardinality(Pins(Made, p)) = 1
    OBVIOUS
  <2>1. PICK c \in Made : p \in Ends(c) /\ p \in Flowing
    OBVIOUS
  <2>2. Pins(Made, p) = {type[p]}
    BY <1>4, <2>1
  <2> QED BY <2>2, FS_Singleton
<1>7. ASSUME NEW c \in Made, NEW T, T = {Settled(p) : p \in Ends(c)},
             {type_any, type_flow_dependent} \cap T = {}
      PROVE  Cardinality(T) = 1
  <2>1. T = {Settled(c[1]), Settled(c[2])} /\ c[1] \in Ends(c) /\ c[2] \in Ends(c)
    BY <1>7 DEF Ends
  <2>2. c[1] \notin Flowing /\ c[2] \notin Flowing
    BY <1>7, <2>1 DEF Flowing
  <2>3. Settled(c[1]) = Settled(c[2])
    BY <1>2, <1>3, <1>7, <2>1, <2>2
  <2>4. T = {Settled(c[1])}
    BY <2>1, <2>3
  <2> QED BY <2>4, FS_Singleton
<1>8. Typable(Made)
  BY <1>5, <1>6, <1>7, Zenon DEF Typable
<1>9. TypedRight
  <2> SUFFICES ASSUME NEW c \in Made, NEW p \in Ends(c)
               PROVE  type[p] = IF p \in Flowing THEN CHOOSE t \in Pins(Made, p) : TRUE ELSE Settled(p)
    BY Zenon DEF TypedRight
  <2>1. CASE p \in Flowing
    <3>1. Pins(Made, p) = {type[p]}
      BY <1>4, <2>1
    <3>2. (CHOOSE t \in {type[p]} : TRUE) = type[p]
      OBVIOUS
    <3> QED BY <2>1, <3>1, <3>2, Zenon
  <2>2. CASE p \notin Flowing
    BY <1>2, <2>2
  <2> QED BY <2>1, <2>2
<1> QED
  BY <1>8, <1>9

(* The end of set-up: it succeeds on what is good, and gives the types.    *)
LEMMA FinishGood ==
  ASSUME ListsInv, FlagsInv, StageInv, HeldInv, SharingInv, TypesFound, KindsFound, CountInv, ~failed,
         Made \subseteq Conn, FinishSetup, setup_successful'
  PROVE  Deserved /\ TypedRight
<1>1. AtStage("pin") /\ task.work = <<>> /\ type_pinnings = <<>>
  BY DEF FinishSetup
<1>2. ~Throw
  <2>1. ~setup_successful
    BY <1>1 DEF AtStage, FlagsInv
  <2> QED BY <2>1 DEF Throw
<1>3. /\ untyped_connections = <<>> /\ make_connections
      /\ check_for_required_ports(ToSet(connections)) /\ Acyclic(ToSet(connections))
  BY <1>2 DEF FinishSetup
<1>4. Made = ToSet(connections) /\ \A c \in ToSet(connections) : TypesAgree(c)
  BY <1>1, <1>3, AtTheEnd, SmallLists
<1>5. Typable(Made) /\ TypedRight
  BY <1>4, TypedAtTheEnd
<1>6. Sharable(Made)
  BY <1>4 DEF SharingInv, Sharable
<1>7. check_for_required_ports(Made) /\ Acyclic(Made)
  BY <1>3, <1>4
<1>8. FedOnce(accepted)
  BY <1>1, <1>3, FedAtTheEnd
<1> QED
  BY <1>5, <1>6, <1>7, <1>8 DEF Deserved, Sound

LEMMA FinishBad ==
  ASSUME ListsInv, FlagsInv, StageInv, HeldInv, TypesFound, KindsFound, CountInv, ~failed,
         Made \subseteq Conn, FinishSetup, ~setup_successful'
  PROVE  ~Deserved
<1>1. AtStage("pin") /\ task.work = <<>> /\ type_pinnings = <<>>
  BY DEF FinishSetup
<1>2. ~(/\ untyped_connections = <<>> /\ make_connections
        /\ check_for_required_ports(ToSet(connections)) /\ Acyclic(ToSet(connections)))
  BY DEF FinishSetup
<1>3. /\ Made = ToSet(connections) \cup ToSet(untyped_connections)
      /\ \A d \in ToSet(untyped_connections) :
           Ends(d) \subseteq Flowing /\ \A e \in Ends(d) : type[e] = type_flow_dependent
      /\ \A d \in ToSet(connections) : TypesAgree(d)
  BY <1>1, AtTheEnd
<1>4. CASE untyped_connections # <<>>
  <2>1. untyped_connections \in Seq(Conn)
    BY DEF ListsInv, ListsTyped
  <2>2. PICK c : c \in ToSet(untyped_connections)
    BY <1>4, <2>1, SetOfList
  <2> QED BY <1>3, <2>2, UntypedIsBad
<1>5. CASE ~make_connections
  BY <1>1, <1>5, FedAtTheEnd DEF Deserved
<1>6. CASE /\ untyped_connections = <<>>
           /\ ~(check_for_required_ports(ToSet(connections)) /\ Acyclic(ToSet(connections)))
  <2>1. Made = ToSet(connections)
    BY <1>3, <1>6, SmallLists
  <2> QED BY <1>6, <2>1 DEF Deserved, Sound
<1> QED
  BY <1>2, <1>4, <1>5, <1>6

Verdict ==
  (setup /\ ~setup_in_progress /\ ~failed) =>
    (setup_successful <=> Deserved) /\ (setup_successful => TypedRight)

LEMMA VerdictNext ==
  ASSUME IsFiniteSet(Ports), ListsInv, FlagsInv, StageInv, HeldInv, SharingInv, TypesFound, CountInv,
         Live => KindsFound /\ MarksFound, Verdict, accepted \subseteq Conn, ~failed, [Next]_vars
  PROVE  Verdict'
<1> SUFFICES ASSUME setup', ~setup_in_progress'
             PROVE  (setup_successful' <=> Deserved') /\ (setup_successful' => TypedRight')
  BY DEF Verdict
<1>1. Made \subseteq Conn
  BY FlatOfAccepted DEF Made
<1>2. ASSUME UNCHANGED <<setup, setup_in_progress, setup_successful, accepted, declared, type>>
      PROVE  (setup_successful' <=> Deserved') /\ (setup_successful' => TypedRight')
  BY <1>2, GoodStays DEF Verdict
<1>3. ASSUME UNCHANGED flags PROVE setup /\ ~setup_in_progress
  BY <1>3 DEF flags
<1>4. ASSUME InSetup PROVE setup /\ setup_in_progress /\ ~setup_successful /\ KindsFound /\ MarksFound
  BY <1>4 DEF InSetup, FlagsInv, Live
<1>5. ASSUME InSetup, Throw, ~Deserved PROVE (setup_successful' <=> Deserved') /\ (setup_successful' => TypedRight')
  <2>1. ~setup_successful' /\ declared' = declared /\ accepted' = accepted
    BY <1>4, <1>5 DEF Throw
  <2>2. Deserved' <=> Deserved
    BY <2>1, GoodStays
  <2> QED BY <1>5, <2>1, <2>2
<1>6. ASSUME NEW c \in Wanted, AskFor(c) \/ Disconnect(c) PROVE FALSE
  BY <1>3, <1>6 DEF AskFor, Disconnect
<1>7. CASE SetupPipeline \/ Reset
  BY <1>7 DEF SetupPipeline, Reset
<1>8. CASE EndReset
  BY <1>8 DEF EndReset, AtStage, FlagsInv
<1>9. CASE MapCluster \/ TakePinnings \/ NextName \/ RetryPinned
  BY <1>3, <1>4, <1>9 DEF MapCluster, TakePinnings, NextName, RetryPinned, AtStage, InSetup
<1>10. CASE Start \/ Stop \/ UNCHANGED vars
  BY <1>2, <1>10 DEF Start, Stop, vars, flags, asked
<1>11. CASE Reconnect
  <2>1. task.calls # <<>> /\ task.stage # "idle"
    BY <1>11 DEF Reconnect, ListsInv, TaskTyped
  <2>2. CASE Refused(Head(task.calls))
    <3>1. Throw
      BY <1>11, <2>2 DEF Reconnect
    <3>2. InSetup
      BY <2>1, <3>1 DEF Throw, FlagsInv, InSetup
    <3>3. Head(task.calls) \in Conn /\ Head(task.calls) \in ToSet(task.calls)
      <4>1. task.calls \in Seq(Conn)
        BY DEF ListsInv, TaskTyped, Tasks
      <4> QED BY <2>1, <4>1, SetOfList
    <3>4. ~Deserved
      BY <1>1, <1>4, <2>2, <3>2, <3>3, RefusedIsBad
    <3> QED BY <1>5, <3>1, <3>2, <3>4
  <2>3. CASE ~Refused(Head(task.calls))
    <3>1. UNCHANGED flags
      BY <1>11, <2>3 DEF Reconnect
    <3> QED BY <1>3, <2>1, <3>1 DEF FlagsInv
  <2> QED BY <2>2, <2>3
<1>12. CASE ConfigureProcess \/ Pin \/ Propagate
  <2>1. InSetup
    BY <1>12 DEF ConfigureProcess, Pin, Propagate, AtStage, InSetup
  <2>2. Throw
    <3>1. Throw \/ UNCHANGED flags
      BY <1>12 DEF ConfigureProcess, Pin, Propagate
    <3> QED BY <1>3, <1>4, <2>1, <3>1
  <2>3. ~Deserved
    BY <1>1, <1>4, <1>12, <2>1, <2>2, UnprovidedIsBad, PinRefusedIsBad, PropagateRefusedIsBad
  <2> QED BY <1>5, <2>1, <2>2, <2>3
<1>13. CASE FinishSetup
  <2>1. InSetup
    BY <1>13 DEF FinishSetup, AtStage, InSetup
  <2>2. UNCHANGED <<accepted, declared, type>>
    BY <1>13 DEF FinishSetup, Throw, asked
  <2>3. (Deserved' <=> Deserved) /\ (TypedRight' <=> TypedRight)
    BY <2>2, GoodStays
  <2>4. CASE setup_successful'
    BY <1>1, <1>4, <1>13, <2>1, <2>3, <2>4, FinishGood
  <2>5. CASE ~setup_successful'
    BY <1>1, <1>4, <1>13, <2>1, <2>3, <2>5, FinishBad
  <2> QED BY <2>4, <2>5
<1> QED
  BY <1>6, <1>7, <1>8, <1>9, <1>10, <1>11, <1>12, <1>13 DEF Next, Setup

LEMMA TypesInit ==
  ASSUME Init PROVE TypesFound /\ KindsFound
<1>1. /\ connections = <<>> /\ untyped_connections = <<>> /\ type_pinnings = <<>> /\ task = Idle
      /\ type = Declared /\ declared = Declared
  BY DEF Init
<1>2. task.stage = "idle" /\ task.scan = <<>> /\ ToSet(<<>>) = {}
  BY <1>1, SmallLists DEF Idle
<1>3. KindsFound
  BY <1>1, <1>2 DEF KindsFound, Waiting, Pinned_
<1>4. \A p \in Ports : \A r \in Tagged(p) : Declared[r] = Declared[p]
  BY PipelineAssumption DEF Tagged
<1>5. \A p \in Ports \ Flowing : Declared[p] \in {Settled(p), type_data_dependent}
  BY <1>1 DEF Settled
<1>6. \A p \in Flowing : Declared[p] \in NoType /\ Declared[p] # type_any
  BY <1>1 DEF Flowing, Settled, NoType, type_data_dependent, type_flow_dependent, type_any
<1> QED
  BY <1>1, <1>3, <1>4, <1>5, <1>6 DEF TypesFound

VerdictInv ==
  /\ ListsInv /\ FlagsInv /\ StageInv /\ HeldInv /\ SharingInv /\ Asked
  /\ ~failed => TypesFound /\ CountInv /\ Verdict /\ (Live => KindsFound /\ MarksFound)

LEMMA VerdictInvNext ==
  ASSUME NeverPinned, NoFlowLoop, MappedOnce, SharedPlainly, IsFiniteSet(Ports), VerdictInv, [Next]_vars
  PROVE  VerdictInv'
<1>1. ListsInv' /\ FlagsInv' /\ StageInv' /\ HeldInv' /\ SharingInv' /\ Asked'
  BY ListsNext, FlagsNext, HeldNext, SharingNext, AskedNext DEF VerdictInv
<1>2. ~failed' => ~failed
  BY DEF Next, Setup, AskFor, Disconnect, SetupPipeline, Reconnect, MapCluster, ConfigureProcess,
         TakePinnings, Pin, NextName, Propagate, RetryPinned, FinishSetup, EndReset, Start, Stop, Reset,
         Throw, vars, asked
<1>3. ASSUME ~failed, ~failed'
      PROVE  (TypesFound /\ CountInv /\ Verdict /\ (Live => KindsFound /\ MarksFound))'
  <2>1. accepted \subseteq Wanted /\ accepted \subseteq Conn
    BY <1>3, TheTypes DEF VerdictInv, HeldInv, Asked
  <2>2. TypesFound' /\ (Live' => KindsFound')
    BY <1>3, <2>1, KindsNext DEF VerdictInv
  <2>3. Live' => MarksFound'
    BY <1>3, MarksNext DEF VerdictInv
  <2>4. CountInv'
    BY <1>3, CountNext DEF VerdictInv
  <2>5. Verdict'
    BY <1>3, <2>1, VerdictNext DEF VerdictInv
  <2> QED BY <2>2, <2>3, <2>4, <2>5
<1> QED
  BY <1>1, <1>2, <1>3 DEF VerdictInv

(* For any processes, ports, types and clusters: setup_pipeline accepts    *)
(* the connections that can be typed, shared, fed and ordered, and no      *)
(* others, and gives the flow-dependent ports the types that follow, in    *)
(* whatever order the connections were asked for and handed from list to   *)
(* list.  What is assumed of the application is what the code relies on: a *)
(* connection that disconnect takes back is not waiting for a type; no     *)
(* process feeds an untyped port of its own; no port of a cluster feeds    *)
(* one port twice; and a mutable reader of a shared port is asked for      *)
(* plainly, since connect marks the port before it looks at the types.     *)
THEOREM VerdictDependsOnTypes ==
  NeverPinned /\ NoFlowLoop /\ MappedOnce /\ SharedPlainly /\ IsFiniteSet(Ports) => (Spec => []VerdictByTypes)
<1> SUFFICES ASSUME NeverPinned, NoFlowLoop, MappedOnce, SharedPlainly, IsFiniteSet(Ports)
             PROVE  Spec => []VerdictByTypes
  OBVIOUS
<1>1. Init => VerdictInv
  <2> SUFFICES ASSUME Init PROVE VerdictInv
    OBVIOUS
  <2>1. SharingInv
    BY SmallLists DEF Init, SharingInv
  <2>2. Verdict
    BY DEF Init, Verdict
  <2> QED BY <2>1, <2>2, ListsInit, FlagsInit, HeldInit, TypesInit, CountInit, MarksInit DEF VerdictInv
<1>2. VerdictInv /\ [Next]_vars => VerdictInv'
  BY VerdictInvNext
<1>3. VerdictInv => VerdictByTypes
  <2>1. VerdictInv /\ ~failed => Verdict
    BY DEF VerdictInv
  <2>2. failed => VerdictByTypes
    BY DEF VerdictByTypes
  <2> QED BY <2>1, <2>2, VerdictParts DEF Verdict
<1> QED
  BY <1>1, <1>2, <1>3, PTL DEF Spec

-----------------------------------------------------------------------------
(* The greatest common divisor.                                            *)

Divides(k, n) == \E m \in Nat : n = k * m

(* Division with a remainder, of which there is one.                       *)
LEMMA Remainder ==
  ASSUME NEW a \in Nat, NEW b \in Nat \ {0}
  PROVE  a % b \in 0..(b - 1) /\ a \div b \in Nat /\ a = b * (a \div b) + (a % b)
OBVIOUS

LEMMA OneRemainder ==
  ASSUME NEW b \in Nat \ {0}, NEW m \in Nat, NEW r \in 0..(b - 1), NEW n \in Nat, NEW s \in 0..(b - 1),
         b * m + r = b * n + s
  PROVE  m = n /\ r = s
<1>1. CASE m < n
  <2>1. PICK d \in Nat : n = m + 1 + d
    <3>1. n - m - 1 \in Nat /\ n = m + 1 + (n - m - 1)
      BY <1>1
    <3> QED BY <3>1
  <2>2. b * n = b * m + b + b * d
    BY <2>1
  <2>3. b * d \in Nat /\ b * m \in Nat
    OBVIOUS
  <2> HIDE <1>1
  <2> QED BY <2>2, <2>3
<1>2. CASE n < m
  <2>1. PICK d \in Nat : m = n + 1 + d
    <3>1. m - n - 1 \in Nat /\ m = n + 1 + (m - n - 1)
      BY <1>2
    <3> QED BY <3>1
  <2>2. b * m = b * n + b + b * d
    BY <2>1
  <2>3. b * d \in Nat /\ b * n \in Nat
    OBVIOUS
  <2> QED BY <2>2, <2>3
<1>3. CASE m = n
  BY <1>3
<1> QED
  BY <1>1, <1>2, <1>3

(* The loop of gcd does what it says: it comes to an end for all numbers.  *)
LEMMA GcdLoop ==
  gcd_loop = [b \in Nat |-> [a \in Nat |-> IF b = 0 THEN a ELSE gcd_loop[a % b][b]]]
<1> DEFINE Body(g, b) == [a \in Nat |-> IF b = 0 THEN a ELSE g[a % b][b]]
           Good(n, g) == g = [b \in 0..n |-> Body(g, b)]
           F          == [n \in Nat |-> (CHOOSE g : Good(n, g))[n]]
<1>0. ASSUME NEW g, NEW h, NEW b \in Nat, \A c \in 0..(b - 1) : g[c] = h[c]
      PROVE  Body(g, b) = Body(h, b)
  <2>1. CASE b = 0
    BY <2>1
  <2>2. CASE b # 0
    <3>1. \A a \in Nat : g[a % b] = h[a % b]
      BY <2>2, <1>0, Remainder
    <3> QED BY <2>2, <3>1
  <2> QED BY <2>1, <2>2
<1> HIDE DEF Body
<1>1. ASSUME NEW m \in Nat, NEW n \in Nat, m <= n, NEW g, NEW h, Good(m, g), Good(n, h)
      PROVE  \A b \in 0..m : g[b] = h[b]
  <2> DEFINE T == {b \in 0..m : g[b] # h[b]}
  <2>1. SUFFICES ASSUME T # {} PROVE FALSE
    OBVIOUS
  <2>2. T \subseteq Nat
    OBVIOUS
  <2> HIDE DEF T
  <2>3. PICK b \in T : \A y \in T : b <= y
    BY <2>1, <2>2, SmallestElement
  <2>4. b \in 0..m /\ g[b] # h[b] /\ b \in Nat /\ b \in 0..n
    BY <2>3, <1>1 DEF T
  <2>5. \A c \in 0..(b - 1) : g[c] = h[c]
    BY <2>3, <2>4 DEF T
  <2>6. Body(g, b) = Body(h, b)
    BY <1>0, <2>4, <2>5
  <2>7. g[b] = Body(g, b) /\ h[b] = Body(h, b)
    BY <1>1, <2>4, Zenon
  <2> QED BY <2>4, <2>6, <2>7
<1> DEFINE S == {n \in Nat : \E g : Good(n, g)}
<1>2. 0 \in S
  <2> DEFINE g == [b \in 0..0 |-> Body(<<>>, b)]
  <2>1. \A b \in 0..0 : Body(<<>>, b) = Body(g, b)
    BY <1>0
  <2>2. g = [b \in 0..0 |-> Body(g, b)]
    BY <2>1, Zenon
  <2> HIDE DEF g
  <2> QED BY <2>2
<1>3. ASSUME NEW n \in Nat, n \in S PROVE n + 1 \in S
  <2>1. PICK g : Good(n, g)
    BY <1>3
  <2> DEFINE h == [b \in 0..(n + 1) |-> IF b = n + 1 THEN Body(g, b) ELSE g[b]]
  <2>2. \A b \in 0..n : h[b] = g[b]
    OBVIOUS
  <2>3. ASSUME NEW b \in 0..(n + 1) PROVE h[b] = Body(h, b)
    <3>1. Body(g, b) = Body(h, b)
      <4>1. \A c \in 0..(b - 1) : c \in 0..n
        BY <2>3
      <4> HIDE DEF h
      <4>2. \A c \in 0..(b - 1) : g[c] = h[c]
        BY <2>2, <4>1
      <4> QED BY <4>2, <1>0
    <3>2. CASE b = n + 1
      BY <3>1, <3>2
    <3>3. CASE b # n + 1
      <4>1. b \in 0..n
        BY <3>3
      <4>2. g[b] = Body(g, b)
        BY <2>1, <4>1, Zenon
      <4> QED BY <4>2, <3>1, <3>3
    <3> QED BY <3>2, <3>3
  <2>4. h = [b \in 0..(n + 1) |-> h[b]]
    OBVIOUS
  <2> HIDE DEF h
  <2>5. h = [b \in 0..(n + 1) |-> Body(h, b)]
    BY <2>3, <2>4, Zenon
  <2>6. n + 1 \in Nat
    OBVIOUS
  <2> QED BY <2>5, <2>6
<1>4. \A n \in Nat : Good(n, CHOOSE g : Good(n, g))
  <2>1. ASSUME NEW n \in Nat PROVE n \in S
    <3> HIDE DEF S
    <3>1. \A k \in 0..(n - 1) : k \in S => k + 1 \in S
      BY <1>3
    <3> QED BY <1>2, <3>1, UpTo
  <2> HIDE DEF Good
  <2> QED BY <2>1, Zenon
<1>5. F = [b \in Nat |-> Body(F, b)]
  <2>1. ASSUME NEW b \in Nat PROVE F[b] = Body(F, b)
    <3> DEFINE g == CHOOSE g : Good(b, g)
    <3>1. Good(b, g)
      BY <1>4
    <3>2. F[b] = g[b]
      OBVIOUS
    <3> HIDE DEF g
    <3>3. b \in 0..b
      OBVIOUS
    <3>4. g[b] = Body(g, b)
      BY <3>1, <3>3, Zenon
    <3>5. ASSUME NEW c \in 0..(b - 1) PROVE g[c] = F[c]
      <4> DEFINE h == CHOOSE h : Good(c, h)
      <4>1. Good(c, h) /\ F[c] = h[c]
        BY <1>4
      <4> HIDE DEF h, F, Good
      <4>2. c \in 0..c /\ c <= b /\ c \in Nat
        OBVIOUS
      <4>3. h[c] = g[c]
        BY <1>1, <3>1, <4>1, <4>2
      <4> QED BY <4>1, <4>3
    <3>6. Body(g, b) = Body(F, b)
      <4> HIDE DEF F
      <4> QED BY <3>5, <1>0
    <3> QED BY <3>2, <3>4, <3>6
  <2>2. F = [b \in Nat |-> F[b]]
    OBVIOUS
  <2> HIDE DEF F
  <2> QED BY <2>1, <2>2, Zenon
<1> HIDE DEF F, Good
<1> QED
  BY <1>5, Zenon DEF Body, gcd_loop

LEMMA GcdSteps ==
  ASSUME NEW a \in Nat
  PROVE  gcd(a, 0) = a /\ \A b \in Nat \ {0} : gcd(a, b) = gcd(b, a % b)
<1>1. \A b \in Nat : gcd_loop[b] = [c \in Nat |-> IF b = 0 THEN c ELSE gcd_loop[c % b][b]]
  BY GcdLoop, Zenon
<1>2. \A b \in Nat : gcd_loop[b][a] = IF b = 0 THEN a ELSE gcd_loop[a % b][b]
  BY <1>1, Zenon
<1> QED
  BY <1>2 DEF gcd

(* Euclid's algorithm as induction: what holds of a and 0, and of a and b  *)
(* if of b and the remainder, holds of any two numbers.                    *)
LEMMA GcdInduction ==
  ASSUME NEW S, \A a \in Nat : <<a, 0>> \in S,
         \A a \in Nat, b \in Nat \ {0} : <<b, a % b>> \in S => <<a, b>> \in S
  PROVE  \A a, b \in Nat : <<a, b>> \in S
<1> DEFINE T == {b \in Nat : \E a \in Nat : <<a, b>> \notin S}
<1>1. SUFFICES ASSUME T # {} PROVE FALSE
  OBVIOUS
<1>2. T \subseteq Nat
  OBVIOUS
<1> HIDE DEF T
<1>3. PICK b \in T : \A y \in T : b <= y
  BY <1>1, <1>2, SmallestElement
<1>4. b \in Nat
  BY <1>2, <1>3
<1>5. PICK a \in Nat : <<a, b>> \notin S
  BY <1>3 DEF T
<1>6. b # 0
  BY <1>5
<1>7. a % b \in 0..(b - 1)
  BY <1>4, <1>6, Remainder
<1>8. a % b \notin T
  BY <1>3, <1>4, <1>7
<1>9. <<b, a % b>> \in S
  BY <1>4, <1>7, <1>8 DEF T
<1> QED
  BY <1>4, <1>5, <1>6, <1>9

LEMMA DividesFacts ==
  ASSUME NEW k \in Nat
  PROVE  /\ Divides(k, 0) /\ Divides(k, k) /\ Divides(1, k)
         /\ \A m, n \in Nat : Divides(k, m) => Divides(k, m * n) /\ Divides(k, n * m)
         /\ \A m, n \in Nat : Divides(k, m) /\ Divides(k, n) => Divides(k, m + n)
         /\ \A m, n \in Nat : Divides(k, m) /\ Divides(k, m + n) => Divides(k, n)
<1>1. Divides(k, 0) /\ Divides(k, k) /\ Divides(1, k)
  <2>1. 0 = k * 0 /\ k = k * 1 /\ k = 1 * k
    OBVIOUS
  <2> QED BY <2>1 DEF Divides
<1>2. ASSUME NEW m \in Nat, NEW n \in Nat, Divides(k, m)
      PROVE  Divides(k, m * n) /\ Divides(k, n * m)
  <2>1. PICK c \in Nat : m = k * c
    BY <1>2 DEF Divides
  <2>2. m * n = k * (c * n) /\ n * m = k * (c * n) /\ c * n \in Nat
    BY <2>1
  <2> QED BY <2>2 DEF Divides
<1>3. ASSUME NEW m \in Nat, NEW n \in Nat, Divides(k, m), Divides(k, n)
      PROVE  Divides(k, m + n)
  <2>1. PICK c \in Nat, d \in Nat : m = k * c /\ n = k * d
    BY <1>3 DEF Divides
  <2>2. m + n = k * (c + d) /\ c + d \in Nat
    BY <2>1
  <2> QED BY <2>2 DEF Divides
<1>4. ASSUME NEW m \in Nat, NEW n \in Nat, Divides(k, m), Divides(k, m + n)
      PROVE  Divides(k, n)
  <2>1. PICK c \in Nat, d \in Nat : m = k * c /\ m + n = k * d
    BY <1>4 DEF Divides
  <2>2. CASE c <= d
    <3>1. PICK e \in Nat : d = c + e
      <4>1. d - c \in Nat /\ d = c + (d - c)
        BY <2>2
      <4> QED BY <4>1
    <3>2. k * d = k * c + k * e /\ k * e \in Nat /\ k * c \in Nat
      BY <3>1
    <3>3. n = k * e
      BY <2>1, <3>2
    <3> QED BY <3>3 DEF Divides
  <2>3. CASE d < c
    <3>1. PICK e \in Nat : c = d + e
      <4>1. c - d \in Nat /\ c = d + (c - d)
        BY <2>3
      <4> QED BY <4>1
    <3>2. k * c = k * d + k * e /\ k * e \in Nat /\ k * d \in Nat
      BY <3>1
    <3>3. n = 0
      BY <2>1, <3>2
    <3> QED BY <1>1, <3>3
  <2> QED BY <2>2, <2>3
<1> QED
  BY <1>1, <1>2, <1>3, <1>4

(* gcd divides both numbers, and every divisor of both divides it.         *)
LEMMA GcdDivides ==
  ASSUME NEW a \in Nat, NEW b \in Nat
  PROVE  /\ gcd(a, b) \in Nat /\ Divides(gcd(a, b), a) /\ Divides(gcd(a, b), b)
         /\ a # 0 \/ b # 0 => gcd(a, b) # 0
         /\ \A k \in Nat : Divides(k, a) /\ Divides(k, b) => Divides(k, gcd(a, b))
<1> DEFINE P(x, y, g) == /\ g \in Nat /\ Divides(g, x) /\ Divides(g, y)
                         /\ x # 0 \/ y # 0 => g # 0
                         /\ \A k \in Nat : Divides(k, x) /\ Divides(k, y) => Divides(k, g)
           S == {z \in Nat \X Nat : P(z[1], z[2], gcd(z[1], z[2]))}
<1>1. ASSUME NEW x \in Nat PROVE <<x, 0>> \in S
  <2>1. gcd(x, 0) = x
    BY GcdSteps
  <2>2. P(x, 0, x)
    BY DividesFacts
  <2> QED BY <2>1, <2>2
<1>2. ASSUME NEW x \in Nat, NEW y \in Nat \ {0}, <<y, x % y>> \in S PROVE <<x, y>> \in S
  <2> DEFINE g == gcd(x, y)
             r == x % y
             m == x \div y
  <2>1. g = gcd(y, r)
    BY GcdSteps
  <2>2. r \in Nat /\ m \in Nat /\ x = y * m + r
    BY Remainder
  <2>3. P(y, r, g)
    BY <1>2, <2>1
  <2> HIDE DEF g, r, m
  <2>4. Divides(g, x)
    <3>1. Divides(g, y * m) /\ y * m \in Nat
      <4>1. y * m \in Nat
        BY <2>2
      <4>2. g \in Nat /\ Divides(g, y) /\ y \in Nat
        BY <2>3
      <4> QED BY <4>1, <4>2, <2>2, DividesFacts
    <3> QED BY <3>1, <2>2, <2>3, DividesFacts
  <2>5. ASSUME NEW k \in Nat, Divides(k, x), Divides(k, y) PROVE Divides(k, g)
    <3>1. Divides(k, y * m) /\ y * m \in Nat
      <4>1. y * m \in Nat /\ y \in Nat
        BY <2>2
      <4> QED BY <4>1, <2>2, <2>5, DividesFacts
    <3>2. Divides(k, r)
      BY <3>1, <2>2, <2>5, DividesFacts
    <3> QED BY <3>2, <2>3, <2>5
  <2>6. P(x, y, g)
    BY <2>3, <2>4, <2>5
  <2> QED BY <2>6 DEF g
<1> HIDE DEF S
<1>3. \A x, y \in Nat : <<x, y>> \in S
  BY <1>1, <1>2, GcdInduction
<1>4. <<a, b>> \in S
  BY <1>3
<1> QED
  BY <1>4 DEF S

(* A common factor of both numbers is a factor of their gcd.               *)
LEMMA GcdScales ==
  ASSUME NEW k \in Nat \ {0}, NEW a \in Nat, NEW b \in Nat
  PROVE  gcd(k * a, k * b) = k * gcd(a, b)
<1> DEFINE S == {z \in Nat \X Nat : gcd(k * z[1], k * z[2]) = k * gcd(z[1], z[2])}
<1>1. ASSUME NEW x \in Nat PROVE <<x, 0>> \in S
  <2>1. gcd(x, 0) = x /\ gcd(k * x, 0) = k * x /\ k * 0 = 0
    BY GcdSteps
  <2> QED BY <2>1
<1>2. ASSUME NEW x \in Nat, NEW y \in Nat \ {0}, <<y, x % y>> \in S PROVE <<x, y>> \in S
  <2> DEFINE r == x % y
             m == x \div y
  <2>1. gcd(x, y) = gcd(y, r) /\ gcd(k * y, k * r) = k * gcd(y, r)
    BY <1>2, GcdSteps
  <2>2. r \in 0..(y - 1) /\ m \in Nat /\ x = y * m + r
    BY Remainder
  <2> HIDE DEF r, m
  <2>3. k * x \in Nat /\ k * y \in Nat \ {0} /\ k * r \in 0..(k * y - 1)
    <3>1. k * x \in Nat /\ k * y \in Nat /\ k * r \in Nat
      BY <2>2
    <3>2. PICK d \in Nat : y = r + 1 + d
      <4>1. y - r - 1 \in Nat /\ y = r + 1 + (y - r - 1)
        BY <2>2
      <4> QED BY <4>1
    <3>3. k * y = k * r + k + k * d /\ k * d \in Nat
      BY <3>2, <2>2
    <3> QED BY <3>1, <3>3
  <2>4. k * x = (k * y) * m + k * r
    BY <2>2
  <2>5. (k * x) % (k * y) = k * r
    <3> DEFINE u == k * x
               v == k * y
    <3>1. u % v \in 0..(v - 1) /\ u \div v \in Nat /\ u = v * (u \div v) + (u % v)
      BY <2>3, Remainder
    <3> HIDE DEF u, v
    <3>2. v \in Nat \ {0} /\ k * r \in 0..(v - 1) /\ u = v * m + k * r
      BY <2>3, <2>4 DEF u, v
    <3> DEFINE c == u \div v
               s == u % v
               t == k * r
    <3>3. s \in 0..(v - 1) /\ c \in Nat /\ t \in 0..(v - 1) /\ v * c + s = v * m + t
      BY <3>1, <3>2
    <3> HIDE DEF c, s, t
    <3>4. s = t
      BY <3>2, <3>3, <2>2, OneRemainder
    <3>5. u % v = k * r
      BY <3>4 DEF s, t
    <3> QED BY <3>5 DEF u, v
  <2>6. gcd(k * x, k * y) = gcd(k * y, k * r)
    BY <2>3, <2>5, GcdSteps
  <2> QED BY <2>1, <2>6
<1> HIDE DEF S
<1>3. \A x, y \in Nat : <<x, y>> \in S
  BY <1>1, <1>2, GcdInduction
<1>4. <<a, b>> \in S
  BY <1>3
<1> QED
  BY <1>4 DEF S

-----------------------------------------------------------------------------
(* Rational numbers in lowest terms.                                       *)

LEMMA ExactDivision ==
  ASSUME NEW g \in Nat \ {0}, NEW m \in Nat
  PROVE  (g * m) \div g = m
<1> DEFINE u == g * m
<1>1. u \in Nat /\ u = g * m + 0 /\ 0 \in 0..(g - 1)
  OBVIOUS
<1>2. u % g \in 0..(g - 1) /\ u \div g \in Nat /\ u = g * (u \div g) + (u % g)
  BY <1>1, Remainder
<1> HIDE DEF u
<1>3. u \div g = m
  BY <1>1, <1>2, OneRemainder
<1> QED
  BY <1>3 DEF u

LEMMA Cancel ==
  ASSUME NEW k \in Nat \ {0}, NEW m \in Nat, NEW n \in Nat, k * m = k * n
  PROVE  m = n
<1>1. 0 \in 0..(k - 1) /\ k * m + 0 = k * n + 0
  OBVIOUS
<1> QED
  BY <1>1, OneRemainder

(* What is left when the common factor is taken out.                       *)
LEMMA ReducedParts ==
  ASSUME NEW n \in Nat, NEW d \in Nat \ {0}
  PROVE  \E g \in Nat \ {0}, r \in Rationals :
           /\ r = Reduced(n, d) /\ n = g * r.n /\ d = g * r.d
           /\ gcd(r.n, r.d) = 1
           /\ n # 0 => r.n # 0
<1> DEFINE g == gcd(n, d)
<1>1. g \in Nat \ {0} /\ Divides(g, n) /\ Divides(g, d)
  BY GcdDivides
<1>2. PICK u \in Nat, v \in Nat : n = g * u /\ d = g * v
  BY <1>1 DEF Divides
<1>3. Reduced(n, d) = [n |-> n \div g, d |-> d \div g]
  BY DEF Reduced
<1> HIDE DEF g
<1>4. n \div g = u /\ d \div g = v
  BY <1>1, <1>2, ExactDivision
<1>5. v # 0 /\ (n # 0 => u # 0)
  BY <1>1, <1>2
<1>6. gcd(u, v) = 1
  <2>1. gcd(g * u, g * v) = g * gcd(u, v)
    BY <1>1, GcdScales
  <2>2. g * gcd(u, v) = g * 1
    BY <1>1, <1>2, <2>1 DEF g
  <2>3. gcd(u, v) \in Nat
    BY GcdDivides
  <2> QED BY <1>1, <2>2, <2>3, Cancel
<1> DEFINE r == [n |-> u, d |-> v]
<1>7. r = Reduced(n, d) /\ r \in Rationals /\ r.n = u /\ r.d = v
  BY <1>3, <1>4, <1>5 DEF Rationals
<1> HIDE DEF r
<1> QED
  BY <1>1, <1>2, <1>5, <1>6, <1>7

LEMMA ReducedScales ==
  ASSUME NEW k \in Nat \ {0}, NEW n \in Nat, NEW d \in Nat \ {0}
  PROVE  Reduced(k * n, k * d) = Reduced(n, d)
<1> DEFINE g == gcd(n, d)
<1>1. g \in Nat \ {0} /\ Divides(g, n) /\ Divides(g, d)
  BY GcdDivides
<1>2. PICK u \in Nat, v \in Nat : n = g * u /\ d = g * v
  BY <1>1 DEF Divides
<1>3. gcd(k * n, k * d) = k * g
  BY GcdScales
<1>4. Reduced(n, d) = [n |-> n \div g, d |-> d \div g]
  BY DEF Reduced
<1>5. Reduced(k * n, k * d) = [n |-> (k * n) \div (k * g), d |-> (k * d) \div (k * g)]
  BY <1>3 DEF Reduced
<1> HIDE DEF g
<1>6. n \div g = u /\ d \div g = v
  BY <1>1, <1>2, ExactDivision
<1>7. k * n = (k * g) * u /\ k * d = (k * g) * v /\ k * g \in Nat \ {0}
  BY <1>1, <1>2
<1>8. (k * n) \div (k * g) = u /\ (k * d) \div (k * g) = v
  <2> DEFINE h == k * g
  <2>1. h \in Nat \ {0} /\ k * n = h * u /\ k * d = h * v
    BY <1>7
  <2> HIDE DEF h
  <2>2. (k * n) \div h = u /\ (k * d) \div h = v
    BY <2>1, ExactDivision
  <2> QED BY <2>2 DEF h
<1> QED
  BY <1>4, <1>5, <1>6, <1>8

(* Equal ratios have one form in lowest terms.                             *)
LEMMA ReducedEqual ==
  ASSUME NEW n \in Nat, NEW d \in Nat \ {0}, NEW m \in Nat, NEW e \in Nat \ {0}, n * e = m * d
  PROVE  Reduced(n, d) = Reduced(m, e)
<1>1. Reduced(e * n, e * d) = Reduced(n, d) /\ Reduced(d * m, d * e) = Reduced(m, e)
  BY ReducedScales
<1>2. e * n = d * m /\ e * d = d * e
  OBVIOUS
<1> QED
  BY <1>1, <1>2

Lowest(x) == x \in Rationals /\ x.n # 0 /\ Reduced(x.n, x.d) = x

LEMMA ReducedLowest ==
  ASSUME NEW n \in Nat \ {0}, NEW d \in Nat \ {0}
  PROVE  Lowest(Reduced(n, d))
<1>1. PICK g \in Nat \ {0}, r \in Rationals :
        r = Reduced(n, d) /\ n = g * r.n /\ d = g * r.d /\ r.n # 0
  BY ReducedParts
<1>2. r.n \in Nat /\ r.d \in Nat \ {0}
  BY DEF Rationals
<1>3. Reduced(r.n, r.d) = r
  <2>1. Reduced(g * r.n, g * r.d) = Reduced(r.n, r.d)
    BY <1>1, <1>2, ReducedScales
  <2> QED BY <1>1, <2>1
<1> QED
  BY <1>1, <1>3 DEF Lowest

(* The product and the quotient of rational numbers.                       *)
LEMMA ProductParts ==
  ASSUME NEW x \in Rationals, NEW y \in Rationals, x.n # 0, y.n # 0
  PROVE  /\ Lowest(Times(x, y)) /\ Lowest(Over(x, y))
         /\ \E g \in Nat \ {0} : x.n * y.n = g * Times(x, y).n /\ x.d * y.d = g * Times(x, y).d
         /\ \E g \in Nat \ {0} : x.n * y.d = g * Over(x, y).n /\ x.d * y.n = g * Over(x, y).d
<1>1. x.n \in Nat \ {0} /\ x.d \in Nat \ {0} /\ y.n \in Nat \ {0} /\ y.d \in Nat \ {0}
  BY DEF Rationals
<1>2. x.n * y.n \in Nat \ {0} /\ x.d * y.d \in Nat \ {0} /\ x.n * y.d \in Nat \ {0} /\ x.d * y.n \in Nat \ {0}
  <2>1. \A a, b \in Nat \ {0} : a * b \in Nat \ {0}
    OBVIOUS
  <2> QED BY <1>1, <2>1
<1>3. Lowest(Times(x, y)) /\ Lowest(Over(x, y))
  BY <1>2, ReducedLowest DEF Times, Over
<1>4. \E g \in Nat \ {0} : x.n * y.n = g * Times(x, y).n /\ x.d * y.d = g * Times(x, y).d
  BY <1>2, ReducedParts DEF Times
<1>5. \E g \in Nat \ {0} : x.n * y.d = g * Over(x, y).n /\ x.d * y.n = g * Over(x, y).d
  BY <1>2, ReducedParts DEF Over
<1> QED
  BY <1>3, <1>4, <1>5

-----------------------------------------------------------------------------
(* What one end of a connection expects of the other.                      *)

RegularEnds(c) == c.upf \in Rationals /\ c.downf \in Rationals /\ Regular(c)

(* x and y, as the frequencies of its two ends, balance the connection.    *)
Fits(c, x, y) == (x.n * c.upf.n) * (y.d * c.downf.d) = (y.n * c.downf.n) * (x.d * c.upf.d)

LEMMA FitsSame ==
  ASSUME NEW c, RegularEnds(c), NEW x, NEW y, NEW z, Lowest(x), Lowest(y), Lowest(z)
  PROVE  /\ Fits(c, x, y) /\ Fits(c, x, z) => y = z
         /\ Fits(c, y, x) /\ Fits(c, z, x) => y = z
<1> DEFINE un == c.upf.n
           ud == c.upf.d
           dn == c.downf.n
           dd == c.downf.d
<1>1. un \in Nat \ {0} /\ ud \in Nat \ {0} /\ dn \in Nat \ {0} /\ dd \in Nat \ {0}
  BY DEF RegularEnds, Rationals, Regular, IsZero
<1>2. /\ x.n \in Nat \ {0} /\ x.d \in Nat \ {0} /\ y.n \in Nat \ {0} /\ y.d \in Nat \ {0}
      /\ z.n \in Nat \ {0} /\ z.d \in Nat \ {0}
      /\ y = Reduced(y.n, y.d) /\ z = Reduced(z.n, z.d)
  BY DEF Lowest, Rationals
<1>3. y.n * z.d = z.n * y.d => y = z
  BY <1>2, ReducedEqual
<1>4. \A a, b \in Nat \ {0} : a * b \in Nat \ {0}
  OBVIOUS
<1>5. ASSUME Fits(c, x, y), Fits(c, x, z) PROVE y = z
  <2>1. (x.n * un) * (y.d * dd) = (y.n * dn) * (x.d * ud) /\ (x.n * un) * (z.d * dd) = (z.n * dn) * (x.d * ud)
    BY <1>5 DEF Fits
  <2> DEFINE a == (x.n * un) * dd
             b == dn * (x.d * ud)
  <2>2. a \in Nat /\ b \in Nat \ {0}
    <3>1. x.n * un \in Nat \ {0} /\ x.d * ud \in Nat \ {0}
      BY <1>1, <1>2, <1>4
    <3> HIDE DEF un, ud, dn, dd
    <3> QED BY <1>1, <3>1, <1>4
  <2>3. /\ (x.n * un) * (y.d * dd) = a * y.d /\ (y.n * dn) * (x.d * ud) = y.n * b
        /\ (x.n * un) * (z.d * dd) = a * z.d /\ (z.n * dn) * (x.d * ud) = z.n * b
    <3> HIDE DEF un, ud, dn, dd
    <3> QED BY <1>1, <1>2
  <2>4. a * y.d = y.n * b /\ a * z.d = z.n * b
    BY <2>1, <2>3
  <2> DEFINE yn == y.n
             yd == y.d
             zn == z.n
             zd == z.d
  <2>5. yn \in Nat /\ yd \in Nat /\ zn \in Nat /\ zd \in Nat /\ a * yd = yn * b /\ a * zd = zn * b
    BY <1>2, <2>4
  <2> HIDE DEF a, b, yn, yd, zn, zd
  <2>6. b * (yn * zd) = (a * yd) * zd /\ b * (zn * yd) = (a * zd) * yd /\ (a * yd) * zd = (a * zd) * yd
    BY <2>2, <2>5
  <2>7. yn * zd \in Nat /\ zn * yd \in Nat /\ b * (yn * zd) = b * (zn * yd)
    BY <2>5, <2>6
  <2>8. yn * zd = zn * yd
    BY <2>2, <2>7, Cancel
  <2> QED BY <2>8, <1>3 DEF yn, yd, zn, zd
<1>6. ASSUME Fits(c, y, x), Fits(c, z, x) PROVE y = z
  <2>1. (y.n * un) * (x.d * dd) = (x.n * dn) * (y.d * ud) /\ (z.n * un) * (x.d * dd) = (x.n * dn) * (z.d * ud)
    BY <1>6 DEF Fits
  <2> DEFINE a == (x.n * dn) * ud
             b == un * (x.d * dd)
  <2>2. a \in Nat /\ b \in Nat \ {0}
    <3>1. x.n * dn \in Nat \ {0} /\ x.d * dd \in Nat \ {0}
      BY <1>1, <1>2, <1>4
    <3> HIDE DEF un, ud, dn, dd
    <3> QED BY <1>1, <3>1, <1>4
  <2>3. /\ (x.n * dn) * (y.d * ud) = a * y.d /\ (y.n * un) * (x.d * dd) = y.n * b
        /\ (x.n * dn) * (z.d * ud) = a * z.d /\ (z.n * un) * (x.d * dd) = z.n * b
    <3> HIDE DEF un, ud, dn, dd
    <3> QED BY <1>1, <1>2
  <2>4. a * y.d = y.n * b /\ a * z.d = z.n * b
    BY <2>1, <2>3
  <2> DEFINE yn == y.n
             yd == y.d
             zn == z.n
             zd == z.d
  <2>5. yn \in Nat /\ yd \in Nat /\ zn \in Nat /\ zd \in Nat /\ a * yd = yn * b /\ a * zd = zn * b
    BY <1>2, <2>4
  <2> HIDE DEF a, b, yn, yd, zn, zd
  <2>6. b * (yn * zd) = (a * yd) * zd /\ b * (zn * yd) = (a * zd) * yd /\ (a * yd) * zd = (a * zd) * yd
    BY <2>2, <2>5
  <2>7. yn * zd \in Nat /\ zn * yd \in Nat /\ b * (yn * zd) = b * (zn * yd)
    BY <2>5, <2>6
  <2>8. yn * zd = zn * yd
    BY <2>2, <2>7, Cancel
  <2> QED BY <2>8, <1>3 DEF yn, yd, zn, zd
<1> QED
  BY <1>5, <1>6

LEMMA ExpectedFits ==
  ASSUME NEW c, RegularEnds(c), NEW x, Lowest(x)
  PROVE  /\ Lowest(ExpectedDown(c, x)) /\ Fits(c, x, ExpectedDown(c, x))
         /\ Lowest(ExpectedUp(c, x)) /\ Fits(c, ExpectedUp(c, x), x)
<1>1. /\ x \in Rationals /\ x.n # 0 /\ c.upf \in Rationals /\ c.downf \in Rationals
      /\ c.upf.n # 0 /\ c.downf.n # 0
  BY DEF Lowest, RegularEnds, Regular, IsZero
<1>2. ASSUME NEW r \in Rationals PROVE r.n \in Nat /\ r.d \in Nat
  BY DEF Rationals
<1>3. Lowest(ExpectedDown(c, x)) /\ Fits(c, x, ExpectedDown(c, x))
  <2>1. PICK t : t = Times(x, c.upf)
    OBVIOUS
  <2>2. Lowest(t) /\ \E g \in Nat \ {0} : x.n * c.upf.n = g * t.n /\ x.d * c.upf.d = g * t.d
    BY <1>1, <2>1, ProductParts
  <2>3. PICK r : r = Over(t, c.downf)
    OBVIOUS
  <2>4. Lowest(r) /\ \E h \in Nat \ {0} : t.n * c.downf.d = h * r.n /\ t.d * c.downf.n = h * r.d
    BY <1>1, <2>2, <2>3, ProductParts DEF Lowest
  <2>5. t \in Rationals /\ r \in Rationals
    BY <2>2, <2>4 DEF Lowest
  <2>6. (x.n * c.upf.n) * (r.d * c.downf.d) = (r.n * c.downf.n) * (x.d * c.upf.d)
    <3>1. PICK g \in Nat, h \in Nat :
            /\ x.n * c.upf.n = g * t.n /\ x.d * c.upf.d = g * t.d
            /\ t.n * c.downf.d = h * r.n /\ t.d * c.downf.n = h * r.d
      BY <2>2, <2>4
    <3> DEFINE tn == t.n
               td == t.d
               rn == r.n
               rd == r.d
               dn == c.downf.n
               dd == c.downf.d
    <3>2. /\ tn \in Nat /\ td \in Nat /\ rn \in Nat /\ rd \in Nat /\ dn \in Nat /\ dd \in Nat
          /\ tn * dd = h * rn /\ td * dn = h * rd
      BY <1>1, <1>2, <2>5, <3>1
    <3> HIDE DEF tn, td, rn, rd, dn, dd
    <3>3. (g * tn) * (rd * dd) = (g * rd) * (tn * dd) /\ (rn * dn) * (g * td) = (g * rn) * (td * dn)
      BY <3>2
    <3>4. (g * rd) * (h * rn) = (g * rn) * (h * rd)
      BY <3>2
    <3>5. (g * tn) * (rd * dd) = (rn * dn) * (g * td)
      BY <3>2, <3>3, <3>4
    <3> QED BY <3>1, <3>5 DEF tn, td, rn, rd, dn, dd
  <2> QED BY <2>1, <2>3, <2>4, <2>6 DEF ExpectedDown, Fits
<1>4. Lowest(ExpectedUp(c, x)) /\ Fits(c, ExpectedUp(c, x), x)
  <2>1. PICK t : t = Times(x, c.downf)
    OBVIOUS
  <2>2. Lowest(t) /\ \E g \in Nat \ {0} : x.n * c.downf.n = g * t.n /\ x.d * c.downf.d = g * t.d
    BY <1>1, <2>1, ProductParts
  <2>3. PICK r : r = Over(t, c.upf)
    OBVIOUS
  <2>4. Lowest(r) /\ \E h \in Nat \ {0} : t.n * c.upf.d = h * r.n /\ t.d * c.upf.n = h * r.d
    BY <1>1, <2>2, <2>3, ProductParts DEF Lowest
  <2>5. t \in Rationals /\ r \in Rationals
    BY <2>2, <2>4 DEF Lowest
  <2>6. (x.n * c.downf.n) * (r.d * c.upf.d) = (r.n * c.upf.n) * (x.d * c.downf.d)
    <3>1. PICK g \in Nat, h \in Nat :
            /\ x.n * c.downf.n = g * t.n /\ x.d * c.downf.d = g * t.d
            /\ t.n * c.upf.d = h * r.n /\ t.d * c.upf.n = h * r.d
      BY <2>2, <2>4
    <3> DEFINE tn == t.n
               td == t.d
               rn == r.n
               rd == r.d
               dn == c.upf.n
               dd == c.upf.d
    <3>2. /\ tn \in Nat /\ td \in Nat /\ rn \in Nat /\ rd \in Nat /\ dn \in Nat /\ dd \in Nat
          /\ tn * dd = h * rn /\ td * dn = h * rd
      BY <1>1, <1>2, <2>5, <3>1
    <3> HIDE DEF tn, td, rn, rd, dn, dd
    <3>3. (g * tn) * (rd * dd) = (g * rd) * (tn * dd) /\ (rn * dn) * (g * td) = (g * rn) * (td * dn)
      BY <3>2
    <3>4. (g * rd) * (h * rn) = (g * rn) * (h * rd)
      BY <3>2
    <3>5. (g * tn) * (rd * dd) = (rn * dn) * (g * td)
      BY <3>2, <3>3, <3>4
    <3> QED BY <3>1, <3>5 DEF tn, td, rn, rd, dn, dd
  <2> QED BY <2>1, <2>3, <2>4, <2>6 DEF ExpectedUp, Fits
<1> QED
  BY <1>3, <1>4

-----------------------------------------------------------------------------
(* The least common multiple.                                              *)

LEMMA LcmDivides ==
  ASSUME NEW a \in Nat \ {0}, NEW b \in Nat \ {0}
  PROVE  /\ lcm(a, b) \in Nat \ {0} /\ Divides(a, lcm(a, b)) /\ Divides(b, lcm(a, b))
         /\ \A n \in Nat : Divides(a, n) /\ Divides(b, n) => Divides(lcm(a, b), n)
<1> DEFINE g == gcd(a, b)
           l == lcm(a, b)
<1>1. g \in Nat \ {0} /\ Divides(g, a) /\ Divides(g, b)
  BY GcdDivides
<1>2. PICK u \in Nat, v \in Nat : a = g * u /\ b = g * v
  BY <1>1 DEF Divides
<1>3. l = (a \div g) * b
  BY <1>1 DEF lcm
<1>4. \A n \in Nat \ {0} : gcd(n * a, n * b) = n * g
  BY GcdScales
<1> HIDE DEF g, l
<1>5. l = u * b
  <2>1. a \div g = u
    BY <1>1, <1>2, ExactDivision
  <2> QED BY <1>3, <2>1
<1>6. u # 0 /\ v # 0
  BY <1>1, <1>2
<1>7. l \in Nat \ {0} /\ l = b * u /\ l = a * v
  <2>1. u * b \in Nat \ {0}
    BY <1>6
  <2>2. u * b = b * u
    OBVIOUS
  <2>3. a * v = (g * u) * v /\ u * b = u * (g * v)
    BY <1>2
  <2>4. (g * u) * v = u * (g * v)
    BY <1>1
  <2> QED BY <1>5, <2>1, <2>2, <2>3, <2>4
<1>8. ASSUME NEW n \in Nat, Divides(a, n), Divides(b, n) PROVE Divides(l, n)
  <2>1. CASE n = 0
    BY <2>1, <1>7, DividesFacts
  <2>2. CASE n # 0
    <3>1. PICK x \in Nat, y \in Nat : n = a * x /\ n = b * y
      BY <1>8 DEF Divides
    <3> DEFINE m == a * b
    <3>2. m \in Nat \ {0} /\ n * a \in Nat /\ n * b \in Nat
      OBVIOUS
    <3>3. n * a = m * y /\ n * b = m * x
      <4>1. n * a = (b * y) * a /\ (b * y) * a = (a * b) * y
        BY <3>1
      <4>2. n * b = (a * x) * b /\ (a * x) * b = (a * b) * x
        BY <3>1
      <4> QED BY <4>1, <4>2
    <3> HIDE DEF m
    <3>4. Divides(m, n * a) /\ Divides(m, n * b)
      BY <3>3 DEF Divides
    <3>5. Divides(m, gcd(n * a, n * b))
      BY <3>2, <3>4, GcdDivides
    <3>6. PICK c \in Nat : n * g = m * c
      BY <3>5, <2>2, <1>4 DEF Divides
    <3>7. m = g * l
      <4>1. m = (g * u) * b /\ (g * u) * b = g * (u * b)
        BY <1>1, <1>2 DEF m
      <4> QED BY <4>1, <1>5
    <3>8. n * g = g * n /\ (g * l) * c = g * (l * c) /\ l * c \in Nat
      BY <1>1, <1>7
    <3>9. g * n = g * (l * c)
      BY <3>6, <3>7, <3>8
    <3>10. n = l * c
      BY <1>1, <3>8, <3>9, Cancel
    <3> QED BY <3>10 DEF Divides
  <2> QED BY <2>1, <2>2
<1> QED
  BY <1>7, <1>8 DEF Divides, l

LEMMA DividesTransitive ==
  ASSUME NEW k \in Nat, NEW m \in Nat, NEW n \in Nat, Divides(k, m), Divides(m, n)
  PROVE  Divides(k, n)
<1>1. PICK c \in Nat, d \in Nat : m = k * c /\ n = m * d
  BY DEF Divides
<1>2. n = k * (c * d) /\ c * d \in Nat
  BY <1>1
<1> QED
  BY <1>2 DEF Divides

(* freq_gcd is taken over all processes, one after the other.              *)
LEMMA FreqGcdRecursion ==
  ASSUME IsFiniteSet(Known)
  PROVE  \E over : /\ freq_gcd = over[Known] /\ over[{}] = 1
                   /\ \A S \in SUBSET Known : S # {} =>
                        \E p \in S : over[S] = lcm(over[S \ {p}], freq_map[p].d)
<1> DEFINE Body(g, S) == IF S = {} THEN 1
                         ELSE lcm(g[S \ {CHOOSE p \in S : TRUE}], freq_map[CHOOSE p \in S : TRUE].d)
           D(n)       == {S \in SUBSET Known : Cardinality(S) <= n}
           Good(n, g) == g = [S \in D(n) |-> Body(g, S)]
<1>1. \A S \in SUBSET Known : IsFiniteSet(S) /\ Cardinality(S) \in Nat
  BY FS_Subset, FS_CardinalityType
<1>2. \A S \in SUBSET Known : S # {} =>
        /\ (CHOOSE p \in S : TRUE) \in S
        /\ Cardinality(S \ {CHOOSE p \in S : TRUE}) = Cardinality(S) - 1
        /\ S \ {CHOOSE p \in S : TRUE} \in SUBSET Known
  BY <1>1, FS_RemoveElement
<1>3. \A S \in SUBSET Known : Cardinality(S) = 0 <=> S = {}
  BY <1>1, FS_EmptySet
<1>4. ASSUME NEW g, NEW h, NEW S \in SUBSET Known,
             \A R \in SUBSET Known : Cardinality(R) = Cardinality(S) - 1 => g[R] = h[R]
      PROVE  Body(g, S) = Body(h, S)
  <2>1. CASE S = {}
    BY <2>1
  <2>2. CASE S # {}
    <3>1. g[S \ {CHOOSE p \in S : TRUE}] = h[S \ {CHOOSE p \in S : TRUE}]
      BY <1>2, <1>4, <2>2
    <3> QED BY <2>2, <3>1
  <2> QED BY <2>1, <2>2
<1> HIDE DEF Body
<1> DEFINE N == {n \in Nat : \E g : Good(n, g)}
<1>5. 0 \in N
  <2> DEFINE g == [S \in D(0) |-> Body(<<>>, S)]
  <2>1. \A S \in D(0) : Body(<<>>, S) = Body(g, S)
    <3> HIDE DEF g
    <3>1. ASSUME NEW S \in D(0) PROVE Body(<<>>, S) = Body(g, S)
      <4>1. S \in SUBSET Known /\ Cardinality(S) = 0
        BY <1>1
      <4>2. \A R \in SUBSET Known : Cardinality(R) # Cardinality(S) - 1
        BY <1>1, <4>1
      <4> QED BY <1>4, <4>1, <4>2
    <3> QED BY <3>1
  <2>2. g = [S \in D(0) |-> Body(g, S)]
    BY <2>1, Zenon
  <2> HIDE DEF g
  <2> QED BY <2>2
<1>6. ASSUME NEW n \in Nat, n \in N PROVE n + 1 \in N
  <2>1. PICK g : Good(n, g)
    BY <1>6
  <2> DEFINE h == [S \in D(n + 1) |-> IF Cardinality(S) = n + 1 THEN Body(g, S) ELSE g[S]]
  <2>2. \A S \in D(n) : S \in D(n + 1) /\ h[S] = g[S]
    BY <1>1
  <2>3. ASSUME NEW S \in D(n + 1) PROVE h[S] = Body(h, S)
    <3>0. S \in SUBSET Known /\ Cardinality(S) \in 0..(n + 1)
      BY <1>1
    <3>1. Body(g, S) = Body(h, S)
      <4> HIDE DEF h
      <4>1. \A R \in SUBSET Known : Cardinality(R) = Cardinality(S) - 1 => R \in D(n)
        BY <1>1, <3>0
      <4>2. \A R \in SUBSET Known : Cardinality(R) = Cardinality(S) - 1 => g[R] = h[R]
        BY <2>2, <4>1
      <4> QED BY <4>2, <3>0, <1>4
    <3>2. CASE Cardinality(S) = n + 1
      BY <3>1, <3>2
    <3>3. CASE Cardinality(S) # n + 1
      <4>1. S \in D(n)
        BY <3>0, <3>3
      <4>2. g[S] = Body(g, S)
        BY <2>1, <4>1, Zenon
      <4> QED BY <4>2, <3>1, <3>3
    <3> QED BY <3>2, <3>3
  <2>4. h = [S \in D(n + 1) |-> h[S]]
    OBVIOUS
  <2> HIDE DEF h
  <2>5. h = [S \in D(n + 1) |-> Body(h, S)]
    BY <2>3, <2>4, Zenon
  <2>6. n + 1 \in Nat
    OBVIOUS
  <2> QED BY <2>5, <2>6
<1>7. \E g : Good(Cardinality(Known), g)
  <2>1. Cardinality(Known) \in Nat
    BY <1>1
  <2> HIDE DEF N
  <2>2. \A k \in 0..(Cardinality(Known) - 1) : k \in N => k + 1 \in N
    BY <1>6
  <2>3. Cardinality(Known) \in N
    BY <1>5, <2>1, <2>2, UpTo
  <2> QED BY <2>3 DEF N
<1>8. D(Cardinality(Known)) = SUBSET Known
  <2>1. \A S \in SUBSET Known : Cardinality(S) <= Cardinality(Known)
    BY FS_Subset
  <2> QED BY <2>1
<1> DEFINE over == CHOOSE over : over = [S \in SUBSET Known |-> Body(over, S)]
<1>9. over = [S \in SUBSET Known |-> Body(over, S)]
  <2>1. \E g : g = [S \in SUBSET Known |-> Body(g, S)]
    BY <1>7, <1>8
  <2> QED BY <2>1, Zenon
<1>10. freq_gcd = over[Known]
  BY Zenon DEF freq_gcd, Body
<1> HIDE DEF over
<1>11. \A S \in SUBSET Known : over[S] = Body(over, S)
  BY <1>9, Zenon
<1>12. over[{}] = 1
  BY <1>11 DEF Body
<1>13. \A S \in SUBSET Known : S # {} => \E p \in S : over[S] = lcm(over[S \ {p}], freq_map[p].d)
  BY <1>2, <1>11 DEF Body
<1> QED
  BY <1>10, <1>12, <1>13

LEMMA FreqGcdDivides ==
  ASSUME IsFiniteSet(Known), \A p \in Known : freq_map[p].d \in Nat \ {0}
  PROVE  /\ freq_gcd \in Nat \ {0} /\ \A p \in Known : Divides(freq_map[p].d, freq_gcd)
         /\ \A n \in Nat : (\A p \in Known : Divides(freq_map[p].d, n)) => Divides(freq_gcd, n)
<1>1. PICK over : /\ freq_gcd = over[Known] /\ over[{}] = 1
                  /\ \A S \in SUBSET Known : S # {} =>
                       \E p \in S : over[S] = lcm(over[S \ {p}], freq_map[p].d)
  BY FreqGcdRecursion
<1> DEFINE P(S) == /\ over[S] \in Nat \ {0} /\ \A p \in S : Divides(freq_map[p].d, over[S])
                   /\ \A n \in Nat : (\A p \in S : Divides(freq_map[p].d, n)) => Divides(over[S], n)
           N    == {n \in Nat : \A S \in SUBSET Known : Cardinality(S) = n => P(S)}
<1>2. \A S \in SUBSET Known : IsFiniteSet(S) /\ Cardinality(S) \in Nat
  BY FS_Subset, FS_CardinalityType
<1>3. 0 \in N
  <2>1. P({})
    BY <1>1, DividesFacts
  <2>2. \A S \in SUBSET Known : Cardinality(S) = 0 => S = {}
    BY <1>2, FS_EmptySet
  <2> HIDE DEF P
  <2> QED BY <2>1, <2>2
<1>4. ASSUME NEW n \in Nat, n \in N PROVE n + 1 \in N
  <2>1. ASSUME NEW S \in SUBSET Known, Cardinality(S) = n + 1 PROVE P(S)
    <3>1. S # {}
      BY <2>1, FS_EmptySet
    <3>2. PICK p \in S : over[S] = lcm(over[S \ {p}], freq_map[p].d)
      BY <1>1, <3>1
    <3> DEFINE R == S \ {p}
               d == freq_map[p].d
               a == over[R]
    <3>3. R \in SUBSET Known /\ Cardinality(R) = n /\ S = R \cup {p}
      <4>1. IsFiniteSet(S) /\ p \in S
        BY <1>2
      <4>2. Cardinality(R) = Cardinality(S) - 1
        BY <4>1, FS_RemoveElement
      <4> QED BY <2>1, <4>2
    <3>4. P(R)
      BY <1>4, <3>3
    <3>5. d \in Nat \ {0} /\ a \in Nat \ {0} /\ over[S] = lcm(a, d)
      BY <3>2, <3>4
    <3>6. /\ lcm(a, d) \in Nat \ {0} /\ Divides(a, lcm(a, d)) /\ Divides(d, lcm(a, d))
          /\ \A m \in Nat : Divides(a, m) /\ Divides(d, m) => Divides(lcm(a, d), m)
      BY <3>5, LcmDivides
    <3>7. ASSUME NEW r \in S PROVE Divides(freq_map[r].d, over[S])
      <4>1. CASE r = p
        BY <3>5, <3>6, <4>1
      <4>2. CASE r \in R
        <5>1. Divides(freq_map[r].d, a) /\ freq_map[r].d \in Nat
          BY <3>4, <4>2
        <5> QED BY <5>1, <3>5, <3>6, DividesTransitive
      <4> QED BY <3>3, <4>1, <4>2
    <3>8. ASSUME NEW m \in Nat, \A r \in S : Divides(freq_map[r].d, m) PROVE Divides(over[S], m)
      <4>1. Divides(a, m) /\ Divides(d, m)
        BY <3>3, <3>4, <3>8
      <4> QED BY <4>1, <3>5, <3>6
    <3> QED BY <3>5, <3>6, <3>7, <3>8
  <2> QED BY <2>1
<1>5. Cardinality(Known) \in Nat
  BY <1>2
<1> HIDE DEF N
<1>6. \A k \in 0..(Cardinality(Known) - 1) : k \in N => k + 1 \in N
  BY <1>4
<1>7. Cardinality(Known) \in N
  BY <1>3, <1>5, <1>6, UpTo
<1>8. P(Known)
  BY <1>7 DEF N
<1> QED
  BY <1>1, <1>8

-----------------------------------------------------------------------------
(* The core frequencies.                                                   *)

(* The frequencies found so far are fractions in lowest terms.             *)
FreqOK ==
  /\ IsFiniteSet(Known)
  /\ \A p \in Known : Lowest(freq_map[p])

LEMMA LowestParts ==
  ASSUME NEW x, Lowest(x)
  PROVE  x.n \in Nat \ {0} /\ x.d \in Nat \ {0} /\ gcd(x.n, x.d) = 1
<1>1. x.n \in Nat \ {0} /\ x.d \in Nat \ {0} /\ x = Reduced(x.n, x.d)
  BY DEF Lowest, Rationals
<1>2. PICK g \in Nat \ {0}, r \in Rationals : r = Reduced(x.n, x.d) /\ gcd(r.n, r.d) = 1
  BY <1>1, ReducedParts
<1> QED
  BY <1>1, <1>2

(* Each is multiplied by the same number, which its denominator divides.   *)
LEMMA ScaleParts ==
  ASSUME FreqOK, NEW p \in Known
  PROVE  \E m \in Nat \ {0} : freq_gcd = freq_map[p].d * m /\ Scale[p] = m * freq_map[p].n
<1> DEFINE x == freq_map[p]
           l == freq_gcd
<1>1. \A r \in Known : freq_map[r].d \in Nat \ {0}
  BY LowestParts DEF FreqOK
<1>2. l \in Nat \ {0} /\ Divides(x.d, l) /\ Lowest(x)
  BY <1>1, FreqGcdDivides DEF FreqOK
<1>3. Scale[p] = Times([n |-> l, d |-> 1], x).n
  BY DEF Scale
<1> HIDE DEF l, x
<1>4. PICK m \in Nat : l = x.d * m
  BY <1>2 DEF Divides
<1>5. x.n \in Nat \ {0} /\ x.d \in Nat \ {0}
  BY <1>2, LowestParts
<1>6. m # 0
  BY <1>2, <1>4, <1>5
<1> DEFINE t == [n |-> l, d |-> 1]
<1>7. Times(t, x) = Reduced(l * x.n, 1 * x.d)
  BY DEF Times
<1> DEFINE k == m * x.n
<1>8. l * x.n = x.d * k /\ 1 * x.d = x.d * 1 /\ k \in Nat
  <2>1. (x.d * m) * x.n = x.d * (m * x.n)
    BY <1>5
  <2> QED BY <1>4, <1>5, <2>1
<1> HIDE DEF k
<1>9. Reduced(x.d * k, x.d * 1) = Reduced(k, 1)
  <2>1. 1 \in Nat \ {0}
    OBVIOUS
  <2> QED BY <1>5, <1>8, <2>1, ReducedScales, Zenon
<1>10. Reduced(k, 1).n = k
  <2>1. PICK g \in Nat \ {0}, r \in Rationals : r = Reduced(k, 1) /\ k = g * r.n /\ 1 = g * r.d
    BY <1>8, ReducedParts
  <2>2. r.n \in Nat /\ r.d \in Nat \ {0}
    BY DEF Rationals
  <2>3. g = 1
    <3>1. CASE g = 1
      BY <3>1
    <3>2. CASE g # 1
      <4>1. PICK e \in Nat : g = 2 + e
        <5>1. g - 2 \in Nat /\ g = 2 + (g - 2)
          BY <3>2
        <5> QED BY <5>1
      <4>2. g * r.d = 2 * r.d + e * r.d /\ e * r.d \in Nat
        BY <2>2, <4>1
      <4> QED BY <2>1, <2>2, <4>2
    <3> QED BY <3>1, <3>2
  <2> QED BY <2>1, <2>2, <2>3
<1>11. Scale[p] = k
  BY <1>3, <1>7, <1>8, <1>9, <1>10
<1> QED
  BY <1>4, <1>6, <1>11 DEF k, l, x

LEMMA ScaleBalances ==
  ASSUME FreqOK, NEW c, RegularEnds(c), c.up \in Known, c.down \in Known,
         Fits(c, freq_map[c.up], freq_map[c.down])
  PROVE  Balanced(Scale, c)
<1> DEFINE x  == freq_map[c.up]
           y  == freq_map[c.down]
           xn == x.n
           xd == x.d
           yn == y.n
           yd == y.d
           un == c.upf.n
           ud == c.upf.d
           dn == c.downf.n
           dd == c.downf.d
<1>1. PICK m \in Nat \ {0} : freq_gcd = xd * m /\ Scale[c.up] = m * xn
  BY ScaleParts
<1>2. PICK k \in Nat \ {0} : freq_gcd = yd * k /\ Scale[c.down] = k * yn
  BY ScaleParts
<1>3. un \in Nat /\ ud \in Nat /\ dn \in Nat /\ dd \in Nat
  BY DEF RegularEnds, Rationals
<1>4. xn \in Nat /\ xd \in Nat \ {0} /\ yn \in Nat /\ yd \in Nat \ {0}
  BY LowestParts DEF FreqOK
<1>5. (xn * un) * (yd * dd) = (yn * dn) * (xd * ud) /\ xd * m = yd * k
  BY <1>1, <1>2 DEF Fits
<1> DEFINE a == ((m * xn) * un) * dd
           b == ((k * yn) * dn) * ud
<1>6. SUFFICES a = b
  BY <1>1, <1>2 DEF Balanced
<1> HIDE DEF xn, xd, yn, yd, un, ud, dn, dd
<1>7. xd * (yd * a) = (xd * m) * ((xn * un) * (yd * dd))
  BY <1>3, <1>4
<1>8. xd * (yd * b) = (yd * k) * ((yn * dn) * (xd * ud))
  BY <1>3, <1>4
<1>9. a \in Nat /\ b \in Nat
  <2>1. \A i, j \in Nat : i * j \in Nat
    OBVIOUS
  <2>2. m * xn \in Nat /\ k * yn \in Nat
    BY <1>4, <2>1
  <2>3. (m * xn) * un \in Nat /\ (k * yn) * dn \in Nat
    BY <1>3, <2>1, <2>2
  <2> QED BY <1>3, <2>1, <2>3
<1>10. xd * (yd * a) = xd * (yd * b)
  BY <1>5, <1>7, <1>8
<1> HIDE DEF a, b
<1>11. yd * a \in Nat /\ yd * b \in Nat
  BY <1>4, <1>9
<1>12. yd * a = yd * b
  BY <1>4, <1>10, <1>11, Cancel
<1> QED
  BY <1>4, <1>9, <1>12, Cancel

(* A common divisor of all core frequencies would divide their multiple,   *)
(* which would not be the least.                                           *)
LEMMA ScaleIsLeast ==
  ASSUME FreqOK, NEW s \in Known, freq_map[s] = base_freq, NEW k \in Nat \ {0},
         \A p \in Known : Divides(k, Scale[p])
  PROVE  k = 1
<1> DEFINE l == freq_gcd
<1>1. \A p \in Known : freq_map[p].d \in Nat \ {0}
  BY LowestParts DEF FreqOK
<1>2. /\ l \in Nat \ {0}
      /\ \A n \in Nat : (\A p \in Known : Divides(freq_map[p].d, n)) => Divides(l, n)
  BY <1>1, FreqGcdDivides DEF FreqOK
<1>3. PICK u \in Nat : l = k * u
  <2>1. PICK m \in Nat \ {0} : l = freq_map[s].d * m /\ Scale[s] = m * freq_map[s].n
    BY ScaleParts
  <2>2. Scale[s] = l
    BY <2>1 DEF base_freq
  <2> QED BY <2>2 DEF Divides
<1>4. ASSUME NEW p \in Known PROVE Divides(freq_map[p].d, u)
  <2> DEFINE n == freq_map[p].n
             d == freq_map[p].d
  <2>1. PICK m \in Nat \ {0} : l = d * m /\ Scale[p] = m * n
    BY ScaleParts
  <2>2. n \in Nat \ {0} /\ d \in Nat \ {0} /\ gcd(n, d) = 1
    BY LowestParts DEF FreqOK
  <2>3. Divides(k, m * n)
    BY <2>1
  <2> HIDE DEF n, d, l
  <2>4. Divides(k, m * d)
    <3>1. m * d = k * u
      BY <1>3, <2>1, <2>2
    <3> QED BY <3>1 DEF Divides
  <2>5. m * n \in Nat /\ m * d \in Nat
    BY <2>2
  <2>6. Divides(k, gcd(m * n, m * d))
    BY <2>3, <2>4, <2>5, GcdDivides
  <2>7. gcd(m * n, m * d) = m
    BY <2>2, GcdScales
  <2>8. PICK v \in Nat : m = k * v
    BY <2>6, <2>7 DEF Divides
  <2>9. k * u = d * (k * v)
    BY <1>3, <2>1, <2>8
  <2>10. d * (k * v) = k * (d * v) /\ d * v \in Nat
    BY <2>2
  <2>11. u = d * v
    BY <2>9, <2>10, Cancel
  <2> QED BY <2>11 DEF Divides, d
<1>5. Divides(l, u)
  BY <1>2, <1>4
<1> HIDE DEF l
<1>6. PICK v \in Nat : u = l * v
  BY <1>5 DEF Divides
<1>7. l * 1 = l * (k * v) /\ k * v \in Nat
  <2>1. k * (l * v) = l * (k * v)
    BY <1>2
  <2> QED BY <1>2, <1>3, <1>6, <2>1
<1>8. 1 = k * v
  BY <1>2, <1>7, Cancel
<1>9. CASE k # 1
  <2>1. PICK e \in Nat : k = 2 + e
    <3>1. k - 2 \in Nat /\ k = 2 + (k - 2)
      BY <1>9
    <3> QED BY <3>1
  <2>2. k * v = 2 * v + e * v /\ e * v \in Nat
    BY <2>1
  <2> QED BY <1>8, <2>2
<1> QED
  BY <1>9

-----------------------------------------------------------------------------
(* Frequencies that balance every connection are in proportion to those    *)
(* that were found.                                                        *)

Proportional(a, x, b, y) == a * (y.n * x.d) = b * (x.n * y.d)

LEMMA ProportionalEnds ==
  ASSUME NEW c, RegularEnds(c), NEW f, Balanced(f, c), f[c.up] \in Nat \ {0}, f[c.down] \in Nat \ {0},
         NEW x, Lowest(x), NEW y, Lowest(y)
  PROVE  Fits(c, x, y) <=> Proportional(f[c.up], x, f[c.down], y)
<1> DEFINE a  == f[c.up]
           b  == f[c.down]
           xn == x.n
           xd == x.d
           yn == y.n
           yd == y.d
           un == c.upf.n
           ud == c.upf.d
           dn == c.downf.n
           dd == c.downf.d
           u  == un * dd
           v  == dn * ud
           s  == yn * xd
           t  == xn * yd
<1>1. un \in Nat \ {0} /\ ud \in Nat \ {0} /\ dn \in Nat \ {0} /\ dd \in Nat \ {0}
  BY DEF RegularEnds, Rationals, Regular, IsZero
<1>2. xn \in Nat \ {0} /\ xd \in Nat \ {0} /\ yn \in Nat \ {0} /\ yd \in Nat \ {0}
  BY LowestParts
<1>3. (a * un) * dd = (b * dn) * ud /\ a \in Nat \ {0} /\ b \in Nat \ {0}
  BY DEF Balanced
<1>4. /\ Fits(c, x, y) <=> (xn * un) * (yd * dd) = (yn * dn) * (xd * ud)
      /\ Proportional(a, x, b, y) <=> a * s = b * t
  BY DEF Fits, Proportional
<1> HIDE DEF a, b, xn, xd, yn, yd, un, ud, dn, dd
<1>5. u \in Nat \ {0} /\ v \in Nat \ {0} /\ s \in Nat \ {0} /\ t \in Nat \ {0}
  <2>1. \A i, j \in Nat \ {0} : i * j \in Nat \ {0}
    OBVIOUS
  <2> QED BY <1>1, <1>2, <2>1
<1>6. (a * un) * dd = a * u /\ (b * dn) * ud = b * v
  BY <1>1, <1>3
<1>7. (xn * un) * (yd * dd) = t * u /\ (yn * dn) * (xd * ud) = s * v
  BY <1>1, <1>2
<1> HIDE DEF u, v, s, t
<1>8. a * u = b * v
  BY <1>3, <1>6
<1>9. ASSUME t * u = s * v PROVE a * s = b * t
  <2>1. u * (v * (a * s)) = (a * u) * (s * v) /\ u * (v * (b * t)) = (b * v) * (t * u)
    BY <1>3, <1>5
  <2>2. a * s \in Nat /\ b * t \in Nat
    BY <1>3, <1>5
  <2>3. v * (a * s) \in Nat /\ v * (b * t) \in Nat
    BY <1>5, <2>2
  <2>4. u * (v * (a * s)) = u * (v * (b * t))
    BY <2>1, <1>8, <1>9
  <2>5. v * (a * s) = v * (b * t)
    BY <1>5, <2>3, <2>4, Cancel
  <2> QED BY <1>5, <2>2, <2>5, Cancel
<1>10. ASSUME a * s = b * t PROVE t * u = s * v
  <2>1. a * (b * (t * u)) = (a * u) * (b * t) /\ a * (b * (s * v)) = (b * v) * (a * s)
    BY <1>3, <1>5
  <2>2. t * u \in Nat /\ s * v \in Nat
    BY <1>5
  <2>3. b * (t * u) \in Nat /\ b * (s * v) \in Nat
    BY <1>3, <2>2
  <2>4. a * (b * (t * u)) = a * (b * (s * v))
    BY <2>1, <1>8, <1>10
  <2>5. b * (t * u) = b * (s * v)
    BY <1>3, <2>3, <2>4, Cancel
  <2> QED BY <1>3, <2>2, <2>5, Cancel
<1> QED
  BY <1>4, <1>7, <1>9, <1>10 DEF a, b

LEMMA ProportionalChain ==
  ASSUME NEW a \in Nat \ {0}, NEW b \in Nat \ {0}, NEW c \in Nat \ {0},
         NEW x, Lowest(x), NEW y, Lowest(y), NEW z, Lowest(z),
         Proportional(a, x, b, y), Proportional(b, y, c, z)
  PROVE  Proportional(a, x, c, z) /\ Proportional(b, y, a, x) /\ Proportional(a, x, a, x)
<1> DEFINE xn == x.n
           xd == x.d
           yn == y.n
           yd == y.d
           zn == z.n
           zd == z.d
<1>1. /\ xn \in Nat \ {0} /\ xd \in Nat \ {0} /\ yn \in Nat \ {0} /\ yd \in Nat \ {0}
      /\ zn \in Nat \ {0} /\ zd \in Nat \ {0}
  BY LowestParts
<1>2. a * (yn * xd) = b * (xn * yd) /\ b * (zn * yd) = c * (yn * zd)
  BY DEF Proportional
<1>3. /\ Proportional(a, x, c, z) <=> a * (zn * xd) = c * (xn * zd)
      /\ Proportional(b, y, a, x) <=> b * (xn * yd) = a * (yn * xd)
      /\ Proportional(a, x, a, x) <=> a * (xn * xd) = a * (xn * xd)
  BY DEF Proportional
<1> HIDE DEF xn, xd, yn, yd, zn, zd
<1> DEFINE i == a * (zn * xd)
           j == c * (xn * zd)
           k == (b * yn) * yd
<1>4. i \in Nat /\ j \in Nat /\ k \in Nat \ {0}
  <2>1. \A m, n \in Nat : m * n \in Nat
    OBVIOUS
  <2>2. \A m, n \in Nat \ {0} : m * n \in Nat \ {0}
    OBVIOUS
  <2>3. zn * xd \in Nat /\ xn * zd \in Nat /\ b * yn \in Nat \ {0}
    BY <1>1, <2>2
  <2> QED BY <1>1, <2>1, <2>2, <2>3
<1>5. k * i = (a * (yn * xd)) * (b * (zn * yd))
  BY <1>1
<1>6. k * j = (b * (xn * yd)) * (c * (yn * zd))
  BY <1>1
<1>7. k * i = k * j
  BY <1>2, <1>5, <1>6
<1> HIDE DEF k, i, j
<1>8. i = j
  BY <1>4, <1>7, Cancel
<1> QED
  BY <1>2, <1>3, <1>8 DEF i, j

-----------------------------------------------------------------------------
(* The work list.                                                          *)

Fitted(c) == c.up \in Known /\ c.down \in Known /\ Fits(c, freq_map[c.up], freq_map[c.down])

(* The frequencies are fractions in lowest terms, the first of them 1; a   *)
(* connection is in the work list or fits the frequencies of its ends.     *)
WorkInv ==
  /\ pipe \in Pipelines
  /\ unchecked \in Seq(Connections)
  /\ Known \subseteq pipe.procs
  /\ \A p \in Known : Lowest(freq_map[p])
  /\ Known # {} => \E p \in Known : freq_map[p] = base_freq
  /\ \A c \in RegularConnections : c \in Elems(unchecked) \/ Fitted(c)

(* What the two results rest on.                                           *)
ResultInv ==
  /\ status \in {"checking", "done", "mismatch"}
  /\ status = "done" => \/ Cardinality(pipe.procs) = 1 /\ core = [p \in pipe.procs |-> 1]
                        \/ unchecked = <<>> /\ core = Scale
  /\ status = "mismatch" =>
       /\ unchecked # <<>> /\ Regular(connection)
       /\ {connection.up, connection.down} \subseteq Known /\ ~Agree

(* Any frequencies that balance the pipeline are in proportion to these.   *)
RatioInv ==
  \A f \in [pipe.procs -> Nat \ {0}] :
    (\A c \in RegularConnections : Balanced(f, c)) =>
      \A p, r \in Known : Proportional(f[p], freq_map[p], f[r], freq_map[r])

LEMMA ConnectionParts ==
  ASSUME pipe \in Pipelines, NEW c \in Connections
  PROVE  /\ c.up \in pipe.procs /\ c.down \in pipe.procs /\ c.up # c.down
         /\ c.upf \in Rationals /\ c.downf \in Rationals
         /\ Regular(c) => RegularEnds(c)
<1> DEFINE CSet == [up : pipe.procs, down : pipe.procs, upf : Rationals, downf : Rationals]
           s    == pipe.connections
<1>1. s \in Seq(CSet) /\ \A i \in DOMAIN s : s[i].up # s[i].down
  BY FrequenciesAssumption
<1>2. PICK i \in DOMAIN s : c = s[i]
  BY DEF Connections
<1>3. c \in CSet
  <2> HIDE DEF CSet, s
  <2> QED BY <1>1, <1>2, ElementOfSeq, LenProperties
<1> QED
  BY <1>1, <1>2, <1>3 DEF RegularEnds

(* A connection at a time: the front of the work list.                     *)
LEMMA FrontParts ==
  ASSUME WorkInv, unchecked # <<>>
  PROVE  /\ connection \in Connections /\ Tail(unchecked) \in Seq(Connections)
         /\ Append(Tail(unchecked), connection) \in Seq(Connections)
         /\ Elems(unchecked) = {connection} \cup Elems(Tail(unchecked))
         /\ Elems(Append(Tail(unchecked), connection)) = Elems(unchecked)
<1> DEFINE s == Tail(unchecked)
           c == connection
<1>1. c \in Connections /\ s \in Seq(Connections) /\ Elems(unchecked) = {c} \cup Elems(s)
  BY HeadAndTail DEF WorkInv, connection
<1> HIDE DEF s, c
<1>2. <<c>> \in Seq(Connections) /\ Append(s, c) = s \o <<c>> /\ Elems(<<c>>) = {c}
  <2>1. <<c>> \in Seq(Connections) /\ Append(s, c) = s \o <<c>>
    BY <1>1, JoinsOfOne
  <2>2. Len(<<c>>) = 1 /\ <<c>>[1] = c
    OBVIOUS
  <2> QED BY <2>1, <2>2 DEF Elems
<1>3. Append(s, c) \in Seq(Connections) /\ Elems(Append(s, c)) = Elems(s) \cup {c}
  <2> DEFINE e == <<c>>
  <2>1. e \in Seq(Connections) /\ Append(s, c) = s \o e /\ Elems(e) = {c}
    BY <1>2
  <2> HIDE DEF e
  <2>2. s \o e \in Seq(Connections) /\ Elems(s \o e) = Elems(s) \cup Elems(e)
    BY <1>1, <2>1, ConcatProperties, JoinedElements
  <2> QED BY <2>1, <2>2
<1> QED
  BY <1>1, <1>3 DEF s, c

(* A connection that fits is dropped, and nothing else changes.            *)
LEMMA DropFitting ==
  ASSUME WorkInv, RatioInv, unchecked # <<>>, unchecked' = Tail(unchecked), pipe' = pipe,
         NEW d, \A p \in Known : p \in DOMAIN d /\ d[p] = freq_map[p], freq_map' = d,
         DOMAIN d \subseteq pipe.procs, \A p \in DOMAIN d : Lowest(d[p]),
         DOMAIN d # {} => \E p \in DOMAIN d : d[p] = base_freq,
         Regular(connection) =>
           /\ connection.up \in DOMAIN d /\ connection.down \in DOMAIN d
           /\ Fits(connection, d[connection.up], d[connection.down])
  PROVE  WorkInv'
<1>1. Known' = DOMAIN d /\ Connections' = Connections /\ RegularConnections' = RegularConnections
  BY DEF Known, Connections, RegularConnections
<1>2. /\ Tail(unchecked) \in Seq(Connections)
      /\ Elems(unchecked) = {connection} \cup Elems(Tail(unchecked))
  BY FrontParts
<1>3. ASSUME NEW c \in RegularConnections PROVE c \in Elems(unchecked') \/ Fitted(c)'
  <2>1. CASE c = connection
    BY <1>1, <2>1 DEF RegularConnections, Fitted
  <2>2. CASE c \in Elems(Tail(unchecked))
    BY <2>2
  <2>3. CASE Fitted(c)
    BY <1>1, <2>3 DEF Fitted
  <2> QED BY <1>2, <2>1, <2>2, <2>3 DEF WorkInv
<1>4. Elems(unchecked)' = Elems(unchecked')
  BY DEF Elems
<1> QED
  BY <1>1, <1>2, <1>3, <1>4 DEF WorkInv

LEMMA ProportionalEqual ==
  ASSUME NEW a \in Nat \ {0}, NEW x, Lowest(x)
  PROVE  Proportional(a, x, a, x)
BY DEF Proportional

LEMMA RatioExtend ==
  ASSUME WorkInv, RatioInv, NEW c \in RegularConnections, NEW p, NEW r \in Known,
         {c.up, c.down} = {p, r}, c.up # c.down, NEW x, Lowest(x), p \in pipe.procs,
         freq_map' = Extend(p, x), p \notin Known, pipe' = pipe,
         Fits(c, freq_map'[c.up], freq_map'[c.down])
  PROVE  RatioInv'
<1> DEFINE d == freq_map'
<1>1. /\ DOMAIN d = Known \cup {p} /\ d[p] = x /\ \A q \in Known : d[q] = freq_map[q]
      /\ Known' = DOMAIN d /\ RegularConnections' = RegularConnections
      /\ c \in Connections
  BY DEF Extend, Known, RegularConnections, Connections
<1>2. ASSUME NEW f \in [pipe.procs -> Nat \ {0}], \A b \in RegularConnections : Balanced(f, b),
             NEW q \in Known \cup {p}, NEW s \in Known \cup {p}
      PROVE  Proportional(f[q], d[q], f[s], d[s])
  <2>1. /\ RegularEnds(c) /\ c.up \in pipe.procs /\ c.down \in pipe.procs
        /\ f[p] \in Nat \ {0} /\ f[r] \in Nat \ {0} /\ Lowest(d[r]) /\ Lowest(d[p])
    BY <1>1, ConnectionParts DEF WorkInv, RegularConnections
  <2>2. Proportional(f[c.up], d[c.up], f[c.down], d[c.down])
    BY <1>2, <2>1, ProportionalEnds
  <2>3. \A u \in Known : Proportional(f[r], d[r], f[u], d[u]) /\ f[u] \in Nat \ {0} /\ Lowest(d[u])
    BY <1>1, <1>2 DEF RatioInv, WorkInv
  <2>4. Proportional(f[p], d[p], f[r], d[r])
    <3>1. CASE c.up = p /\ c.down = r
      BY <2>2, <3>1
    <3>2. CASE c.up = r /\ c.down = p
      BY <2>1, <2>2, <3>2, ProportionalEqual, ProportionalChain
    <3> QED BY <3>1, <3>2
  <2>5. \A u \in Known : Proportional(f[p], d[p], f[u], d[u])
    BY <2>1, <2>3, <2>4, ProportionalChain
  <2>6. \A u \in Known : Proportional(f[u], d[u], f[p], d[p])
    BY <2>1, <2>3, <2>5, ProportionalEqual, ProportionalChain
  <2>7. Proportional(f[p], d[p], f[p], d[p])
    BY <2>1, ProportionalEqual
  <2>8. \A u, v \in Known : Proportional(f[u], d[u], f[v], d[v])
    BY <1>1, <1>2 DEF RatioInv
  <2> QED BY <2>5, <2>6, <2>7, <2>8
<1> QED
  BY <1>1, <1>2 DEF RatioInv, Balanced

LEMMA RatioSame ==
  ASSUME RatioInv, UNCHANGED <<pipe, freq_map>>
  PROVE  RatioInv'
<1>1. Known' = Known /\ RegularConnections' = RegularConnections
  BY DEF Known, RegularConnections, Connections
<1> QED
  BY <1>1 DEF RatioInv, Balanced, Proportional

LEMMA WorkSkip ==
  ASSUME WorkInv, RatioInv, ResultInv, Skip PROVE WorkInv' /\ RatioInv' /\ ResultInv'
<1>1. /\ unchecked # <<>> /\ unchecked' = Tail(unchecked) /\ UNCHANGED <<pipe, freq_map, core, status>>
      /\ ~Regular(connection) /\ status = "checking"
  BY DEF Skip, Checking, Popped
<1>2. WorkInv'
  BY <1>1, DropFitting DEF WorkInv, Known
<1>3. RatioInv'
  BY <1>1, RatioSame
<1> QED
  BY <1>1, <1>2, <1>3 DEF ResultInv

LEMMA WorkSeed ==
  ASSUME WorkInv, RatioInv, ResultInv, Seed PROVE WorkInv' /\ RatioInv' /\ ResultInv'
<1> DEFINE c == connection
           y == ExpectedDown(c, base_freq)
           d == [p \in {c.up, c.down} |-> IF p = c.up THEN base_freq ELSE y]
<1>1. /\ unchecked # <<>> /\ unchecked' = Tail(unchecked) /\ UNCHANGED <<pipe, core, status>>
      /\ Regular(c) /\ Known = {} /\ freq_map' = d /\ status = "checking"
  BY DEF Seed, Checking, Popped
<1>2. /\ c \in RegularConnections /\ RegularEnds(c) /\ c.up \in pipe.procs /\ c.down \in pipe.procs
      /\ c.up # c.down
  BY <1>1, FrontParts, ConnectionParts DEF WorkInv, RegularConnections
<1>3. Lowest(base_freq)
  <2>1. Reduced(1, 1) = base_freq
    <3>1. gcd(1, 1) = 1
      <4>1. gcd(1, 0) = 1 /\ gcd(1, 1) = gcd(1, 1 % 1) /\ 1 % 1 = 0
        BY GcdSteps
      <4> QED BY <4>1
    <3>2. 1 \div 1 = 1
      OBVIOUS
    <3> QED BY <3>1, <3>2 DEF Reduced, base_freq
  <2> QED BY <2>1 DEF Lowest, base_freq, Rationals
<1>4. Lowest(y) /\ Fits(c, base_freq, y)
  BY <1>2, <1>3, ExpectedFits
<1>5. DOMAIN d = {c.up, c.down} /\ d[c.up] = base_freq /\ d[c.down] = y
  BY <1>2
<1> HIDE DEF d, y
<1>6. WorkInv'
  BY <1>1, <1>2, <1>3, <1>4, <1>5, DropFitting
<1>7. RatioInv'
  <2>1. Known' = {c.up, c.down} /\ RegularConnections' = RegularConnections /\ pipe' = pipe
    BY <1>1, <1>5 DEF Known, RegularConnections, Connections
  <2>2. ASSUME NEW f \in [pipe.procs -> Nat \ {0}], \A b \in RegularConnections : Balanced(f, b),
               NEW q \in {c.up, c.down}, NEW s \in {c.up, c.down}
        PROVE  Proportional(f[q], d[q], f[s], d[s])
    <3>1. /\ f[c.up] \in Nat \ {0} /\ f[c.down] \in Nat \ {0}
          /\ Lowest(d[c.up]) /\ Lowest(d[c.down]) /\ Fits(c, d[c.up], d[c.down])
      BY <1>2, <1>3, <1>4, <1>5
    <3>2. Proportional(f[c.up], d[c.up], f[c.down], d[c.down])
      BY <1>2, <2>2, <3>1, ProportionalEnds
    <3>3. /\ Proportional(f[c.up], d[c.up], f[c.up], d[c.up])
          /\ Proportional(f[c.down], d[c.down], f[c.down], d[c.down])
      BY <3>1, ProportionalEqual
    <3>4. Proportional(f[c.down], d[c.down], f[c.up], d[c.up])
      BY <3>1, <3>2, <3>3, ProportionalChain
    <3> QED BY <3>2, <3>3, <3>4
  <2> QED BY <1>1, <2>1, <2>2 DEF RatioInv, Balanced
<1> QED
  BY <1>1, <1>6, <1>7 DEF ResultInv

LEMMA WorkPropagate ==
  ASSUME WorkInv, RatioInv, ResultInv, PropagateDown \/ PropagateUp
  PROVE  WorkInv' /\ RatioInv' /\ ResultInv'
<1> DEFINE c == connection
<1>1. /\ unchecked # <<>> /\ unchecked' = Tail(unchecked) /\ UNCHANGED <<pipe, core, status>>
      /\ Regular(c) /\ status = "checking"
  BY DEF PropagateDown, PropagateUp, Checking, Popped
<1>2. /\ c \in RegularConnections /\ RegularEnds(c) /\ c.up \in pipe.procs /\ c.down \in pipe.procs
      /\ c.up # c.down
  BY <1>1, FrontParts, ConnectionParts DEF WorkInv, RegularConnections
<1>3. PICK p, r, x : /\ {c.up, c.down} = {p, r} /\ r \in Known /\ p \notin Known
                     /\ freq_map' = Extend(p, x) /\ Lowest(x)
                     /\ \/ c.up = r /\ c.down = p /\ Fits(c, freq_map[r], x)
                        \/ c.up = p /\ c.down = r /\ Fits(c, x, freq_map[r])
  <2>1. CASE PropagateDown
    <3>1. c.up \in Known /\ c.down \notin Known /\ freq_map' = Extend(c.down, ExpectedDown(c, freq_map[c.up]))
      BY <2>1 DEF PropagateDown
    <3>2. Lowest(ExpectedDown(c, freq_map[c.up])) /\ Fits(c, freq_map[c.up], ExpectedDown(c, freq_map[c.up]))
      BY <1>2, <3>1, ExpectedFits DEF WorkInv
    <3> HIDE DEF c
    <3> QED BY <3>1, <3>2
  <2>2. CASE PropagateUp
    <3>1. c.down \in Known /\ c.up \notin Known /\ freq_map' = Extend(c.up, ExpectedUp(c, freq_map[c.down]))
      BY <2>2 DEF PropagateUp
    <3>2. Lowest(ExpectedUp(c, freq_map[c.down])) /\ Fits(c, ExpectedUp(c, freq_map[c.down]), freq_map[c.down])
      BY <1>2, <3>1, ExpectedFits DEF WorkInv
    <3> HIDE DEF c
    <3> QED BY <3>1, <3>2
  <2> QED BY <2>1, <2>2
<1>4. /\ DOMAIN freq_map' = Known \cup {p} /\ freq_map'[p] = x
      /\ \A q \in Known : freq_map'[q] = freq_map[q]
  BY <1>3 DEF Extend
<1>5. Fits(c, freq_map'[c.up], freq_map'[c.down]) /\ p \in pipe.procs
  BY <1>2, <1>3, <1>4
<1>6. RatioInv'
  BY <1>1, <1>2, <1>3, <1>5, RatioExtend
<1>7. WorkInv'
  <2> DEFINE d == freq_map'
  <2>1. /\ \A q \in Known : q \in DOMAIN d /\ d[q] = freq_map[q]
        /\ DOMAIN d \subseteq pipe.procs /\ \A q \in DOMAIN d : Lowest(d[q])
        /\ \E q \in DOMAIN d : d[q] = base_freq
        /\ c.up \in DOMAIN d /\ c.down \in DOMAIN d /\ Fits(c, d[c.up], d[c.down])
    BY <1>2, <1>3, <1>4, <1>5 DEF WorkInv
  <2>2. freq_map' = d
    OBVIOUS
  <2> HIDE DEF d
  <2> QED BY <1>1, <2>1, <2>2, DropFitting
<1> QED
  BY <1>1, <1>6, <1>7 DEF ResultInv

LEMMA WorkValidate ==
  ASSUME WorkInv, RatioInv, ResultInv, Validate PROVE WorkInv' /\ RatioInv' /\ ResultInv'
<1> DEFINE c == connection
<1>1. /\ unchecked # <<>> /\ unchecked' = Tail(unchecked) /\ UNCHANGED <<pipe, freq_map, core, status>>
      /\ Regular(c) /\ status = "checking" /\ c.up \in Known /\ c.down \in Known
      /\ freq_map[c.down] = ExpectedDown(c, freq_map[c.up])
  BY DEF Validate, BothKnown, Checking, Popped, Agree
<1>2. RegularEnds(c)
  BY <1>1, FrontParts, ConnectionParts DEF WorkInv
<1>3. Fits(c, freq_map[c.up], freq_map[c.down])
  BY <1>1, <1>2, ExpectedFits DEF WorkInv
<1>4. WorkInv'
  BY <1>1, <1>3, DropFitting DEF WorkInv, Known
<1> QED
  BY <1>1, <1>4, RatioSame DEF ResultInv

(* Nothing known changes, and the work list at most in its order.          *)
LEMMA WorkSame ==
  ASSUME WorkInv, UNCHANGED <<pipe, freq_map>>,
         unchecked' \in Seq(Connections), Elems(unchecked') = Elems(unchecked)
  PROVE  WorkInv'
<1>1. Known' = Known /\ Connections' = Connections /\ RegularConnections' = RegularConnections
  BY DEF Known, RegularConnections, Connections
<1>2. Elems(unchecked)' = Elems(unchecked')
  BY DEF Elems
<1>3. ASSUME NEW c \in RegularConnections PROVE c \in Elems(unchecked') \/ Fitted(c)'
  BY <1>1 DEF WorkInv, Fitted
<1> QED
  BY <1>1, <1>2, <1>3 DEF WorkInv

LEMMA WorkMismatch ==
  ASSUME WorkInv, RatioInv, ResultInv, Mismatch PROVE WorkInv' /\ RatioInv' /\ ResultInv'
<1>1. /\ UNCHANGED <<pipe, unchecked, freq_map, core>> /\ status' = "mismatch"
      /\ unchecked # <<>> /\ Regular(connection) /\ ~Agree
      /\ {connection.up, connection.down} \subseteq Known
  BY DEF Mismatch, BothKnown, Checking
<1>2. WorkInv'
  BY <1>1, WorkSame DEF WorkInv
<1>3. /\ connection' = connection /\ Known' = Known /\ Agree' = Agree
      /\ Regular(connection)' = Regular(connection)
  BY <1>1 DEF connection, Known, Agree, Regular
<1>4. ResultInv'
  BY <1>1, <1>3 DEF ResultInv
<1> QED
  BY <1>1, <1>2, <1>4, RatioSame

LEMMA WorkRequeue ==
  ASSUME WorkInv, RatioInv, ResultInv, Requeue PROVE WorkInv' /\ RatioInv' /\ ResultInv'
<1>1. /\ UNCHANGED <<pipe, status, freq_map, core>> /\ status = "checking" /\ unchecked # <<>>
      /\ unchecked' = Append(Tail(unchecked), connection)
  BY DEF Requeue, Checking
<1>2. WorkInv'
  <2>1. unchecked' \in Seq(Connections) /\ Elems(unchecked') = Elems(unchecked)
    BY <1>1, FrontParts
  <2> QED BY <1>1, <2>1, WorkSame
<1> QED
  BY <1>1, <1>2, RatioSame DEF ResultInv

LEMMA WorkEnds ==
  ASSUME WorkInv, RatioInv, ResultInv, OnlyProcess \/ SetCoreFrequencies
  PROVE  WorkInv' /\ RatioInv' /\ ResultInv'
<1>1. /\ UNCHANGED <<pipe, unchecked, freq_map>> /\ status' = "done"
      /\ \/ Cardinality(pipe.procs) = 1 /\ core' = [p \in pipe.procs |-> 1]
         \/ unchecked = <<>> /\ core' = Scale
  BY DEF OnlyProcess, SetCoreFrequencies
<1>2. WorkInv'
  BY <1>1, WorkSame DEF WorkInv
<1>3. Scale' = Scale
  BY <1>1 DEF Scale, freq_gcd, Known
<1>4. ResultInv'
  BY <1>1, <1>3 DEF ResultInv
<1> QED
  BY <1>1, <1>2, <1>4, RatioSame

LEMMA WorkStutters ==
  ASSUME WorkInv, RatioInv, ResultInv, UNCHANGED checkVars PROVE WorkInv' /\ RatioInv' /\ ResultInv'
<1>1. UNCHANGED <<pipe, unchecked, freq_map, status, core>>
  BY DEF checkVars
<1>2. WorkInv'
  BY <1>1, WorkSame DEF WorkInv
<1>3. /\ connection' = connection /\ Known' = Known /\ Agree' = Agree /\ Scale' = Scale
      /\ Regular(connection)' = Regular(connection)
  BY <1>1 DEF connection, Known, Agree, Regular, Scale, freq_gcd
<1>4. ResultInv'
  BY <1>1, <1>3 DEF ResultInv
<1> QED
  BY <1>1, <1>2, <1>4, RatioSame

LEMMA WorkStarts ==
  ASSUME CheckInit PROVE WorkInv /\ RatioInv /\ ResultInv
<1>1. pipe \in Pipelines /\ unchecked = pipe.connections /\ Known = {} /\ status = "checking"
  BY DEF CheckInit, Known
<1> DEFINE CSet == [up : pipe.procs, down : pipe.procs, upf : Rationals, downf : Rationals]
           s    == pipe.connections
<1>2. s \in Seq(CSet)
  BY <1>1, FrequenciesAssumption
<1> HIDE DEF CSet
<1>3. DOMAIN s = 1..Len(s) /\ Len(s) \in Nat /\ s \in [1..Len(s) -> CSet]
  BY <1>2, LenProperties
<1>4. Connections = {s[i] : i \in 1..Len(s)} /\ Connections = Elems(unchecked)
  BY <1>1, <1>3 DEF Connections, Elems
<1>5. s \in Seq(Connections)
  <2>1. IsList(s)
    BY <1>2, ListOfSeq
  <2> QED BY <1>1, <1>4, <2>1, SeqOfList
<1>6. WorkInv
  BY <1>1, <1>4, <1>5 DEF WorkInv, RegularConnections
<1> QED
  BY <1>1, <1>6 DEF RatioInv, ResultInv

LEMMA WorkHolds == CheckSpec => [](WorkInv /\ RatioInv /\ ResultInv)
<1>1. CheckInit => WorkInv /\ RatioInv /\ ResultInv
  BY WorkStarts
<1>2. ASSUME WorkInv /\ RatioInv /\ ResultInv, [CheckNext]_checkVars
      PROVE  (WorkInv /\ RatioInv /\ ResultInv)'
  <2>1. CASE Skip
    BY <1>2, <2>1, WorkSkip
  <2>2. CASE Seed
    BY <1>2, <2>2, WorkSeed
  <2>3. CASE PropagateDown \/ PropagateUp
    BY <1>2, <2>3, WorkPropagate
  <2>4. CASE Validate
    BY <1>2, <2>4, WorkValidate
  <2>5. CASE Mismatch
    BY <1>2, <2>5, WorkMismatch
  <2>6. CASE Requeue
    BY <1>2, <2>6, WorkRequeue
  <2>7. CASE OnlyProcess \/ SetCoreFrequencies
    BY <1>2, <2>7, WorkEnds
  <2>8. CASE UNCHANGED checkVars
    BY <1>2, <2>8, WorkStutters
  <2> QED BY <1>2, <2>1, <2>2, <2>3, <2>4, <2>5, <2>6, <2>7, <2>8 DEF CheckNext, Algorithm, Finished
<1> QED
  BY <1>1, <1>2, PTL DEF CheckSpec

(* An accepted pipeline is one process without connections, or every       *)
(* connection has fitted the frequencies that are scaled.                  *)
LEMMA Accepted ==
  ASSUME WorkInv, ResultInv, status = "done"
  PROVE  \/ /\ RegularConnections = {} /\ Joined = {}
            /\ DOMAIN core # {} /\ \A p \in DOMAIN core : core[p] = 1
         \/ /\ FreqOK /\ core = Scale /\ DOMAIN core = Known
            /\ \A c \in RegularConnections : Fitted(c) /\ RegularEnds(c)
<1>1. CASE Cardinality(pipe.procs) = 1 /\ core = [p \in pipe.procs |-> 1]
  <2>1. IsFiniteSet(pipe.procs)
    BY FrequenciesAssumption DEF WorkInv
  <2>2. PICK x : pipe.procs = {x}
    BY <1>1, <2>1, FS_Singleton
  <2>3. Connections = {}
    BY <2>2, ConnectionParts DEF WorkInv
  <2>4. RegularConnections = {} /\ DOMAIN pipe.connections = {}
    BY <2>3 DEF RegularConnections, Connections
  <2>5. Joined = {}
    <3>1. {} \in SUBSET pipe.procs
      OBVIOUS
    <3> QED BY <2>4, <3>1 DEF Joined
  <2> QED BY <1>1, <2>2, <2>4, <2>5
<1>2. CASE unchecked = <<>> /\ core = Scale
  <2>1. FreqOK
    BY FrequenciesAssumption, FS_Subset DEF WorkInv, FreqOK
  <2>2. Elems(unchecked) = {}
    BY <1>2 DEF Elems
  <2>3. \A c \in RegularConnections : Fitted(c) /\ RegularEnds(c)
    BY <2>2, ConnectionParts DEF WorkInv, RegularConnections
  <2>4. DOMAIN Scale = Known
    BY DEF Scale
  <2> QED BY <1>2, <2>1, <2>3, <2>4
<1> QED
  BY <1>1, <1>2 DEF ResultInv

LEMMA AcceptedBalances ==
  ASSUME WorkInv, ResultInv PROVE AcceptedIsBalanced
<1> SUFFICES ASSUME status = "done"
             PROVE  /\ \A p \in Joined : p \in DOMAIN core /\ core[p] > 0
                    /\ \A c \in RegularConnections : Balanced(core, c)
  BY DEF AcceptedIsBalanced
<1>1. CASE RegularConnections = {} /\ Joined = {}
  BY <1>1
<1>2. CASE /\ FreqOK /\ core = Scale /\ DOMAIN core = Known
           /\ \A c \in RegularConnections : Fitted(c) /\ RegularEnds(c)
  <2>1. ASSUME NEW p \in Joined PROVE p \in Known
    <3>1. Known \in SUBSET pipe.procs
      BY DEF WorkInv
    <3>2. ASSUME NEW i \in DOMAIN pipe.connections, Regular(pipe.connections[i])
          PROVE  pipe.connections[i].up \in Known
      <4>1. pipe.connections[i] \in RegularConnections
        BY <3>2 DEF RegularConnections, Connections
      <4> QED BY <1>2, <4>1 DEF Fitted
    <3>3. \A c \in RegularConnections : c.up \in Known <=> c.down \in Known
      BY <1>2 DEF Fitted
    <3> QED BY <3>1, <3>2, <3>3 DEF Joined
  <2>2. ASSUME NEW p \in Known PROVE Scale[p] > 0
    <3>1. PICK m \in Nat \ {0} : Scale[p] = m * freq_map[p].n
      BY <1>2, ScaleParts
    <3>2. freq_map[p].n \in Nat \ {0}
      BY <1>2, LowestParts DEF FreqOK
    <3> QED BY <3>1, <3>2
  <2>3. \A c \in RegularConnections : Balanced(Scale, c)
    BY <1>2, ScaleBalances DEF Fitted
  <2> QED BY <1>2, <2>1, <2>2, <2>3
<1> QED
  BY <1>1, <1>2, Accepted

(* No number but 1 divides every core frequency.                           *)
LEMMA SmallestFrequency ==
  ASSUME WorkInv, ResultInv, status = "done", core # <<>>, NEW k \in Nat \ {0, 1}
  PROVE  \E p \in DOMAIN core : core[p] % k # 0
<1> SUFFICES ASSUME \A p \in DOMAIN core : core[p] % k = 0 PROVE FALSE
  OBVIOUS
<1>1. CASE DOMAIN core # {} /\ \A p \in DOMAIN core : core[p] = 1
  <2>1. 1 % k = 1
    OBVIOUS
  <2> QED BY <1>1, <2>1
<1>2. CASE FreqOK /\ core = Scale /\ DOMAIN core = Known
  <2>1. Known # {}
    <3>1. DOMAIN core # {}
      <4>1. CASE DOMAIN core = {}
        <5>1. core = [p \in Known |-> core[p]]
          BY <1>2 DEF Scale
        <5> QED BY <1>2, <4>1, <5>1
      <4> QED BY <4>1
    <3> QED BY <1>2, <3>1
  <2>2. PICK s \in Known : freq_map[s] = base_freq
    BY <2>1 DEF WorkInv
  <2>3. ASSUME NEW p \in Known PROVE Divides(k, Scale[p])
    <3>1. Scale[p] \in Nat
      <4>1. PICK m \in Nat \ {0} : Scale[p] = m * freq_map[p].n
        BY <1>2, ScaleParts
      <4>2. freq_map[p].n \in Nat \ {0}
        BY <1>2, LowestParts DEF FreqOK
      <4> QED BY <4>1, <4>2
    <3>2. Scale[p] % k = 0
      BY <1>2
    <3> DEFINE n == Scale[p]
    <3>3. n \in Nat /\ n % k = 0 /\ k \in Nat \ {0}
      BY <3>1, <3>2
    <3> HIDE DEF n
    <3>4. n \div k \in Nat /\ n = k * (n \div k)
      BY <3>3, Remainder
    <3> QED BY <3>4 DEF Divides, n
  <2>4. k = 1
    BY <1>2, <2>2, <2>3, ScaleIsLeast
  <2> QED BY <2>4
<1> QED
  BY <1>1, <1>2, Accepted

(* The work stopped at a connection that does not fit its ends: then none  *)
(* of the frequencies that are in proportion to theirs balances it.        *)
LEMMA RejectedUnbalanced ==
  ASSUME WorkInv, RatioInv, ResultInv, status = "mismatch", NEW f \in [pipe.procs -> Nat \ {0}]
  PROVE  \E c \in RegularConnections : ~Balanced(f, c)
<1> SUFFICES ASSUME \A c \in RegularConnections : Balanced(f, c) PROVE FALSE
  OBVIOUS
<1> DEFINE c == connection
           x == freq_map[c.up]
           y == freq_map[c.down]
<1>1. /\ unchecked # <<>> /\ Regular(c) /\ c.up \in Known /\ c.down \in Known
      /\ y # ExpectedDown(c, x)
  BY DEF ResultInv, Agree
<1>2. c \in RegularConnections /\ RegularEnds(c)
  BY <1>1, FrontParts, ConnectionParts DEF WorkInv, RegularConnections
<1>3. Lowest(x) /\ Lowest(y) /\ f[c.up] \in Nat \ {0} /\ f[c.down] \in Nat \ {0} /\ Balanced(f, c)
  BY <1>1, <1>2 DEF WorkInv
<1>4. Proportional(f[c.up], x, f[c.down], y)
  BY <1>1 DEF RatioInv
<1> HIDE DEF c, x, y
<1>5. Fits(c, x, y)
  BY <1>2, <1>3, <1>4, ProportionalEnds
<1>6. Lowest(ExpectedDown(c, x)) /\ Fits(c, x, ExpectedDown(c, x))
  BY <1>2, <1>3, ExpectedFits
<1>7. y = ExpectedDown(c, x)
  BY <1>2, <1>3, <1>5, <1>6, FitsSame
<1> QED
  BY <1>1, <1>7 DEF c, x, y

-----------------------------------------------------------------------------
(* A pipeline that check_port_frequencies accepts runs, for every pipeline *)
(* and every order of its connections: each process that regular ports     *)
(* join to the first has a positive core frequency, and each connection of *)
(* regular ports is fed as many data as are read from it.                  *)
THEOREM AcceptedRuns == CheckSpec => []AcceptedIsBalanced
<1>1. WorkInv /\ RatioInv /\ ResultInv => AcceptedIsBalanced
  BY AcceptedBalances
<1> QED
  BY <1>1, WorkHolds, PTL

(* No process runs more often than it must: no number but 1 divides every  *)
(* core frequency that check_port_frequencies assigns.                     *)
THEOREM CoreFrequenciesSmallest ==
  CheckSpec => [](SmallestFrequencies /\ (status = "done" /\ core # <<>> =>
                    \A k \in Nat \ {0, 1} : \E p \in DOMAIN core : core[p] % k # 0))
<1>1. WorkInv /\ RatioInv /\ ResultInv =>
        (status = "done" /\ core # <<>> =>
           \A k \in Nat \ {0, 1} : \E p \in DOMAIN core : core[p] % k # 0)
  BY SmallestFrequency
<1>2. (status = "done" /\ core # <<>> =>
        \A k \in Nat \ {0, 1} : \E p \in DOMAIN core : core[p] % k # 0) => SmallestFrequencies
  BY DEF SmallestFrequencies
<1> QED
  BY <1>1, <1>2, WorkHolds, PTL

(* frequency_mismatch_exception is never thrown in error: no frequencies   *)
(* whatever, up to 8 or above, balance the pipeline that is rejected.      *)
THEOREM MismatchIsReal ==
  CheckSpec => [](RejectedIsUnbalanced /\ (status = "mismatch" =>
                    \A f \in [pipe.procs -> Nat \ {0}] :
                      \E c \in RegularConnections : ~Balanced(f, c)))
<1>1. WorkInv /\ RatioInv /\ ResultInv =>
        (status = "mismatch" =>
           \A f \in [pipe.procs -> Nat \ {0}] : \E c \in RegularConnections : ~Balanced(f, c))
  BY RejectedUnbalanced
<1>2. (status = "mismatch" =>
         \A f \in [pipe.procs -> Nat \ {0}] : \E c \in RegularConnections : ~Balanced(f, c))
      => RejectedIsUnbalanced
  <2> SUFFICES ASSUME status = "mismatch",
                      \A f \in [pipe.procs -> Nat \ {0}] : \E c \in RegularConnections : ~Balanced(f, c),
                      NEW f \in [pipe.procs -> 1..8]
               PROVE  \E c \in RegularConnections : ~Balanced(f, c)
    BY DEF RejectedIsUnbalanced
  <2>1. f \in [pipe.procs -> Nat \ {0}]
    <3>1. \A n \in 1..8 : n \in Nat \ {0}
      OBVIOUS
    <3> QED BY <3>1
  <2> QED BY <2>1
<1> QED
  BY <1>1, <1>2, WorkHolds, PTL
=============================================================================
