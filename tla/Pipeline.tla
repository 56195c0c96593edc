------------------------------ MODULE Pipeline ------------------------------
(***************************************************************************)
(* How an application builds, sets up, runs and resets a pipeline          *)
(* (sprokit/pipeline/pipeline.cxx), and how the types of its ports are     *)
(* found meanwhile (process::set_input_port_type and its twin).            *)
(*                                                                         *)
(* connect keeps a connection whose types are not known yet in one of four *)
(* lists; each stage of setup_pipeline takes a list and calls connect      *)
(* again, which may put the connection into another list.  A step of the   *)
(* model is one such call, or the work of a stage between two calls.       *)
(***************************************************************************)
EXTENDS Naturals, Sequences, FiniteSets, SequencesExt, Lists

CONSTANTS
  Procs,          \* the processes, in the order of process_map
  Clusters,       \* the clusters
  Outputs, Inputs,\* the output and the input ports, those of clusters too
  Owner,          \* per port, its process or cluster
  Mapping,        \* per port of a cluster, the ports that it stands for
  Declared,       \* per port, the type it is declared with
  Tag,            \* per port, the tag of its flow-dependent type, or NoTag
  NoTag,          \* no tag
  Provides,       \* per data-dependent port, the type that _configure gives it
  Redeclares,     \* the processes whose _reset declares their ports anew
  Const, Shared,  \* the outputs with flag_output_const, flag_output_shared
  Mutable, Nodep, \* the inputs with flag_input_mutable, flag_input_nodep
  Required,       \* the ports with flag_required
  Wanted,         \* the connections that the application may ask for
  MayDisconnect,  \* those that it may take back
  MaxPlanned,     \* bound: the planned connections
  MaxResets       \* bound: the resets

Ports               == Outputs \cup Inputs
ProcSet             == ToSet(Procs)
type_flow_dependent == "flow_dependent"
type_data_dependent == "data_dependent"
type_any            == "any"

(* The data type of an input is never data-dependent.                      *)
ASSUME PipelineAssumption ==
  /\ Procs \in Seq(ProcSet) /\ IsInjective(Procs) /\ ProcSet \cap Clusters = {}
  /\ Owner \in [Ports -> ProcSet \cup Clusters]
  /\ Wanted \subseteq Outputs \X Inputs /\ MayDisconnect \subseteq Wanted
  /\ \A p \in Inputs : Declared[p] # type_data_dependent
  /\ \A p \in Ports : Tag[p] # NoTag => Declared[p] = type_flow_dependent
  /\ Declared \in [Ports -> STRING] /\ Provides \in [DOMAIN Provides -> STRING]
  /\ \A p \in Outputs : Declared[p] = type_data_dependent => p \in DOMAIN Provides
  /\ \A p \in Ports : Owner[p] \in Clusters => Mapping[p] # <<>>
  /\ \A p \in Outputs : Owner[p] \in Clusters => Mapping[p] \in Seq(Outputs) /\ Len(Mapping[p]) = 1
  /\ \A p \in Inputs : Owner[p] \in Clusters => Mapping[p] \in Seq(Inputs)
  /\ MaxPlanned \in Nat /\ MaxResets \in Nat

VARIABLES
  planned_connections, connections, cluster_connections,
  data_dep_connections, untyped_connections, type_pinnings,
  connected_shared_ports, \* the shared outputs marked, and whether as mutable
  type,                   \* per port, its type at the moment
  setup, setup_in_progress, setup_successful, running,
  task,                   \* what setup_pipeline or reset has still to do
  resets,                 \* how often the pipeline was reset
  accepted,               \* history: the connections asked for and not refused
  declared,               \* history: the types when connecting began
  failed                  \* history: whether a reset was broken off

lists == <<connections, cluster_connections, data_dep_connections,
           untyped_connections, type_pinnings, connected_shared_ports>>
flags == <<setup, setup_in_progress, setup_successful, running>>
asked == <<planned_connections, accepted, declared, resets, failed>>
vars  == <<lists, flags, asked, type, task>>

(* The stage; the connections that its loop passes to connect next; what   *)
(* is left of the list it goes through; and for propagate, the processes   *)
(* queued, the one it looks at and the connections it has not seen yet.    *)
Idle == [stage |-> "idle", calls |-> <<>>, work |-> <<>>, kyu |-> <<>>,
         name |-> "", scan |-> <<>>]

InSetup  == task.stage \notin {"idle", "replay"}
AtStage(s) == task.stage = s /\ task.calls = <<>>

NoTypes == [p \in {} |-> FALSE]

Init ==
  /\ planned_connections = <<>> /\ connections = <<>> /\ cluster_connections = <<>>
  /\ data_dep_connections = <<>> /\ untyped_connections = <<>> /\ type_pinnings = <<>>
  /\ connected_shared_ports = NoTypes
  /\ type = Declared
  /\ setup = FALSE /\ setup_in_progress = FALSE /\ setup_successful = FALSE
  /\ running = FALSE
  /\ task = Idle
  /\ resets = 0 /\ accepted = {} /\ declared = Declared /\ failed = FALSE

-----------------------------------------------------------------------------
(* The types of ports.                                                     *)

Tagged(p) ==
  {p} \cup {r \in Ports : Tag[p] # NoTag /\ Tag[r] = Tag[p] /\ Owner[r] = Owner[p]}

(* _set_input_port_type and _set_output_port_type: a type that is known is *)
(* not changed.                                                            *)
Settable(p, t) ==
  t = type[p] \/ type[p] \in {type_data_dependent, type_flow_dependent, type_any}

(* set_input_port_type and set_output_port_type: type_any is never passed  *)
(* on to them, and changes nothing.                                        *)
CanSet(p, t) == t = type_any \/ Settable(p, t)

(* Mistake: the other ports with the tag keep their types.                 *)
Typed_Alone(p, t) ==
  IF t \in {type_any, type[p]} THEN type ELSE [type EXCEPT ![p] = t]

Typed(p, t) ==
  LET touched == IF type[p] = type_flow_dependent THEN Tagged(p) ELSE {p}
  IN  IF t \in {type_any, type[p]} THEN type
      ELSE [r \in Ports |-> IF r \in touched THEN t ELSE type[r]]

-----------------------------------------------------------------------------
(* connect.                                                                *)

OfCluster(c) == Owner[c[1]] \in Clusters \/ Owner[c[2]] \in Clusters

Marked(p) == p \in DOMAIN connected_shared_ports

(* Mistake: a second reader may be mutable.                                *)
check_connection_flags_First(c) ==
  /\ ~(c[1] \in Const /\ c[2] \in Mutable)
  /\ (c[1] \in Shared /\ Marked(c[1])) => ~connected_shared_ports[c[1]]

check_connection_flags(c) ==
  /\ ~(c[1] \in Const /\ c[2] \in Mutable)
  /\ (c[1] \in Shared /\ Marked(c[1])) =>
        c[2] \notin Mutable /\ ~connected_shared_ports[c[1]]

check_connection_types(c) ==
  LET up == type[c[1]]  down == type[c[2]]
  IN  IF up = type_data_dependent THEN "data_dep"
      ELSE IF up = type_flow_dependent /\ down = type_flow_dependent THEN "untyped"
      ELSE IF up = type_flow_dependent THEN "push_upstream"
      ELSE IF down = type_flow_dependent THEN "push_downstream"
      ELSE IF type_any \notin {up, down} /\ up # down THEN "mismatch"
      ELSE "compatible"

(* What connect does with a connection, or the exception it throws.        *)
Outcome(c) ==
  IF OfCluster(c) THEN "cluster"
  ELSE IF ~check_connection_flags(c) THEN "flags"
  ELSE check_connection_types(c)

Refused(c) == Outcome(c) \in {"flags", "mismatch"}

Put(list, c, outcomes) == IF Outcome(c) \in outcomes THEN Append(list, c) ELSE list

(* The effect of connect on the lists.  A shared port is marked before the *)
(* types are looked at.                                                    *)
Connect(c) ==
  /\ connections' = Put(connections, c, {"compatible"})
  /\ cluster_connections' = Put(cluster_connections, c, {"cluster"})
  /\ data_dep_connections' = Put(data_dep_connections, c, {"data_dep"})
  /\ untyped_connections' = Put(untyped_connections, c, {"untyped"})
  /\ type_pinnings' =
       IF Outcome(c) \in {"push_upstream", "push_downstream"}
       THEN Append(type_pinnings, <<c, Outcome(c)>>) ELSE type_pinnings
  /\ connected_shared_ports' =
       IF c[1] \in Shared /\ ~Marked(c[1]) /\ Outcome(c) \notin {"cluster", "flags"}
       THEN [p \in DOMAIN connected_shared_ports \cup {c[1]} |->
               IF p = c[1] THEN c[2] \in Mutable ELSE connected_shared_ports[p]]
       ELSE connected_shared_ports

(* A call of connect by the application.  Bound: it asks for a connection  *)
(* once.  What is refused stays among the planned connections.             *)
AskFor(c) ==
  /\ task = Idle /\ (setup => setup_in_progress)
  /\ Len(planned_connections) < MaxPlanned
  /\ c \notin ToSet(planned_connections) \cup accepted
  /\ planned_connections' =
       IF setup_in_progress THEN planned_connections ELSE Append(planned_connections, c)
  /\ Connect(c)
  /\ accepted' = IF Refused(c) THEN accepted ELSE accepted \cup {c}
  /\ UNCHANGED <<flags, type, task, declared, resets, failed>>

Without(list, c) == Chosen(list, ToSet(list) \ {c})

(* disconnect: the type pinnings and the marks are left alone.             *)
Disconnect(c) ==
  /\ task = Idle /\ ~setup
  /\ c \in MayDisconnect /\ c \in ToSet(planned_connections) \cup accepted
  /\ planned_connections' = Without(planned_connections, c)
  /\ connections' = Without(connections, c)
  /\ data_dep_connections' = Without(data_dep_connections, c)
  /\ untyped_connections' = Without(untyped_connections, c)
  /\ cluster_connections' = Without(cluster_connections, c)
  /\ accepted' = accepted \ {c}
  /\ UNCHANGED <<type_pinnings, connected_shared_ports, flags, type, task, declared, resets, failed>>

-----------------------------------------------------------------------------
(* setup_pipeline, and the calls of connect made by it and by reset.       *)

SetupPipeline ==
  /\ task = Idle /\ ~setup
  /\ setup' = TRUE /\ setup_in_progress' = TRUE /\ setup_successful' = FALSE
  /\ task' = [Idle EXCEPT !.stage = "map", !.work = cluster_connections]
  /\ cluster_connections' = <<>>
  /\ UNCHANGED <<connections, data_dep_connections, untyped_connections, type_pinnings,
                 connected_shared_ports, running, asked, type>>

(* An exception: setup_pipeline clears setup_in_progress, reset does not.  *)
(* After a set-up that threw, nothing but a reset reads the lists again.   *)
Throw ==
  /\ task' = Idle
  /\ setup_in_progress' = (task.stage = "replay")
  /\ failed' = (failed \/ task.stage = "replay")
  /\ UNCHANGED <<setup, setup_successful, running, planned_connections, accepted,
                 declared, resets>>

Reconnect ==
  /\ task.calls # <<>>
  /\ Connect(Head(task.calls))
  /\ UNCHANGED type
  /\ IF Refused(Head(task.calls)) THEN Throw
     ELSE /\ task' = [task EXCEPT !.calls = Tail(@)]
          /\ accepted' = IF task.stage = "replay" THEN accepted \cup {Head(task.calls)}
                         ELSE accepted
          /\ UNCHANGED <<flags, planned_connections, declared, resets, failed>>

(* map_cluster_connections: the connection of a cluster's port becomes     *)
(* those of the ports that it stands for, until none is left.              *)
(* Mistake: only the first of the ports is connected.                      *)
Mapped_First(c) ==
  IF Owner[c[1]] \in Clusters THEN <<<<Mapping[c[1]][1], c[2]>>>>
  ELSE <<<<c[1], Mapping[c[2]][1]>>>>

Mapped(c) ==
  IF Owner[c[1]] \in Clusters THEN <<<<Mapping[c[1]][1], c[2]>>>>
  ELSE [i \in DOMAIN Mapping[c[2]] |-> <<c[1], Mapping[c[2]][i]>>]

MapCluster ==
  /\ AtStage("map")
  /\ IF task.work # <<>>
     THEN /\ task' = [task EXCEPT !.calls = Mapped(Head(task.work)), !.work = Tail(@)]
          /\ UNCHANGED cluster_connections
     ELSE /\ task' = IF cluster_connections # <<>>
                     THEN [task EXCEPT !.work = cluster_connections]
                     ELSE [task EXCEPT !.stage = "configure", !.work = Procs]
          /\ cluster_connections' = <<>>
  /\ UNCHANGED <<connections, data_dep_connections, untyped_connections, type_pinnings,
                 connected_shared_ports, flags, asked, type>>

(* configure_processes: process::configure, then the connections that have *)
(* waited for the types of this process.                                   *)
ConfigureProcess ==
  /\ AtStage("configure") /\ task.work # <<>>
  /\ LET name    == Head(task.work)
         waiting == ToSet(data_dep_connections)
         mine    == {c \in waiting : Owner[c[1]] = name}
         now     == [p \in Ports |-> IF Owner[p] = name /\ type[p] = type_data_dependent
                                     THEN Provides[p] ELSE type[p]]
     IN  /\ type' = now
         /\ data_dep_connections' = Chosen(data_dep_connections, waiting \ mine)
         /\ IF \E c \in mine : now[c[1]] = type_data_dependent THEN Throw
            ELSE /\ task' = [task EXCEPT !.calls = Chosen(data_dep_connections, mine),
                                         !.work = Tail(@)]
                 /\ UNCHANGED <<flags, asked>>
  /\ UNCHANGED <<connections, cluster_connections, untyped_connections, type_pinnings,
                 connected_shared_ports>>

(* propagate_pinned_types: the list is taken as a whole, and again as long *)
(* as connect adds to it.                                                  *)
TakePinnings ==
  /\ (AtStage("configure") \/ AtStage("pin")) /\ task.work = <<>>
  /\ task.stage = "pin" => type_pinnings # <<>>
  /\ task' = [task EXCEPT !.stage = "pin", !.work = type_pinnings]
  /\ type_pinnings' = <<>>
  /\ UNCHANGED <<connections, cluster_connections, data_dep_connections,
                 untyped_connections, connected_shared_ports, flags, asked, type>>

Pin ==
  /\ AtStage("pin") /\ task.work # <<>>
  /\ LET c    == Head(task.work)[1]
         push == Head(task.work)[2]
         port == IF push = "push_upstream" THEN c[1] ELSE c[2]
         t    == IF push = "push_upstream" THEN type[c[2]] ELSE type[c[1]]
     IN  IF ~CanSet(port, t) THEN Throw /\ UNCHANGED type
         ELSE /\ type' = Typed(port, t)
              /\ task' = [task EXCEPT !.stage = "propagate", !.kyu = <<Owner[port]>>]
              /\ UNCHANGED <<flags, asked>>
  /\ UNCHANGED lists

(* propagate: the untyped connections of each process that has got a type. *)
NextName ==
  /\ AtStage("propagate") /\ task.scan = <<>> /\ task.kyu # <<>>
  /\ task' = [task EXCEPT !.name = Head(task.kyu), !.kyu = Tail(@),
                          !.scan = untyped_connections]
  /\ untyped_connections' = <<>>
  /\ UNCHANGED <<connections, cluster_connections, data_dep_connections, type_pinnings,
                 connected_shared_ports, flags, asked, type>>

(* The port of the connection at the process, and the port at its end.     *)
Near(c) == IF Owner[c[2]] = task.name THEN c[2] ELSE c[1]
Far(c)  == IF Owner[c[2]] = task.name THEN c[1] ELSE c[2]
Resolves(c) == Owner[Near(c)] = task.name /\ type[Near(c)] # type_flow_dependent

(* Mistake: a connection that is not resolved is not remembered.           *)
Kept_Forgets(c) == <<>>

Kept(c) == IF Resolves(c) THEN <<>> ELSE <<c>>

Propagate ==
  /\ AtStage("propagate") /\ task.scan # <<>>
  /\ LET c == Head(task.scan)
     IN  /\ untyped_connections' = untyped_connections \o Kept(c)
         /\ IF ~Resolves(c)
            THEN /\ task' = [task EXCEPT !.scan = Tail(@)]
                 /\ UNCHANGED <<type, flags, asked>>
            ELSE IF ~CanSet(Far(c), type[Near(c)]) THEN Throw /\ UNCHANGED type
            ELSE /\ type' = Typed(Far(c), type[Near(c)])
                 /\ task' = [task EXCEPT !.scan = Tail(@), !.calls = <<c>>,
                                         !.kyu = Append(@, Owner[Far(c)])]
                 /\ UNCHANGED <<flags, asked>>
  /\ UNCHANGED <<connections, cluster_connections, data_dep_connections, type_pinnings,
                 connected_shared_ports>>

(* Back in propagate_pinned_types: the pinned connection is tried again.   *)
RetryPinned ==
  /\ AtStage("propagate") /\ task.scan = <<>> /\ task.kyu = <<>>
  /\ task' = [task EXCEPT !.stage = "pin", !.calls = <<Head(task.work)[1]>>,
                          !.work = Tail(@)]
  /\ UNCHANGED <<lists, flags, asked, type>>

(* make_connections and the checks on the whole graph: an input has one    *)
(* edge, required ports have one, all processes are connected with each    *)
(* other, and without the nodep inputs no cycle is left.                   *)
Between(c) == <<Owner[c[1]], Owner[c[2]]>>

OneGraph(cs) ==
  \A S \in (SUBSET ProcSet) \ {{}, ProcSet} :
    \E c \in cs : (Between(c)[1] \in S) # (Between(c)[2] \in S)

Acyclic(cs) ==
  \A S \in (SUBSET ProcSet) \ {{}} :
    \E p \in S : \A c \in cs :
      (Between(c)[2] = p /\ c[2] \notin Nodep) => Between(c)[1] \notin S

check_for_required_ports(cs) ==
  /\ \A p \in Required : Owner[p] \in ProcSet => \E c \in cs : p \in {c[1], c[2]}
  /\ OneGraph(cs)

make_connections ==
  \A i, j \in DOMAIN connections : i # j => connections[i][2] # connections[j][2]

FinishSetup ==
  /\ AtStage("pin") /\ task.work = <<>> /\ type_pinnings = <<>>
  /\ IF /\ untyped_connections = <<>> /\ make_connections
        /\ check_for_required_ports(ToSet(connections)) /\ Acyclic(ToSet(connections))
     THEN /\ setup_in_progress' = FALSE /\ setup_successful' = TRUE /\ task' = Idle
          /\ UNCHANGED <<setup, running, asked>>
     ELSE Throw
  /\ UNCHANGED <<lists, type>>

-----------------------------------------------------------------------------
(* A run, and reset.                                                       *)

(* Mistake: a set-up that was refused is good enough.                      *)
Start_Unready ==
  /\ task = Idle /\ setup /\ ~running
  /\ running' = TRUE
  /\ UNCHANGED <<lists, setup, setup_in_progress, setup_successful, asked, type, task>>

Start ==
  /\ task = Idle /\ setup /\ (setup_in_progress \/ setup_successful) /\ ~running
  /\ running' = TRUE
  /\ UNCHANGED <<lists, setup, setup_in_progress, setup_successful, asked, type, task>>

Stop ==
  /\ running /\ running' = FALSE
  /\ UNCHANGED <<lists, setup, setup_in_progress, setup_successful, asked, type, task>>

Reset ==
  /\ task = Idle /\ ~running /\ resets < MaxResets
  /\ resets' = resets + 1
  /\ setup' = FALSE /\ setup_successful' = FALSE /\ setup_in_progress' = TRUE
  /\ connections' = <<>> /\ cluster_connections' = <<>> /\ data_dep_connections' = <<>>
  /\ untyped_connections' = <<>> /\ type_pinnings' = <<>>
  /\ connected_shared_ports' = NoTypes
  /\ type' = [p \in Ports |-> IF Owner[p] \in Redeclares THEN Declared[p] ELSE type[p]]
  /\ declared' = type'
  /\ task' = [Idle EXCEPT !.stage = "replay", !.calls = planned_connections]
  /\ UNCHANGED <<running, planned_connections, accepted, failed>>

EndReset ==
  /\ AtStage("replay")
  /\ setup_in_progress' = FALSE /\ task' = Idle
  /\ UNCHANGED <<lists, setup, setup_successful, running, asked, type>>

Setup ==
  \/ Reconnect \/ MapCluster \/ ConfigureProcess \/ TakePinnings \/ Pin
  \/ NextName \/ Propagate \/ RetryPinned \/ FinishSetup \/ EndReset

Next ==
  \/ \E c \in Wanted : AskFor(c) \/ Disconnect(c)
  \/ SetupPipeline \/ Setup \/ Start \/ Stop \/ Reset

Spec == Init /\ [][Next]_vars

(* The call of setup_pipeline or of reset goes on.                         *)
FairSpec == Spec /\ WF_vars(Setup)

-----------------------------------------------------------------------------
Types == {Declared[p] : p \in Ports} \cup {Provides[p] : p \in DOMAIN Provides}

TypeOK ==
  /\ \A list \in {planned_connections, connections, cluster_connections,
                  data_dep_connections, untyped_connections, task.calls, task.scan} :
        list \in Seq(Outputs \X Inputs)
  /\ type \in [Ports -> Types] /\ declared \in [Ports -> Types]
  /\ DOMAIN connected_shared_ports \subseteq Shared
  /\ task.stage # "idle" => setup_in_progress
  /\ setup_successful => setup /\ ~setup_in_progress
  /\ running => setup_successful

(* The connections between processes that those of the application stand   *)
(* for, when the ports of clusters are replaced.                           *)
Whole(S) == \A p \in S : Owner[p] \in Clusters => ToSet(Mapping[p]) \subseteq S

Leaves ==
  [p \in Ports |-> {r \in Ports : /\ Owner[r] \in ProcSet
                                  /\ \A S \in SUBSET Ports : p \in S /\ Whole(S) => r \in S}]

Flat(cs) == UNION {Leaves[c[1]] \X Leaves[c[2]] : c \in cs}

(* Whatever lists a connection has gone through, a pipeline that is set up *)
(* has each connection that was accepted, once, and no other.  (A reset    *)
(* that throws leaves the rest of its connections out, and with            *)
(* setup_in_progress set connect no longer plans what it is given, so that *)
(* a later reset forgets it: after such a reset nothing is claimed.)       *)
NothingLost ==
  (setup_successful /\ ~failed) =>
    IsInjective(connections) /\ ToSet(connections) = Flat(accepted)

(* What the types must be, said without an order of connections: the ports *)
(* of a flow-dependent group get the one type that the group is connected  *)
(* to.                                                                     *)
Settled(p) == IF declared[p] = type_data_dependent THEN Provides[p] ELSE declared[p]
Flowing    == {p \in Ports : Settled(p) = type_flow_dependent}
Ends(c)    == {c[1], c[2]}

Group(cs, p) ==
  LET flowing == Flowing
      inner   == {Ends(c) : c \in cs} \cap SUBSET flowing
      classes == inner \cup {Tagged(r) \cap flowing : r \in flowing}
      Closed(S) == \A class \in classes : class \subseteq S \/ class \cap S = {}
      around  == {S \in SUBSET flowing : p \in S /\ Closed(S)}
  IN  {r \in flowing : \A S \in around : r \in S}

Pins(cs, p) ==
  LET group == Group(cs, p)
      near  == UNION {Ends(c) : c \in {c \in cs : Ends(c) \cap group # {}}}
  IN  {Settled(r) : r \in near} \ {type_any, type_flow_dependent}

Typable(cs) ==
  /\ \A c \in cs : Settled(c[1]) # type_data_dependent
  /\ \A p \in (UNION {Ends(c) : c \in cs}) \cap Flowing : Cardinality(Pins(cs, p)) = 1
  /\ \A c \in cs :
        LET types == {Settled(p) : p \in Ends(c)}
        IN  {type_any, type_flow_dependent} \cap types = {} => Cardinality(types) = 1

Sharable(cs) ==
  \A c, d \in cs :
    /\ (c # d /\ c[1] = d[1] /\ c[1] \in Shared) => c[2] \notin Mutable
    /\ c[1] \in Const => c[2] \notin Mutable

(* Only one reader of a shared port may be connected if any is mutable,    *)
(* and none that is mutable to a constant one.                             *)
SharingRespected == Sharable(ToSet(connections))

FedOnce(cs) ==
  \A c, d \in cs : c # d => Leaves[c[2]] \cap Leaves[d[2]] = {}

Sound(cs) == Typable(cs) /\ Sharable(cs) /\ check_for_required_ports(cs) /\ Acyclic(cs)

(* The verdict of setup_pipeline and the types it gives depend on the      *)
(* connections and not on the order in which they were made.               *)
VerdictByTypes ==
  LET cs == Flat(accepted)
  IN  (setup /\ ~setup_in_progress /\ ~failed) =>
        /\ setup_successful <=> FedOnce(accepted) /\ Sound(cs)
        /\ setup_successful => \A p \in UNION {Ends(c) : c \in cs} :
              type[p] = IF p \in Flowing THEN CHOOSE t \in Pins(cs, p) : TRUE ELSE Settled(p)

(* A flow-dependent group whose only neighbours take any type: its pinning *)
(* is put back for ever by propagate_pinned_types.                         *)
PinnedByAny ==
  LET cs == Flat(accepted)
  IN  \E c \in cs : {Settled(p) : p \in Ends(c)} = {type_any, type_flow_dependent} /\
        \E p \in Ends(c) \cap Flowing : Pins(cs, p) = {}

(* setup_pipeline returns or throws, except on such a group.  (After a      *)
(* reset that was broken off a group may have lost what would pin it.)      *)
SetupEnds == InSetup ~> (task = Idle \/ PinnedByAny \/ failed)

(* The ports of a connection that was taken back are not connected.        *)
StaysDisconnected ==
  (setup_successful /\ ~failed) => ToSet(connections) \subseteq Flat(accepted)
=============================================================================
