---------------------------- MODULE Frequencies ----------------------------
(***************************************************************************)
(* The last check of pipeline::setup_pipeline (sprokit/pipeline/           *)
(* pipeline.cxx, check_port_frequencies): from the frequencies of the      *)
(* ports it computes how often each process has to run, or rejects the     *)
(* pipeline.  The result is the core frequency of Dataflow.                *)
(*                                                                         *)
(* A step of the model handles one connection of the work list.  Rational  *)
(* numbers are records [n, d] in lowest terms, as boost::rational has them.*)
(***************************************************************************)
EXTENDS Naturals, Sequences, FiniteSetsExt

CONSTANT Pipelines   \* [procs, connections], each connection [up, down, upf, downf]

Rationals == [n : Nat, d : Nat \ {0}]

(* A connection from a process to itself, of unequal frequencies, would    *)
(* pass unseen if it came first; it is possible only over a nodep port.    *)
ASSUME FrequenciesAssumption ==
  \A p \in Pipelines :
    /\ IsFiniteSet(p.procs) /\ p.procs # {}
    /\ p.connections \in Seq([up : p.procs, down : p.procs, upf : Rationals, downf : Rationals])
    /\ \A i \in DOMAIN p.connections : p.connections[i].up # p.connections[i].down

VARIABLES
  pipe,       \* the pipeline that is set up
  unchecked,  \* unchecked_connections, a queue
  freq_map,   \* the frequencies found so far, a function of some processes
  status,     \* "checking", "done" or "mismatch"
  core        \* process::priv::core_frequency, a function of some processes

checkVars == <<pipe, unchecked, freq_map, status, core>>

(* The loop of gcd: b is replaced by the remainder and a by b.             *)
gcd_loop[b \in Nat] == [a \in Nat |-> IF b = 0 THEN a ELSE gcd_loop[a % b][b]]

gcd(a, b) == gcd_loop[b][a]
lcm(a, b) == LET temp == gcd(a, b) IN IF temp = 0 THEN 0 ELSE (a \div temp) * b

Reduced(n, d) == [n |-> n \div gcd(n, d), d |-> d \div gcd(n, d)]
Times(x, y)   == Reduced(x.n * y.n, x.d * y.d)
Over(x, y)    == Reduced(x.n * y.d, x.d * y.n)
base_freq     == [n |-> 1, d |-> 1]
IsZero(x)     == x.n = 0

CheckInit ==
  /\ pipe \in Pipelines
  /\ unchecked = pipe.connections
  /\ freq_map = << >> /\ core = << >>
  /\ status = "checking"

Known == DOMAIN freq_map
Extend(p, x) == [r \in Known \cup {p} |-> IF r = p THEN x ELSE freq_map[r]]

connection == Head(unchecked)
Regular(c)  == ~IsZero(c.upf) /\ ~IsZero(c.downf)

(* What one end of a connection must run at, given the other.              *)
ExpectedDown(c, x) == Over(Times(x, c.upf), c.downf)

(* Mistake: the ratio is applied the wrong way round.                      *)
ExpectedUp_Inverted(c, x) == Over(Times(x, c.upf), c.downf)

ExpectedUp(c, x) == Over(Times(x, c.downf), c.upf)

Checking == status = "checking" /\ Cardinality(pipe.procs) > 1 /\ unchecked # << >>

Popped == unchecked' = Tail(unchecked) /\ UNCHANGED <<pipe, status, core>>

-----------------------------------------------------------------------------
(* A pipeline of one process has nothing to agree on.                      *)
OnlyProcess ==
  /\ status = "checking" /\ Cardinality(pipe.procs) = 1
  /\ core' = [p \in pipe.procs |-> 1]
  /\ status' = "done"
  /\ UNCHANGED <<pipe, unchecked, freq_map>>

(* "Edge frequency cannot be validated."                                   *)
Skip ==
  /\ Checking /\ ~Regular(connection)
  /\ Popped
  /\ UNCHANGED freq_map

(* The first connection sets its upstream process to 1.                    *)
Seed ==
  /\ Checking /\ Regular(connection) /\ Known = {}
  /\ freq_map' = [p \in {connection.up, connection.down} |->
                    IF p = connection.up THEN base_freq ELSE ExpectedDown(connection, base_freq)]
  /\ Popped

PropagateDown ==
  /\ Checking /\ Regular(connection) /\ connection.up \in Known /\ connection.down \notin Known
  /\ freq_map' = Extend(connection.down, ExpectedDown(connection, freq_map[connection.up]))
  /\ Popped

(* Mistake: a connection is put off until its upstream process is known.   *)
PropagateUp_PutOff ==
  /\ Checking /\ Regular(connection) /\ connection.down \in Known /\ connection.up \notin Known
  /\ unchecked' = Append(Tail(unchecked), connection)
  /\ UNCHANGED <<pipe, freq_map, status, core>>

PropagateUp ==
  /\ Checking /\ Regular(connection) /\ connection.down \in Known /\ connection.up \notin Known
  /\ freq_map' = Extend(connection.up, ExpectedUp(connection, freq_map[connection.down]))
  /\ Popped

BothKnown == Checking /\ Regular(connection) /\ {connection.up, connection.down} \subseteq Known

Agree == freq_map[connection.down] = ExpectedDown(connection, freq_map[connection.up])

(* Mistake: two known frequencies are not compared.                        *)
Validate_Always ==
  /\ BothKnown
  /\ Popped
  /\ UNCHANGED freq_map

Validate ==
  /\ BothKnown /\ Agree
  /\ Popped
  /\ UNCHANGED freq_map

(* frequency_mismatch_exception.                                           *)
Mismatch ==
  /\ BothKnown /\ ~Agree
  /\ status' = "mismatch"
  /\ UNCHANGED <<pipe, unchecked, freq_map, core>>

(* "Not part of the already-checked parts."                                *)
Requeue ==
  /\ Checking /\ Regular(connection) /\ Known # {} /\ {connection.up, connection.down} \cap Known = {}
  /\ unchecked' = Append(Tail(unchecked), connection)
  /\ UNCHANGED <<pipe, freq_map, status, core>>

(* Mistake: the product of the denominators instead of their multiple.     *)
Scale_ByProduct ==
  LET factor == FoldSet(LAMBDA x, y : x * y, 1, {freq_map[p].d : p \in Known})
  IN  [p \in Known |-> Times([n |-> factor, d |-> 1], freq_map[p]).n]

(* The least common multiple of all denominators, process by process.      *)
freq_gcd ==
  LET over[S \in SUBSET Known] ==
        IF S = {} THEN 1
        ELSE LET p == CHOOSE p \in S : TRUE IN lcm(over[S \ {p}], freq_map[p].d)
  IN  over[Known]

(* All frequencies are multiplied so that they are whole numbers.          *)
Scale ==
  LET factor == [n |-> freq_gcd, d |-> 1]
  IN  [p \in Known |-> Times(factor, freq_map[p]).n]

SetCoreFrequencies ==
  /\ status = "checking" /\ Cardinality(pipe.procs) > 1 /\ unchecked = << >>
  /\ core' = Scale
  /\ status' = "done"
  /\ UNCHANGED <<pipe, unchecked, freq_map>>

Finished == status # "checking" /\ UNCHANGED checkVars

Algorithm ==
  \/ OnlyProcess \/ Skip \/ Seed \/ PropagateDown \/ PropagateUp
  \/ Validate \/ Mismatch \/ Requeue \/ SetCoreFrequencies

CheckNext == Algorithm \/ Finished

CheckSpec     == CheckInit /\ [][CheckNext]_checkVars
FairCheckSpec == CheckSpec /\ WF_checkVars(Algorithm)

-----------------------------------------------------------------------------
Connections == {pipe.connections[i] : i \in DOMAIN pipe.connections}

(* Both ends of a connection of regular ports see as many data.            *)
Balanced(f, c) ==
  f[c.up] * c.upf.n * c.downf.d = f[c.down] * c.downf.n * c.upf.d

RegularConnections == {c \in Connections : Regular(c)}

(* The processes that regular connections join to the first of them.       *)
Joined ==
  {p \in pipe.procs : \A S \in SUBSET pipe.procs :
     /\ \A i \in DOMAIN pipe.connections :
          (/\ Regular(pipe.connections[i])
           /\ \A j \in 1..(i - 1) : ~Regular(pipe.connections[j]))
            => pipe.connections[i].up \in S
     /\ \A c \in RegularConnections : c.up \in S <=> c.down \in S
     => p \in S}

(* Ports of frequency 0 are all that joins some of the processes of        *)
(* regular ports to the others.                                            *)
Cut == \E c \in RegularConnections : c.up \notin Joined

(* A pipeline that is accepted runs: every process that regular ports join *)
(* to the others (all of them, if no port is irregular) has a core         *)
(* frequency, it is positive, and every connection of regular ports        *)
(* carries as many data as are read, whatever the order of the connections.*)
AcceptedIsBalanced ==
  status = "done" =>
    /\ \A p \in Joined : p \in DOMAIN core /\ core[p] > 0
    /\ \A c \in RegularConnections : Balanced(core, c)

(* No process runs more often than it must: the core frequencies have no   *)
(* common divisor.                                                         *)
SmallestFrequencies ==
  (status = "done" /\ core # << >>) =>
    \A k \in 2..16 : \E p \in DOMAIN core : core[p] % k # 0

(* A pipeline is rejected only if no frequencies balance it (up to 8).     *)
RejectedIsUnbalanced ==
  status = "mismatch" =>
    ~\E f \in [pipe.procs -> 1..8] : \A c \in RegularConnections : Balanced(f, c)

(* The check returns or throws, unless ports of frequency 0 cut the        *)
(* pipeline: then connections are put back in the work list for ever       *)
(* (process.h:987 promises that such ports are merely left out).           *)
CheckEnds == <>(status # "checking" \/ Cut)
=============================================================================
