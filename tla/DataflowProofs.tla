---------------------------- MODULE DataflowProofs ----------------------------
(***************************************************************************)
(* Theorems about process::step in every pipeline: any number of           *)
(* processes and edges, ports, frequencies and capacities.                 *)
(***************************************************************************)
EXTENDS SyncScheduler, ListsProofs, FiniteSetTheorems

-----------------------------------------------------------------------------
(* The topology: an edge has one process and one port at each end.         *)

PortOf(e) == CHOOSE i \in DOMAIN Outputs[Up(e)] : e \in PortEdges(Outputs[Up(e)][i])

(* What separates the stamps of two data that follow each other.           *)
Inc(e) == Core[Down(e)] * InFreq[e]

LEMMA PositiveProduct ==
  ASSUME NEW a \in Nat \ {0}, NEW b \in Nat \ {0}
  PROVE  a * b \in Nat \ {0}
OBVIOUS

LEMMA OutputPorts ==
  ASSUME NEW p \in Procs
  PROVE  /\ Len(Outputs[p]) \in Nat /\ DOMAIN Outputs[p] = 1..Len(Outputs[p])
         /\ \A i \in DOMAIN Outputs[p] :
              /\ Outputs[p][i].edges \in Seq(Edges) /\ Outputs[p][i].freq \in Nat \ {0}
              /\ Outputs[p][i].required \in BOOLEAN
              /\ PortEdges(Outputs[p][i]) \subseteq OutputSet(p)
              /\ PortEdges(Outputs[p][i]) \subseteq Edges
<1> DEFINE Port == [edges : Seq(Edges), freq : Nat \ {0}, required : BOOLEAN]
<1>1. Outputs[p] \in Seq(Port)
  BY TopologyAssumption
<1> HIDE DEF Port
<1>2. Len(Outputs[p]) \in Nat /\ DOMAIN Outputs[p] = 1..Len(Outputs[p])
      /\ \A i \in 1..Len(Outputs[p]) : Outputs[p][i] \in Port
  BY <1>1, LenProperties, ElementOfSeq
<1>3. ASSUME NEW i \in DOMAIN Outputs[p]
      PROVE  /\ Outputs[p][i].edges \in Seq(Edges) /\ Outputs[p][i].freq \in Nat \ {0}
             /\ Outputs[p][i].required \in BOOLEAN
             /\ PortEdges(Outputs[p][i]) \subseteq OutputSet(p)
             /\ PortEdges(Outputs[p][i]) \subseteq Edges
  <2> DEFINE o == Outputs[p][i]
  <2>1. o.edges \in Seq(Edges) /\ o.freq \in Nat \ {0} /\ o.required \in BOOLEAN
    BY <1>2, <1>3 DEF Port
  <2> HIDE DEF o
  <2>2. PortEdges(o) \subseteq Edges
    BY <2>1, LenProperties, ElementOfSeq DEF PortEdges
  <2>3. PortEdges(o) \subseteq OutputSet(p)
    BY <1>3 DEF OutputSet, o
  <2> QED BY <2>1, <2>2, <2>3 DEF o
<1> QED
  BY <1>2, <1>3

LEMMA InputPorts ==
  ASSUME NEW p \in Procs
  PROVE  /\ Len(Inputs[p]) \in Nat /\ DOMAIN Inputs[p] = 1..Len(Inputs[p])
         /\ InputSet(p) \subseteq Edges
<1>1. Inputs[p] \in Seq(Edges)
  BY TopologyAssumption
<1> QED
  BY <1>1, LenProperties, ElementOfSeq DEF InputSet

LEMMA EdgeEnds ==
  /\ \A e \in Edges : Up(e) \in Procs /\ e \in OutputSet(Up(e)) /\ Down(e) \in Procs /\ e \in InputSet(Down(e))
  /\ \A p \in Procs : \A e \in OutputSet(p) : e \in Edges /\ Up(e) = p
  /\ \A p \in Procs : \A e \in InputSet(p) : e \in Edges /\ Down(e) = p
<1>1. \A p \in Procs : \A e \in OutputSet(p) : e \in Edges
  BY OutputPorts DEF OutputSet
<1>2. \A p \in Procs : \A e \in InputSet(p) : e \in Edges
  BY InputPorts
<1>3. ASSUME NEW e \in Edges
      PROVE  Up(e) \in Procs /\ e \in OutputSet(Up(e)) /\ Down(e) \in Procs /\ e \in InputSet(Down(e))
  <2>1. PICK p \in Procs, r \in Procs : e \in OutputSet(p) /\ e \in InputSet(r)
    BY TopologyAssumption
  <2> QED BY <2>1, Zenon DEF Up, Down
<1>4. \A p, r \in Procs :
        p # r => InputSet(p) \cap InputSet(r) = {} /\ OutputSet(p) \cap OutputSet(r) = {}
  BY TopologyAssumption
<1>5. ASSUME NEW p \in Procs, NEW e \in OutputSet(p) PROVE Up(e) = p
  <2>1. Up(e) \in Procs /\ e \in OutputSet(Up(e))
    BY <1>1, <1>3
  <2> QED BY <2>1, <1>4
<1>6. ASSUME NEW p \in Procs, NEW e \in InputSet(p) PROVE Down(e) = p
  <2>1. Down(e) \in Procs /\ e \in InputSet(Down(e))
    BY <1>2, <1>3
  <2> QED BY <2>1, <1>4
<1> QED
  BY <1>1, <1>2, <1>3, <1>5, <1>6

LEMMA PortOfEdge ==
  ASSUME NEW p \in Procs, NEW e \in OutputSet(p)
  PROVE  /\ PortOf(e) \in DOMAIN Outputs[p] /\ e \in PortEdges(Outputs[p][PortOf(e)])
         /\ \A i \in DOMAIN Outputs[p] : e \in PortEdges(Outputs[p][i]) => i = PortOf(e)
<1>1. Up(e) = p
  BY EdgeEnds
<1>2. PICK i \in DOMAIN Outputs[p] : e \in PortEdges(Outputs[p][i])
  BY DEF OutputSet
<1>3. PortOf(e) \in DOMAIN Outputs[p] /\ e \in PortEdges(Outputs[p][PortOf(e)])
  BY <1>1, <1>2, Zenon DEF PortOf
<1>4. \A k, h \in DOMAIN Outputs[p] :
        k # h => PortEdges(Outputs[p][k]) \cap PortEdges(Outputs[p][h]) = {}
  BY TopologyAssumption
<1> QED
  BY <1>3, <1>4

LEMMA IncOfEdge ==
  ASSUME NEW e \in Edges
  PROVE  /\ Inc(e) \in Nat \ {0} /\ InFreq[e] \in Nat \ {0} /\ Core[Down(e)] \in Nat \ {0}
         /\ Increment(Up(e), PortOf(e)) = Inc(e)
<1>1. Up(e) \in Procs /\ Down(e) \in Procs /\ e \in OutputSet(Up(e))
  BY EdgeEnds
<1>2. Core[Down(e)] \in Nat \ {0} /\ InFreq[e] \in Nat \ {0}
  BY <1>1, TopologyAssumption, DataflowAssumption
<1>3. Inc(e) \in Nat \ {0}
  BY <1>2, PositiveProduct DEF Inc
<1>4. PortOf(e) \in DOMAIN Outputs[Up(e)] /\ e \in PortEdges(Outputs[Up(e)][PortOf(e)])
  BY <1>1, PortOfEdge
<1>5. Core[Up(e)] * Outputs[Up(e)][PortOf(e)].freq = Core[Down(e)] * InFreq[e]
  BY <1>1, <1>4, DataflowAssumption
<1> QED
  BY <1>2, <1>3, <1>5 DEF Increment, Inc

LEMMA IncrementNat ==
  ASSUME NEW p \in Procs, NEW i \in DOMAIN Outputs[p]
  PROVE  Increment(p, i) \in Nat \ {0}
BY PositiveProduct, OutputPorts, TopologyAssumption DEF Increment

-----------------------------------------------------------------------------
(* The pushes of a step.                                                   *)

PushCalls(es) == [op : {"push"}, edge : es, datum : Data]
PushOf(e, t, s) == [op |-> "push", edge |-> e, datum |-> [type |-> t, stamp |-> s]]

Stamps == DOMAIN stamp = Procs /\ \A p \in Procs : stamp[p] \in [DOMAIN Outputs[p] -> Nat]

LEMMA TimesNat ==
  ASSUME NEW p \in Procs, NEW i \in DOMAIN Outputs[p], NEW t \in Types
  PROVE  /\ Times(p, i, t) \in Nat \ {0}
         /\ t \in {"flush", "complete"} => Times(p, i, t) = 1
BY OutputPorts DEF Times, Rank, Types

(* The stamp of the r-th push at a port.                                   *)
StampAt(p, i, r) == stamp[p][i] + (r - 1) * Increment(p, i)

LEMMA StampSteps ==
  ASSUME NEW n \in Nat, NEW d \in Nat \ {0}, NEW r \in Nat \ {0}, NEW s \in Nat \ {0}
  PROVE  /\ n + (r - 1) * d \in Nat
         /\ n + (r - 1) * d >= n
         /\ n + (1 - 1) * d = n
         /\ (n + (r - 1) * d) + d = n + r * d
         /\ r * d \in Nat
         /\ r < s => n + (r - 1) * d < n + (s - 1) * d
<1>1. (r - 1) * d \in Nat /\ (s - 1) * d \in Nat /\ r * d \in Nat
  OBVIOUS
<1>2. (r - 1) * d + d = r * d
  OBVIOUS
<1>3. ASSUME r < s PROVE (r - 1) * d < (s - 1) * d
  <2>1. s - r \in Nat \ {0}
    BY <1>3
  <2>2. (s - r) * d \in Nat \ {0}
    BY <2>1, PositiveProduct
  <2>3. (s - 1) * d = (r - 1) * d + (s - r) * d
    OBVIOUS
  <2> QED BY <1>1, <2>2, <2>3
<1> QED
  BY <1>1, <1>2, <1>3

(* Pushes to the same edge carry increasing stamps.                        *)
Increasing(s) ==
  \A j, l \in 1..Len(s) : j < l /\ s[j].edge = s[l].edge => s[j].datum.stamp < s[l].datum.stamp

(* n rounds of pushes to the m edges of e, one after the other.            *)
Rounds(g, n, m, E, e, v, t) ==
  /\ t \in Types /\ n \in Nat /\ m \in Nat /\ e \in [1..m -> E] /\ v \in [1..n -> Nat]
  /\ \A j, l \in 1..m : e[j] = e[l] => j = l
  /\ \A r, h \in 1..n : r < h => v[r] < v[h]
  /\ Len(g) = n
  /\ \A r \in 1..n : /\ g[r] \in Seq(PushCalls(E)) /\ Len(g[r]) = m
                      /\ \A j \in 1..m : g[r][j] = PushOf(e[j], t, v[r])

LEMMA PushesOfRounds ==
  ASSUME NEW g, NEW n, NEW m, NEW E, NEW e, NEW v, NEW t, Rounds(g, n, m, E, e, v, t)
  PROVE  /\ Concat(g) \in Seq(PushCalls(E)) /\ Increasing(Concat(g))
         /\ Elems(Concat(g)) = {PushOf(e[j], t, v[r]) : j \in 1..m, r \in 1..n}
<1> DEFINE T == PushCalls(E)
           R == {z \in T \X T : z[1].edge = z[2].edge /\ ~(z[1].datum.stamp < z[2].datum.stamp)}
<1>2. /\ t \in Types /\ n \in Nat /\ m \in Nat /\ e \in [1..m -> E] /\ v \in [1..n -> Nat]
      /\ \A j, l \in 1..m : e[j] = e[l] => j = l
      /\ \A r, h \in 1..n : r < h => v[r] < v[h]
  BY DEF Rounds
<1>3. Len(g) = n /\ Len(g) \in Nat
  BY DEF Rounds
<1>4. ASSUME NEW r \in 1..n
      PROVE  /\ g[r] \in Seq(T) /\ Len(g[r]) = m
             /\ \A j \in 1..m : g[r][j] = PushOf(e[j], t, v[r])
  BY DEF Rounds
<1>1. \A r \in 1..n : \A j \in 1..m : PushOf(e[j], t, v[r]) \in T
  BY <1>2 DEF PushOf, PushCalls, Data
<1> HIDE DEF T
<1>5. \A r \in 1..Len(g) : IsList(g[r])
  BY <1>3, <1>4, ListOfSeq
<1>6. IsList(Concat(g)) /\ Elems(Concat(g)) = UNION {Elems(g[r]) : r \in 1..Len(g)}
  BY <1>3, <1>5, ConcatElements
<1>7. \A r \in 1..n : Elems(g[r]) = {PushOf(e[j], t, v[r]) : j \in 1..m}
  <2> TAKE r \in 1..n
  <2> DEFINE x == g[r]
  <2>1. Len(x) = m /\ \A j \in 1..m : x[j] = PushOf(e[j], t, v[r])
    BY <1>4
  <2> HIDE DEF x
  <2>2. Elems(x) = {PushOf(e[j], t, v[r]) : j \in 1..m}
    BY <2>1 DEF Elems
  <2> QED BY <2>2 DEF x
<1>8. Elems(Concat(g)) = {PushOf(e[j], t, v[r]) : j \in 1..m, r \in 1..n}
  BY <1>3, <1>6, <1>7
<1>9. Concat(g) \in Seq(T)
  <2>1. Elems(Concat(g)) \subseteq T
    BY <1>1, <1>8
  <2> QED BY <1>6, <2>1, SeqOfList
<1>10. \A r \in 1..Len(g) : \A j, l \in 1..Len(g[r]) : j < l => <<g[r][j], g[r][l]>> \notin R
  <2> SUFFICES ASSUME NEW r \in 1..n, NEW j \in 1..m, NEW l \in 1..m, j < l
               PROVE  <<g[r][j], g[r][l]>> \notin R
    BY <1>3, <1>4
  <2>1. g[r][j] = PushOf(e[j], t, v[r]) /\ g[r][l] = PushOf(e[l], t, v[r]) /\ e[j] # e[l]
    BY <1>2, <1>4
  <2>2. g[r][j].edge = e[j] /\ g[r][l].edge = e[l]
    BY <2>1 DEF PushOf
  <2> QED BY <2>1, <2>2
<1>11. \A r, h \in 1..Len(g) : r < h =>
         \A j \in 1..Len(g[r]) : \A l \in 1..Len(g[h]) : <<g[r][j], g[h][l]>> \notin R
  <2> SUFFICES ASSUME NEW r \in 1..n, NEW h \in 1..n, r < h, NEW j \in 1..m, NEW l \in 1..m
               PROVE  <<g[r][j], g[h][l]>> \notin R
    BY <1>3, <1>4
  <2>1. g[r][j] = PushOf(e[j], t, v[r]) /\ g[h][l] = PushOf(e[l], t, v[h]) /\ v[r] < v[h]
    BY <1>2, <1>4
  <2>2. g[r][j].datum.stamp = v[r] /\ g[h][l].datum.stamp = v[h]
    BY <2>1 DEF PushOf
  <2> QED BY <2>1, <2>2
<1> HIDE DEF R
<1>12. \A j, l \in 1..Len(Concat(g)) : j < l => <<Concat(g)[j], Concat(g)[l]>> \notin R
  BY <1>3, <1>5, <1>10, <1>11, ConcatUnrelated
<1>13. ASSUME NEW j \in 1..Len(Concat(g)), NEW l \in 1..Len(Concat(g)), j < l,
              Concat(g)[j].edge = Concat(g)[l].edge
       PROVE  Concat(g)[j].datum.stamp < Concat(g)[l].datum.stamp
  <2>1. Concat(g)[j] \in T /\ Concat(g)[l] \in T
    BY <1>9, ElementOfSeq
  <2>2. <<Concat(g)[j], Concat(g)[l]>> \notin R
    BY <1>12, <1>13
  <2> QED BY <1>13, <2>1, <2>2 DEF R
<1> QED
  BY <1>8, <1>9, <1>13 DEF T, Increasing

(* The pushes of a step at one port, and at all ports.                     *)
PortCalls(p, i, t) ==
  {PushOf(e, t, StampAt(p, i, r)) : e \in PortEdges(Outputs[p][i]), r \in 1..Times(p, i, t)}

LEMMA PortPushesShape ==
  ASSUME Stamps, NEW p \in Procs, NEW i \in DOMAIN Outputs[p], NEW t \in Types
  PROVE  /\ PortPushes(p, i, t) \in Seq(PushCalls(PortEdges(Outputs[p][i])))
         /\ Elems(PortPushes(p, i, t)) = PortCalls(p, i, t)
         /\ Increasing(PortPushes(p, i, t))
<1> DEFINE n  == Times(p, i, t)
           es == PortEdges(Outputs[p][i])
           f  == Outputs[p][i].edges
           m  == Len(f)
           v  == [r \in 1..n |-> StampAt(p, i, r)]
           g  == [r \in 1..n |-> [j \in 1..m |-> PushOf(f[j], t, v[r])]]
<1>1. f \in Seq(Edges) /\ m \in Nat /\ DOMAIN f = 1..m /\ es = {f[j] : j \in 1..m} /\ f \in [1..m -> es]
  BY OutputPorts, LenProperties DEF PortEdges
<1>2. n \in Nat \ {0}
  BY TimesNat
<1>3. v \in [1..n -> Nat]
  BY <1>2, IncrementNat, StampSteps DEF StampAt, Stamps
<1>4. \A j, l \in 1..m : f[j] = f[l] => j = l
  BY <1>1, TopologyAssumption
<1>5. \A r, h \in 1..n : r < h => v[r] < v[h]
  BY <1>2, IncrementNat, StampSteps DEF StampAt, Stamps
<1>6. PortPushes(p, i, t) = Concat(g)
  BY <1>1 DEF PortPushes, PushOf, StampAt
<1>7. \A r \in 1..n : v[r] = StampAt(p, i, r)
  OBVIOUS
<1>8. /\ Len(g) = n
      /\ \A r \in 1..n : g[r] \in Seq(PushCalls(es)) /\ Len(g[r]) = m
      /\ \A r \in 1..n : \A j \in 1..m : g[r][j] = PushOf(f[j], t, v[r])
  <2> HIDE DEF n, es, f, m, v
  <2>1. \A r \in 1..n : \A j \in 1..m : PushOf(f[j], t, v[r]) \in PushCalls(es)
    BY <1>1, <1>3 DEF PushOf, PushCalls, Data
  <2>2. g \in [1..n -> [1..m -> PushCalls(es)]]
    BY <2>1
  <2>3. Len(g) = n
    BY <1>2, <2>2, IsASeq, LenProperties
  <2>4. \A r \in 1..n : g[r] \in [1..m -> PushCalls(es)]
    BY <2>2
  <2>5. \A r \in 1..n : g[r] \in Seq(PushCalls(es)) /\ Len(g[r]) = m
    BY <1>1, <2>4, IsASeq, LenProperties
  <2> QED BY <2>3, <2>5
<1> HIDE DEF n, es, f, m, v, g
<1>9. /\ Concat(g) \in Seq(PushCalls(es)) /\ Increasing(Concat(g))
      /\ Elems(Concat(g)) = {PushOf(f[j], t, v[r]) : j \in 1..m, r \in 1..n}
  <2>1. Rounds(g, n, m, es, f, v, t)
    BY <1>1, <1>2, <1>3, <1>4, <1>5, <1>8 DEF Rounds
  <2> QED BY <2>1, PushesOfRounds
<1>10. {PushOf(f[j], t, v[r]) : j \in 1..m, r \in 1..n} = {PushOf(e, t, StampAt(p, i, r)) : e \in es, r \in 1..n}
  BY <1>1, <1>7
<1> DEFINE A == {PushOf(f[j], t, v[r]) : j \in 1..m, r \in 1..n}
           B == {PushOf(e, t, StampAt(p, i, r)) : e \in es, r \in 1..n}
<1>a. A = B /\ Elems(Concat(g)) = A
  <2>1. A = B
    BY <1>10
  <2>2. Elems(Concat(g)) = A
    BY <1>9
  <2> QED BY <2>1, <2>2
<1>11. Elems(PortPushes(p, i, t)) = PortCalls(p, i, t)
  <2>1. Elems(PortPushes(p, i, t)) = B
    <3> HIDE DEF A, B
    <3> QED BY <1>6, <1>a
  <2>2. PortCalls(p, i, t) = B
    BY DEF n, es, PortCalls
  <2> HIDE DEF A, B
  <2> QED BY <2>1, <2>2
<1> QED
  BY <1>6, <1>9, <1>11 DEF es

LEMMA PushesShape ==
  ASSUME Stamps, NEW p \in Procs, NEW t \in Types
  PROVE  /\ Pushes(p, t) \in Seq(PushCalls(OutputSet(p)))
         /\ Elems(Pushes(p, t)) = UNION {PortCalls(p, i, t) : i \in DOMAIN Outputs[p]}
         /\ Increasing(Pushes(p, t))
<1> DEFINE g == [i \in DOMAIN Outputs[p] |-> PortPushes(p, i, t)]
           n == Len(Outputs[p])
           T == PushCalls(OutputSet(p))
           R == {z \in T \X T : z[1].edge = z[2].edge /\ ~(z[1].datum.stamp < z[2].datum.stamp)}
<1>1. n \in Nat /\ DOMAIN Outputs[p] = 1..n
  BY OutputPorts
<1>2. \A i \in 1..n : /\ PortPushes(p, i, t) \in Seq(PushCalls(PortEdges(Outputs[p][i])))
                        /\ Elems(PortPushes(p, i, t)) = PortCalls(p, i, t)
                        /\ Increasing(PortPushes(p, i, t))
  BY <1>1, PortPushesShape
<1>3. \A i \in 1..n : g[i] = PortPushes(p, i, t)
  BY <1>1
<1>4. Len(g) = n
  <2> HIDE DEF n
  <2> QED BY <1>1
<1>5. Pushes(p, t) = Concat(g)
  BY Zenon DEF Pushes
<1> HIDE DEF g, n
<1>6. \A i \in 1..n : /\ g[i] \in Seq(PushCalls(PortEdges(Outputs[p][i])))
                        /\ Elems(g[i]) = PortCalls(p, i, t) /\ IsList(g[i]) /\ Increasing(g[i])
  BY <1>2, <1>3, ListOfSeq
<1>7. IsList(Concat(g)) /\ Elems(Concat(g)) = UNION {Elems(g[i]) : i \in 1..Len(g)}
  BY <1>1, <1>4, <1>6, ConcatElements
<1>8. Elems(Concat(g)) = UNION {PortCalls(p, i, t) : i \in 1..n}
  BY <1>4, <1>6, <1>7
<1>9. ASSUME NEW i \in 1..n, NEW j \in 1..Len(g[i])
      PROVE  g[i][j] \in T /\ g[i][j].edge \in PortEdges(Outputs[p][i])
  <2>1. g[i][j] \in PushCalls(PortEdges(Outputs[p][i]))
    BY <1>6, ElementOfSeq
  <2>2. PortEdges(Outputs[p][i]) \subseteq OutputSet(p)
    BY <1>1, OutputPorts
  <2> QED BY <2>1, <2>2 DEF PushCalls
<1>10. Concat(g) \in Seq(T)
  <2>1. \A i \in 1..n : Elems(g[i]) \subseteq T
    BY <1>9 DEF Elems
  <2>2. Elems(Concat(g)) \subseteq T
    BY <1>4, <1>7, <2>1
  <2> QED BY <1>7, <2>2, SeqOfList
<1>11. \A i \in 1..Len(g) : \A j, l \in 1..Len(g[i]) : j < l => <<g[i][j], g[i][l]>> \notin R
  BY <1>4, <1>6 DEF Increasing
<1>12. \A i, h \in 1..Len(g) : i < h =>
         \A j \in 1..Len(g[i]) : \A l \in 1..Len(g[h]) : <<g[i][j], g[h][l]>> \notin R
  <2> SUFFICES ASSUME NEW i \in 1..n, NEW h \in 1..n, i < h, i # h,
                      NEW j \in 1..Len(g[i]), NEW l \in 1..Len(g[h])
               PROVE  <<g[i][j], g[h][l]>> \notin R
    BY <1>4
  <2>0. \A k, m \in DOMAIN Outputs[p] :
          k # m => PortEdges(Outputs[p][k]) \cap PortEdges(Outputs[p][m]) = {}
    BY TopologyAssumption
  <2>1. PortEdges(Outputs[p][i]) \cap PortEdges(Outputs[p][h]) = {}
    BY <1>1, <2>0, Zenon
  <2>2. g[i][j].edge # g[h][l].edge
    BY <1>9, <2>1
  <2> QED BY <2>2
<1> HIDE DEF R
<1>13. \A j, l \in 1..Len(Concat(g)) : j < l => <<Concat(g)[j], Concat(g)[l]>> \notin R
  BY <1>1, <1>4, <1>6, <1>11, <1>12, ConcatUnrelated
<1>14. ASSUME NEW j \in 1..Len(Concat(g)), NEW l \in 1..Len(Concat(g)), j < l,
              Concat(g)[j].edge = Concat(g)[l].edge
       PROVE  Concat(g)[j].datum.stamp < Concat(g)[l].datum.stamp
  <2>1. Concat(g)[j] \in T /\ Concat(g)[l] \in T
    BY <1>10, ElementOfSeq
  <2>2. <<Concat(g)[j], Concat(g)[l]>> \notin R
    BY <1>13, <1>14
  <2> QED BY <1>14, <2>1, <2>2 DEF R
<1> QED
  BY <1>1, <1>5, <1>8, <1>10, <1>14 DEF Increasing

-----------------------------------------------------------------------------
(* The calls of a step: no edge is read twice, and what is pushed to an    *)
(* edge carries increasing stamps.                                         *)

Ordered(s) ==
  \A j, l \in 1..Len(s) :
    j < l /\ s[j].op = s[l].op /\ s[j].edge = s[l].edge =>
      s[j].op = "push" /\ s[j].datum.stamp < s[l].datum.stamp

GrabOf(e) == [op |-> "grab", edge |-> e]

LEMMA GrabsShape ==
  ASSUME NEW p \in Procs
  PROVE  /\ Grabs(p) \in Seq([op : {"grab"}, edge : InputSet(p)]) /\ Ordered(Grabs(p))
         /\ Elems(Grabs(p)) = {GrabOf(e) : e \in InputSet(p)}
<1> DEFINE n == Len(Inputs[p])
           T == [op : {"grab"}, edge : InputSet(p)]
<1>1. n \in Nat /\ DOMAIN Inputs[p] = 1..n /\ InputSet(p) = {Inputs[p][i] : i \in 1..n}
  BY InputPorts DEF InputSet
<1>2. Grabs(p) = [i \in 1..n |-> GrabOf(Inputs[p][i])]
  BY <1>1 DEF Grabs, GrabOf
<1>3. \A i, j \in 1..n : Inputs[p][i] = Inputs[p][j] => i = j
  BY <1>1, TopologyAssumption
<1> HIDE DEF n
<1>4. Grabs(p) \in [1..n -> T]
  BY <1>1, <1>2 DEF GrabOf
<1>5. Grabs(p) \in Seq(T) /\ Len(Grabs(p)) = n
  <2> HIDE DEF T
  <2>1. n \in Nat
    BY <1>1
  <2> QED BY <2>1, <1>4, IsASeq, LenProperties
<1>6. \A i \in 1..n : Grabs(p)[i] = GrabOf(Inputs[p][i]) /\ Grabs(p)[i].edge = Inputs[p][i]
  BY <1>2 DEF GrabOf
<1>7. Ordered(Grabs(p))
  BY <1>3, <1>5, <1>6 DEF Ordered
<1>8. Elems(Grabs(p)) = {GrabOf(e) : e \in InputSet(p)}
  BY <1>1, <1>5, <1>6 DEF Elems
<1> QED
  BY <1>5, <1>7, <1>8

LEMMA PushesOrdered ==
  ASSUME NEW es, NEW s \in Seq(PushCalls(es)), Increasing(s)
  PROVE  Ordered(s) /\ \A i \in 1..Len(s) : s[i].op = "push"
<1>1. \A i \in 1..Len(s) : s[i].op = "push"
  <2> TAKE i \in 1..Len(s)
  <2>1. s[i] \in PushCalls(es)
    BY ElementOfSeq
  <2> QED BY <2>1 DEF PushCalls
<1> QED
  BY <1>1 DEF Ordered, Increasing

LEMMA StartedCalls ==
  ASSUME Stamps, NEW p \in Procs, NEW t \in Types
  PROVE  /\ Grabs(p) \o Pushes(p, t) \in Seq(Calls(p)) /\ Pushes(p, t) \in Seq(Calls(p))
         /\ Grabs(p) \in Seq(Calls(p))
         /\ Ordered(Grabs(p) \o Pushes(p, t)) /\ Ordered(Pushes(p, t)) /\ Ordered(Grabs(p))
         /\ Elems(Pushes(p, t)) = UNION {PortCalls(p, i, t) : i \in DOMAIN Outputs[p]}
         /\ Elems(Grabs(p) \o Pushes(p, t)) = Elems(Grabs(p)) \cup Elems(Pushes(p, t))
<1> DEFINE a == Grabs(p)
           b == Pushes(p, t)
<1>1. a \in Seq([op : {"grab"}, edge : InputSet(p)]) /\ Ordered(a)
  BY GrabsShape
<1>2. b \in Seq(PushCalls(OutputSet(p))) /\ Increasing(b)
      /\ Elems(b) = UNION {PortCalls(p, i, t) : i \in DOMAIN Outputs[p]}
  BY PushesShape
<1> HIDE DEF a, b
<1>3. Ordered(b) /\ \A i \in 1..Len(b) : b[i].op = "push"
  BY <1>2, PushesOrdered
<1>4. \A i \in 1..Len(a) : a[i].op = "grab"
  <2> TAKE i \in 1..Len(a)
  <2>1. a[i] \in [op : {"grab"}, edge : InputSet(p)]
    BY <1>1, ElementOfSeq
  <2> QED BY <2>1
<1>5. a \in Seq(Calls(p))
  <2>1. \A i \in 1..Len(a) : a[i] \in Calls(p)
    BY <1>1, ElementOfSeq DEF Calls
  <2>2. Elems(a) \subseteq Calls(p)
    BY <2>1 DEF Elems
  <2> QED BY <1>1, <2>2, ListOfSeq, SeqOfList
<1>6. b \in Seq(Calls(p))
  <2>1. \A i \in 1..Len(b) : b[i] \in Calls(p)
    BY <1>2, ElementOfSeq DEF Calls, PushCalls
  <2>2. Elems(b) \subseteq Calls(p)
    BY <2>1 DEF Elems
  <2> QED BY <1>2, <2>2, ListOfSeq, SeqOfList
<1>7. a \o b \in Seq(Calls(p)) /\ Elems(a \o b) = Elems(a) \cup Elems(b)
  BY <1>5, <1>6, JoinedPlaces, JoinedElements
<1>8. Ordered(a \o b)
  <2> SUFFICES ASSUME NEW j \in 1..Len(a \o b), NEW l \in 1..Len(a \o b), j < l,
                      (a \o b)[j].op = (a \o b)[l].op, (a \o b)[j].edge = (a \o b)[l].edge
               PROVE  (a \o b)[j].op = "push" /\ (a \o b)[j].datum.stamp < (a \o b)[l].datum.stamp
    BY DEF Ordered
  <2>0. Len(a) \in Nat /\ Len(b) \in Nat
    BY <1>5, <1>6, JoinedPlaces
  <2>1. CASE j \in 1..Len(a)
    <3>1. (a \o b)[j] = a[j] /\ a[j].op = "grab"
      BY <1>4, <1>5, <1>6, <2>1, JoinedPlaces
    <3>2. CASE l \in 1..Len(a)
      <4>1. (a \o b)[l] = a[l]
        BY <1>5, <1>6, <3>2, JoinedPlaces
      <4> QED BY <1>1, <2>1, <3>1, <3>2, <4>1 DEF Ordered
    <3>3. CASE l \notin 1..Len(a)
      <4>1. PICK k \in 1..Len(b) : l = Len(a) + k
        BY <1>5, <1>6, <3>3, JoinedPlaces
      <4>2. (a \o b)[l] = b[k]
        BY <1>5, <1>6, <4>1, JoinedPlaces
      <4> QED BY <1>3, <3>1, <4>2
    <3> QED BY <3>2, <3>3
  <2>2. CASE j \notin 1..Len(a)
    <3>1. PICK i \in 1..Len(b) : j = Len(a) + i
      BY <1>5, <1>6, <2>2, JoinedPlaces
    <3>2. l \notin 1..Len(a)
      BY <2>0, <3>1
    <3>3. PICK k \in 1..Len(b) : l = Len(a) + k
      BY <1>5, <1>6, <3>2, JoinedPlaces
    <3>4. (a \o b)[j] = b[i] /\ (a \o b)[l] = b[k] /\ i < k
      BY <1>5, <1>6, <2>0, <3>1, <3>3, JoinedPlaces
    <3> QED BY <1>3, <3>4 DEF Ordered
  <2> QED BY <2>1, <2>2
<1> QED
  BY <1>1, <1>2, <1>3, <1>5, <1>6, <1>7, <1>8 DEF a, b

(* The calls that remain after the first.                                  *)
LEMMA NextCall ==
  ASSUME NEW p \in Procs, NEW s \in Seq(Calls(p)), s # <<>>, Ordered(s)
  PROVE  /\ Head(s) \in Calls(p) /\ Tail(s) \in Seq(Calls(p)) /\ Ordered(Tail(s))
         /\ Elems(s) = {Head(s)} \cup Elems(Tail(s))
         /\ \A c \in Elems(Tail(s)) : c.op = Head(s).op /\ c.edge = Head(s).edge =>
              Head(s).op = "push" /\ Head(s).datum.stamp < c.datum.stamp
<1>1. /\ Head(s) \in Calls(p) /\ Tail(s) \in Seq(Calls(p)) /\ Head(s) = s[1] /\ Len(s) \in Nat \ {0}
      /\ Len(Tail(s)) = Len(s) - 1
      /\ \A i \in 1..Len(Tail(s)) : Tail(s)[i] = s[i + 1]
      /\ Elems(s) = {Head(s)} \cup Elems(Tail(s))
  BY HeadAndTail
<1>2. Ordered(Tail(s))
  BY <1>1 DEF Ordered
<1>3. ASSUME NEW c \in Elems(Tail(s)), c.op = Head(s).op, c.edge = Head(s).edge
      PROVE  Head(s).op = "push" /\ Head(s).datum.stamp < c.datum.stamp
  <2>1. PICK i \in 1..Len(Tail(s)) : c = Tail(s)[i]
    BY <1>3 DEF Elems
  <2>2. c = s[i + 1] /\ i + 1 \in 1..Len(s) /\ 1 \in 1..Len(s) /\ 1 < i + 1
    BY <1>1, <2>1
  <2> QED BY <1>1, <1>3, <2>2 DEF Ordered
<1> QED
  BY <1>1, <1>2, <1>3

-----------------------------------------------------------------------------
(* check_required_input.                                                   *)

QueueTypes == q \in [Edges -> Seq(Data)]

InStep(p) == \A e, f \in RequiredInputs(p) : Head(q[e]).stamp = Head(q[f]).stamp

LEMMA TakenPlaces ==
  ASSUME QueueTypes, NEW e \in Edges, Available(e)
  PROVE  /\ q[e] \in Seq(Data) /\ Len(q[e]) \in Nat \ {0} /\ Head(q[e]) = q[e][1] /\ Head(q[e]) \in Data
         /\ Taken(e) \in 1..Len(q[e]) /\ (Taken(e) = 1 \/ Taken(e) = InFreq[e])
         /\ Rank[Head(q[e]).type] < Rank["flush"] => Taken(e) = InFreq[e]
         /\ \A i \in 1..Len(q[e]) : q[e][i] \in Data
<1>1. q[e] \in Seq(Data) /\ q[e] # <<>>
  BY DEF QueueTypes, Available
<1>2. Len(q[e]) \in Nat \ {0} /\ Head(q[e]) = q[e][1] /\ Head(q[e]) \in Data
  BY <1>1, HeadAndTail
<1>3. InFreq[e] \in Nat \ {0}
  BY DataflowAssumption
<1>4. Head(q[e]).type \in Types
  BY <1>2 DEF Data
<1>5. Rank[Head(q[e]).type] \in Nat
  BY <1>4 DEF Rank, Types
<1>6. \A i \in 1..Len(q[e]) : q[e][i] \in Data
  BY <1>1, ElementOfSeq
<1> QED
  BY <1>1, <1>2, <1>3, <1>5, <1>6 DEF Available, Taken, Rank

LEMMA CheckedInputs ==
  ASSUME QueueTypes, NEW p \in Procs, \A e \in RequiredInputs(p) : Available(e)
  PROVE  /\ check_required_input(p) \in Types \cup {"none"}
         /\ InStep(p) =>
              \/ RequiredInputs(p) = {} /\ check_required_input(p) = "none"
              \/ \E e \in RequiredInputs(p) : \E i \in 1..Taken(e) :
                   LET m == q[e][i].type
                   IN  /\ check_required_input(p) = IF m = "data" THEN "none" ELSE m
                       /\ \A f \in RequiredInputs(p) : \A j \in 1..Taken(f) :
                            Rank[q[f][j].type] <= Rank[m]
<1> DEFINE seen == UNION {{q[e][i].type : i \in 1..Taken(e)} : e \in RequiredInputs(p)}
           max  == CHOOSE t \in seen : \A u \in seen : Rank[u] <= Rank[t]
<1>1. RequiredInputs(p) \subseteq Edges
  BY InputPorts DEF RequiredInputs
<1>2. CASE RequiredInputs(p) = {}
  BY <1>2 DEF check_required_input
<1>3. CASE RequiredInputs(p) # {}
  <2>1. seen \subseteq Types
    <3> SUFFICES ASSUME NEW e \in RequiredInputs(p), NEW i \in 1..Taken(e)
                 PROVE  q[e][i].type \in Types
      OBVIOUS
    <3>1. i \in 1..Len(q[e])
      BY <1>1, TakenPlaces
    <3>2. q[e][i] \in Data
      BY <1>1, <3>1, TakenPlaces
    <3> QED BY <3>2 DEF Data
  <2>2. seen # {}
    <3>1. PICK e \in RequiredInputs(p) : TRUE
      BY <1>3
    <3>2. 1 \in 1..Taken(e)
      BY <1>1, TakenPlaces
    <3>3. q[e][1].type \in {q[e][i].type : i \in 1..Taken(e)}
      BY <3>2
    <3>4. q[e][1].type \in seen
      BY <3>3
    <3> QED BY <3>4
  <2> HIDE DEF seen
  <2>3. \E t \in seen : \A u \in seen : Rank[u] <= Rank[t]
    <3>1. \A u \in seen : u = "data" \/ u = "empty" \/ u = "error" \/ u = "flush" \/ u = "complete"
      BY <2>1 DEF Types
    <3>2. CASE "complete" \in seen
      BY <3>1, <3>2 DEF Rank
    <3>3. CASE "complete" \notin seen /\ "flush" \in seen
      BY <3>1, <3>3 DEF Rank
    <3>4. CASE "complete" \notin seen /\ "flush" \notin seen /\ "error" \in seen
      BY <3>1, <3>4 DEF Rank
    <3>5. CASE "complete" \notin seen /\ "flush" \notin seen /\ "error" \notin seen /\ "empty" \in seen
      BY <3>1, <3>5 DEF Rank
    <3>6. CASE "complete" \notin seen /\ "flush" \notin seen /\ "error" \notin seen /\ "empty" \notin seen
      BY <2>2, <3>1, <3>6 DEF Rank
    <3> QED BY <3>2, <3>3, <3>4, <3>5, <3>6
  <2>4. max \in seen /\ \A u \in seen : Rank[u] <= Rank[max]
    BY <2>3, Zenon
  <2>5. check_required_input(p) =
          IF \E e, f \in RequiredInputs(p) : Head(q[e]).stamp # Head(q[f]).stamp
          THEN "error" ELSE IF max = "data" THEN "none" ELSE max
    BY <1>3, Zenon DEF check_required_input, seen
  <2> HIDE DEF max
  <2>6. check_required_input(p) \in Types \cup {"none"}
    BY <2>1, <2>4, <2>5 DEF Types
  <2>7. ASSUME InStep(p)
        PROVE  \E e \in RequiredInputs(p) : \E i \in 1..Taken(e) :
                 LET m == q[e][i].type
                 IN  /\ check_required_input(p) = IF m = "data" THEN "none" ELSE m
                     /\ \A f \in RequiredInputs(p) : \A j \in 1..Taken(f) :
                          Rank[q[f][j].type] <= Rank[m]
    <3>1. check_required_input(p) = IF max = "data" THEN "none" ELSE max
      BY <2>5, <2>7 DEF InStep
    <3>2. PICK e \in RequiredInputs(p) : \E i \in 1..Taken(e) : max = q[e][i].type
      BY <2>4 DEF seen
    <3>3. PICK i \in 1..Taken(e) : max = q[e][i].type
      BY <3>2
    <3>4. \A f \in RequiredInputs(p) : \A j \in 1..Taken(f) : Rank[q[f][j].type] <= Rank[max]
      BY <2>4 DEF seen
    <3> QED BY <3>1, <3>3, <3>4
  <2> QED BY <2>6, <2>7
<1> QED
  BY <1>2, <1>3

-----------------------------------------------------------------------------
(* What every state satisfies, whatever the pipeline.                      *)

(* What else may happen to a thread, when its pipeline is embedded: the    *)
(* application interrupts it, and it ends where it is.                     *)
Interruption(p) ==
  /\ pc' = [pc EXCEPT ![p] = "exited"]
  /\ UNCHANGED <<q, closed, todo, verdict, is_complete, stamp, steps, sent, processed, wasted>>

AnyNext == \E p \in Procs : ProcNext(p) \/ Interruption(p)

(* Between steps no call is left, and a process that was told of the end   *)
(* does not begin another.                                                 *)
CallsInv ==
  \A p \in Procs : Ordered(todo[p]) /\ (pc[p] = "top" => todo[p] = <<>> /\ verdict[p] # "complete")

(* An edge is closed when its reader is complete, and then it is empty.    *)
ClosedInv ==
  \A e \in Edges : closed[e] = is_complete[Down(e)] /\ (closed[e] => q[e] = <<>>)

BaseInv == TypeOK /\ CallsInv /\ ClosedInv

LEMMA StampsAdvance ==
  ASSUME Stamps, NEW p \in Procs, NEW t \in Types, stamp' = StampsAfter(p, t)
  PROVE  /\ Stamps' /\ \A r \in Procs : r # p => stamp'[r] = stamp[r]
         /\ \A i \in DOMAIN Outputs[p] : stamp'[p][i] = stamp[p][i] + Times(p, i, t) * Increment(p, i)
<1>1. /\ DOMAIN stamp' = Procs /\ \A r \in Procs : r # p => stamp'[r] = stamp[r]
      /\ stamp'[p] = [i \in DOMAIN Outputs[p] |-> stamp[p][i] + Times(p, i, t) * Increment(p, i)]
  BY DEF StampsAfter, Stamps
<1>2. ASSUME NEW i \in DOMAIN Outputs[p]
      PROVE  stamp[p][i] + Times(p, i, t) * Increment(p, i) \in Nat
  <2>1. stamp[p][i] \in Nat /\ Times(p, i, t) \in Nat /\ Increment(p, i) \in Nat
    BY TimesNat, IncrementNat DEF Stamps
  <2>2. Times(p, i, t) * Increment(p, i) \in Nat
    BY <2>1
  <2> QED BY <2>1, <2>2
<1>3. stamp'[p] \in [DOMAIN Outputs[p] -> Nat]
  BY <1>1, <1>2
<1> QED
  BY <1>1, <1>3 DEF Stamps

(* A step that reads: the calls that it has decided on.                    *)
Starts(p, t, v) ==
  /\ Begin(p) /\ ~is_complete[p]
  /\ \A e \in RequiredInputs(p) : Available(e)
  /\ check_required_input(p) = v /\ v \in Types \cup {"none"} /\ t \in Types
  /\ verdict' = [verdict EXCEPT ![p] = v]
  /\ todo' = [todo EXCEPT ![p] = Grabs(p) \o Pushes(p, t)]
  /\ stamp' = StampsAfter(p, t)
  /\ UNCHANGED <<q, closed, is_complete, sent, processed>>

LEMMA TypedQueues ==
  TypeOK => QueueTypes /\ Stamps
BY DEF TypeOK, QueueTypes, Stamps

LEMMA Starting ==
  ASSUME TypeOK, NEW p \in Procs
  PROVE  /\ Propagate(p) => /\ Starts(p, check_required_input(p), check_required_input(p))
                            /\ check_required_input(p) \in Types /\ UNCHANGED <<steps, wasted>>
         /\ Step(p) => \E t \in {"data"} \cup SourceKinds : Starts(p, t, "none")
<1>1. (\A e \in RequiredInputs(p) : Available(e)) => check_required_input(p) \in Types \cup {"none"}
  BY TypedQueues, CheckedInputs
<1>2. ASSUME Propagate(p)
      PROVE  /\ Starts(p, check_required_input(p), check_required_input(p))
             /\ check_required_input(p) \in Types /\ UNCHANGED <<steps, wasted>>
  <2>1. check_required_input(p) \in Types
    BY <1>1, <1>2 DEF Propagate
  <2> QED BY <2>1, <1>2 DEF Propagate, Starts
<1>3. ASSUME Step(p)
      PROVE  \E t \in {"data"} \cup SourceKinds : Starts(p, t, "none")
  <2>1. PICK t \in {"data"} \cup SourceKinds :
          /\ todo' = [todo EXCEPT ![p] = Grabs(p) \o Pushes(p, t)]
          /\ stamp' = StampsAfter(p, t)
    BY <1>3 DEF Step
  <2>2. t \in Types
    BY DataflowAssumption DEF Types
  <2> QED BY <2>1, <2>2, <1>3 DEF Step, Starts
<1> QED
  BY <1>2, <1>3

LEMMA BaseInit ==
  ASSUME NEW P, InitOf(P) PROVE BaseInv
<1>1. TypeOK
  <2>1. q \in [Edges -> Seq(Data)] /\ \A e \in Edges : Len(q[e]) = 0
    BY DEF InitOf
  <2>2. DOMAIN stamp = Procs /\ \A p \in Procs : stamp[p] \in [DOMAIN Outputs[p] -> Nat]
    BY DEF InitOf
  <2>3. Capacity \in [Edges -> Nat] /\ MaxSteps \in Nat
    BY DataflowAssumption
  <2>4. \A e \in Edges : Capacity[e] > 0 => Len(q[e]) <= Capacity[e]
    BY <2>1, <2>3
  <2>5. DOMAIN todo = Procs /\ \A p \in Procs : todo[p] \in Seq(Calls(p))
    BY DEF InitOf
  <2>6. /\ closed \in [Edges -> BOOLEAN] /\ pc \in [Procs -> {"top", "busy", "exited"}]
        /\ verdict \in [Procs -> Types \cup {"none"}] /\ is_complete \in [Procs -> BOOLEAN]
        /\ steps \in [Procs -> 0..MaxSteps] /\ wasted \in [Procs -> Nat]
        /\ sent \in [Edges -> Nat] /\ processed \in [Edges -> Nat]
    BY <2>3 DEF InitOf
  <2> QED BY <2>1, <2>2, <2>4, <2>5, <2>6 DEF TypeOK
<1>2. CallsInv
  BY DEF CallsInv, InitOf, Ordered
<1>3. ClosedInv
  BY EdgeEnds DEF ClosedInv, InitOf
<1> QED
  BY <1>1, <1>2, <1>3 DEF BaseInv

LEMMA BaseStart ==
  ASSUME BaseInv, NEW p \in Procs, NEW t, NEW v, Starts(p, t, v),
         steps' \in [Procs -> 0..MaxSteps], wasted' \in [Procs -> Nat]
  PROVE  BaseInv'
<1>1. TypeOK /\ CallsInv /\ ClosedInv
  BY DEF BaseInv
<1>2. /\ pc[p] = "top" /\ pc' = [pc EXCEPT ![p] = "busy"] /\ t \in Types /\ v \in Types \cup {"none"}
      /\ verdict' = [verdict EXCEPT ![p] = v]
      /\ todo' = [todo EXCEPT ![p] = Grabs(p) \o Pushes(p, t)]
      /\ stamp' = StampsAfter(p, t)
      /\ UNCHANGED <<q, closed, is_complete, sent, processed>>
  BY DEF Starts, Begin
<1>3. Grabs(p) \o Pushes(p, t) \in Seq(Calls(p)) /\ Ordered(Grabs(p) \o Pushes(p, t))
  BY <1>1, <1>2, TypedQueues, StartedCalls
<1>4. DOMAIN todo' = Procs /\ todo'[p] = Grabs(p) \o Pushes(p, t) /\ \A r \in Procs : r # p => todo'[r] = todo[r]
  BY <1>1, <1>2 DEF TypeOK
<1>5. \A r \in Procs : todo'[r] \in Seq(Calls(r)) /\ Ordered(todo'[r])
  BY <1>1, <1>3, <1>4, Zenon DEF TypeOK, CallsInv
<1>6. Stamps'
  BY <1>1, <1>2, TypedQueues, StampsAdvance
<1>7. /\ pc' \in [Procs -> {"top", "busy", "exited"}] /\ verdict' \in [Procs -> Types \cup {"none"}]
      /\ \A r \in Procs : pc'[r] = "top" => pc[r] = "top" /\ todo'[r] = todo[r] /\ verdict'[r] = verdict[r]
  BY <1>1, <1>2, <1>4 DEF TypeOK
<1>8. TypeOK'
  BY <1>1, <1>2, <1>4, <1>5, <1>6, <1>7 DEF TypeOK, Stamps
<1>9. CallsInv'
  BY <1>1, <1>5, <1>7 DEF CallsInv
<1>10. ClosedInv'
  BY <1>1, <1>2, <1>7 DEF ClosedInv
<1> QED
  BY <1>8, <1>9, <1>10 DEF BaseInv

(* The inputs of p are closed and emptied.                                 *)
Stops(p) ==
  /\ is_complete' = [is_complete EXCEPT ![p] = TRUE]
  /\ closed' = ClosedBy(p) /\ q' = Emptied(p)

LEMMA Stopping ==
  ASSUME TypeOK, NEW p \in Procs, Stops(p)
  PROVE  /\ q' \in [Edges -> Seq(Data)] /\ closed' \in [Edges -> BOOLEAN]
         /\ is_complete' \in [Procs -> BOOLEAN] /\ is_complete'[p]
         /\ \A r \in Procs : r # p => is_complete'[r] = is_complete[r]
         /\ \A e \in Edges : Down(e) = p => closed'[e] /\ q'[e] = <<>>
         /\ \A e \in Edges : Down(e) # p => closed'[e] = closed[e] /\ q'[e] = q[e]
         /\ \A e \in Edges : Capacity[e] > 0 => Len(q'[e]) <= Capacity[e]
<1>1. \A e \in Edges : e \in InputSet(p) <=> Down(e) = p
  BY EdgeEnds
<1>2. /\ q' = [e \in Edges |-> IF e \in InputSet(p) THEN <<>> ELSE q[e]]
      /\ closed' = [e \in Edges |-> closed[e] \/ e \in InputSet(p)]
  BY Zenon DEF Stops, ClosedBy, Emptied
<1>3. q \in [Edges -> Seq(Data)] /\ closed \in [Edges -> BOOLEAN] /\ is_complete \in [Procs -> BOOLEAN]
      /\ \A e \in Edges : Capacity[e] > 0 => Len(q[e]) <= Capacity[e]
  BY DEF TypeOK
<1>4. q' \in [Edges -> Seq(Data)] /\ closed' \in [Edges -> BOOLEAN]
  BY <1>2, <1>3
<1>5. /\ \A e \in Edges : Down(e) = p => closed'[e] /\ q'[e] = <<>>
      /\ \A e \in Edges : Down(e) # p => closed'[e] = closed[e] /\ q'[e] = q[e]
  BY <1>1, <1>2, <1>3
<1>6. /\ is_complete' \in [Procs -> BOOLEAN] /\ is_complete'[p]
      /\ \A r \in Procs : r # p => is_complete'[r] = is_complete[r]
  BY <1>3 DEF Stops
<1>7. \A e \in Edges : Capacity[e] > 0 => Len(q'[e]) <= Capacity[e]
  <2> TAKE e \in Edges
  <2>1. Capacity[e] \in Nat
    BY DataflowAssumption
  <2>2. CASE Down(e) = p
    <3>1. Len(q'[e]) = 0
      BY <1>5, <2>2
    <3> QED BY <2>1, <3>1
  <2> QED BY <1>3, <1>5, <2>2
<1> QED
  BY <1>4, <1>5, <1>6, <1>7

LEMMA StoppedClosed ==
  ASSUME TypeOK, ClosedInv, NEW p \in Procs, Stops(p)
  PROVE  ClosedInv'
<1>1. ASSUME NEW e \in Edges
      PROVE  closed'[e] = is_complete'[Down(e)] /\ (closed'[e] => q'[e] = <<>>)
  <2>1. Down(e) \in Procs
    BY EdgeEnds
  <2>2. closed[e] = is_complete[Down(e)] /\ (closed[e] => q[e] = <<>>)
    BY DEF ClosedInv
  <2>3. closed' \in [Edges -> BOOLEAN] /\ is_complete' \in [Procs -> BOOLEAN]
    BY Stopping
  <2>4. CASE Down(e) = p
    BY <2>3, <2>4, Stopping
  <2>5. CASE Down(e) # p
    BY <2>1, <2>2, <2>5, Stopping
  <2> QED BY <2>4, <2>5
<1> QED
  BY <1>1 DEF ClosedInv

LEMMA BaseStepAndStop ==
  ASSUME BaseInv, NEW p \in Procs, StepAndStop(p)
  PROVE  BaseInv'
<1>1. TypeOK /\ CallsInv /\ ClosedInv
  BY DEF BaseInv
<1>2. /\ pc[p] = "top" /\ pc' = [pc EXCEPT ![p] = "busy"] /\ Stops(p)
      /\ verdict' = [verdict EXCEPT ![p] = "none"]
      /\ todo' = [todo EXCEPT ![p] = Pushes(p, "complete")]
      /\ stamp' = StampsAfter(p, "complete")
      /\ UNCHANGED <<steps, sent, processed, wasted>>
  BY DEF StepAndStop, Begin, Stops
<1>3. Pushes(p, "complete") \in Seq(Calls(p)) /\ Ordered(Pushes(p, "complete"))
  BY <1>1, TypedQueues, StartedCalls DEF Types
<1>4. DOMAIN todo' = Procs /\ todo'[p] = Pushes(p, "complete") /\ \A r \in Procs : r # p => todo'[r] = todo[r]
  BY <1>1, <1>2 DEF TypeOK
<1>5. \A r \in Procs : todo'[r] \in Seq(Calls(r)) /\ Ordered(todo'[r])
  BY <1>1, <1>3, <1>4, Zenon DEF TypeOK, CallsInv
<1>6. Stamps'
  <2>1. "complete" \in Types
    BY DEF Types
  <2> QED BY <1>1, <1>2, <2>1, TypedQueues, StampsAdvance
<1>7. /\ pc' \in [Procs -> {"top", "busy", "exited"}] /\ verdict' \in [Procs -> Types \cup {"none"}]
      /\ \A r \in Procs : pc'[r] = "top" => pc[r] = "top" /\ todo'[r] = todo[r] /\ verdict'[r] = verdict[r]
  BY <1>1, <1>2, <1>4 DEF TypeOK
<1>8. TypeOK'
  <2>1. /\ q' \in [Edges -> Seq(Data)] /\ closed' \in [Edges -> BOOLEAN]
        /\ is_complete' \in [Procs -> BOOLEAN]
        /\ \A e \in Edges : Capacity[e] > 0 => Len(q'[e]) <= Capacity[e]
    BY <1>1, <1>2, Stopping
  <2> QED BY <1>1, <1>2, <1>4, <1>5, <1>6, <1>7, <2>1 DEF TypeOK, Stamps
<1>9. CallsInv'
  BY <1>1, <1>5, <1>7 DEF CallsInv
<1>10. ClosedInv'
  BY <1>1, <1>2, <1>7, StoppedClosed
<1> QED
  BY <1>8, <1>9, <1>10 DEF BaseInv

(* What a call on an edge does.                                            *)
CallMade(p) ==
  /\ pc[p] = "busy" /\ todo[p] # <<>>
  /\ DOMAIN todo' = Procs /\ todo'[p] = Tail(todo[p])
  /\ \A r \in Procs : r # p => todo'[r] = todo[r]
  /\ UNCHANGED <<closed, pc, verdict, is_complete, stamp, steps, wasted>>

Grabbed(p, e) ==
  /\ e \in InputSet(p) /\ e \in Edges /\ Down(e) = p /\ Available(e) /\ closed[e] = FALSE
  /\ Head(todo[p]).op = "grab" /\ Head(todo[p]).edge = e
  /\ q' \in [Edges -> Seq(Data)] /\ \A f \in Edges : f # e => q'[f] = q[f]
  /\ Len(q'[e]) = Len(q[e]) - Taken(e)
  /\ \A i \in 1..Len(q'[e]) : i + Taken(e) \in 1..Len(q[e]) /\ q'[e][i] = q[e][i + Taken(e)]
  /\ sent' = sent /\ processed' \in [Edges -> Nat]

Pushed(p, e, d) ==
  /\ e \in OutputSet(p) /\ e \in Edges /\ Up(e) = p /\ d \in Data
  /\ Head(todo[p]).op = "push" /\ Head(todo[p]).edge = e /\ Head(todo[p]).datum = d
  /\ q' \in [Edges -> Seq(Data)] /\ \A f \in Edges : f # e => q'[f] = q[f]
  /\ closed[e] => q'[e] = q[e]
  /\ ~closed[e] => /\ Capacity[e] = 0 \/ Len(q[e]) < Capacity[e]
                   /\ Len(q'[e]) = Len(q[e]) + 1 /\ q'[e][Len(q[e]) + 1] = d
                   /\ \A i \in 1..Len(q[e]) : q'[e][i] = q[e][i]
  /\ processed' = processed /\ sent' \in [Edges -> Nat]

LEMMA Grabbing ==
  ASSUME BaseInv, NEW p \in Procs, Grab(p)
  PROVE  CallMade(p) /\ \E e \in InputSet(p) : Grabbed(p, e)
<1>1. TypeOK /\ CallsInv /\ ClosedInv
  BY DEF BaseInv
<1> DEFINE e == Head(todo[p]).edge
<1>2. /\ pc[p] = "busy" /\ todo[p] # <<>> /\ Head(todo[p]).op = "grab" /\ Available(e)
      /\ q' = [q EXCEPT ![e] = SubSeq(@, Taken(e) + 1, Len(@))]
      /\ processed' = [processed EXCEPT ![e] = IF verdict[p] = "none" THEN @ + Taken(e) ELSE @]
      /\ todo' = [todo EXCEPT ![p] = Tail(@)]
      /\ UNCHANGED <<closed, pc, verdict, is_complete, stamp, steps, sent, wasted>>
  BY DEF Grab
<1>3. CallMade(p)
  BY <1>1, <1>2 DEF CallMade, TypeOK
<1>4. Head(todo[p]) \in Calls(p)
  BY <1>1, <1>2, NextCall DEF TypeOK, CallsInv
<1>5. e \in InputSet(p)
  BY <1>2, <1>4 DEF Calls
<1> HIDE DEF e
<1>6. e \in Edges /\ Down(e) = p
  BY <1>5, EdgeEnds
<1>7. /\ q[e] \in Seq(Data) /\ Len(q[e]) \in Nat \ {0} /\ Taken(e) \in 1..Len(q[e])
      /\ \A i \in 1..Len(q[e]) : q[e][i] \in Data
  BY <1>1, <1>2, <1>6, TypedQueues, TakenPlaces
<1>8. closed[e] = FALSE
  BY <1>1, <1>2, <1>6 DEF ClosedInv, TypeOK, Available
<1> DEFINE s == SubSeq(q[e], Taken(e) + 1, Len(q[e]))
<1>9. /\ s \in Seq(Data) /\ Len(s) = Len(q[e]) - Taken(e)
      /\ \A i \in 1..Len(s) : i + Taken(e) \in 1..Len(q[e]) /\ s[i] = q[e][i + Taken(e)]
  <2>1. \A i \in (Taken(e) + 1)..Len(q[e]) : q[e][i] \in Data
    BY <1>7
  <2>2. /\ s \in Seq(Data) /\ Len(s) = IF Taken(e) + 1 <= Len(q[e]) THEN Len(q[e]) - (Taken(e) + 1) + 1 ELSE 0
        /\ \A i \in 1..(Len(q[e]) - (Taken(e) + 1) + 1) : s[i] = q[e][(Taken(e) + 1) + i - 1]
    BY <1>7, <2>1, SubSeqProperties
  <2>3. Len(s) = Len(q[e]) - Taken(e)
    BY <1>7, <2>2
  <2>4. ASSUME NEW i \in 1..Len(s) PROVE i + Taken(e) \in 1..Len(q[e]) /\ s[i] = q[e][i + Taken(e)]
    <3>1. i \in 1..(Len(q[e]) - (Taken(e) + 1) + 1) /\ (Taken(e) + 1) + i - 1 = i + Taken(e)
      BY <1>7, <2>3
    <3>2. s[i] = q[e][(Taken(e) + 1) + i - 1]
      BY <2>2, <3>1
    <3> QED BY <1>7, <2>3, <3>1, <3>2, SMTT(30)
  <2> QED BY <2>2, <2>3, <2>4
<1>10. q'[e] = s /\ q' \in [Edges -> Seq(Data)] /\ \A f \in Edges : f # e => q'[f] = q[f]
  <2>1. q' = [q EXCEPT ![e] = s]
    BY <1>2, Zenon DEF e
  <2> HIDE DEF s
  <2> QED BY <1>1, <1>6, <1>9, <2>1 DEF TypeOK
<1>11. processed' \in [Edges -> Nat]
  <2>1. processed' = [processed EXCEPT ![e] = IF verdict[p] = "none" THEN processed[e] + Taken(e) ELSE processed[e]]
    BY <1>2, Zenon DEF e
  <2> QED BY <1>1, <1>6, <1>7, <2>1 DEF TypeOK
<1> HIDE DEF s
<1>12. Grabbed(p, e)
  BY <1>2, <1>5, <1>6, <1>8, <1>9, <1>10, <1>11 DEF Grabbed, e
<1> QED
  BY <1>3, <1>5, <1>12

LEMMA Pushing ==
  ASSUME BaseInv, NEW p \in Procs, Push(p)
  PROVE  CallMade(p) /\ \E e \in OutputSet(p) : \E d \in Data : Pushed(p, e, d)
<1>1. TypeOK /\ CallsInv /\ ClosedInv
  BY DEF BaseInv
<1> DEFINE e == Head(todo[p]).edge
           d == Head(todo[p]).datum
<1>2. /\ pc[p] = "busy" /\ todo[p] # <<>> /\ Head(todo[p]).op = "push"
      /\ todo' = [todo EXCEPT ![p] = Tail(@)]
      /\ UNCHANGED <<closed, pc, verdict, is_complete, stamp, steps, processed, wasted>>
  BY DEF Push
<1>3. CallMade(p)
  BY <1>1, <1>2 DEF CallMade, TypeOK
<1>4. Head(todo[p]) \in Calls(p)
  BY <1>1, <1>2, NextCall DEF TypeOK, CallsInv
<1>5. e \in OutputSet(p) /\ d \in Data
  BY <1>2, <1>4 DEF Calls
<1>6. IF closed[e] THEN q' = q /\ sent' = sent
      ELSE /\ Capacity[e] = 0 \/ Len(q[e]) < Capacity[e]
           /\ q' = [q EXCEPT ![e] = Append(q[e], d)]
           /\ sent' = [sent EXCEPT ![e] = IF d.type = "data" THEN sent[e] + 1 ELSE sent[e]]
  BY DEF Push
<1>7. Head(todo[p]).edge = e /\ Head(todo[p]).datum = d
  OBVIOUS
<1> HIDE DEF e, d
<1>8. e \in Edges /\ Up(e) = p
  BY <1>5, EdgeEnds
<1>9. q \in [Edges -> Seq(Data)] /\ sent \in [Edges -> Nat]
  BY <1>1 DEF TypeOK
<1>10. CASE closed[e]
  <2>1. Pushed(p, e, d)
    BY <1>2, <1>5, <1>6, <1>7, <1>8, <1>9, <1>10 DEF Pushed
  <2> QED BY <1>3, <1>5, <2>1
<1>11. CASE ~closed[e]
  <2> DEFINE s == Append(q[e], d)
  <2>1. q' = [q EXCEPT ![e] = s]
    BY <1>6, <1>11
  <2>2. /\ s \in Seq(Data) /\ Len(s) = Len(q[e]) + 1 /\ s[Len(q[e]) + 1] = d
        /\ \A i \in 1..Len(q[e]) : s[i] = q[e][i]
    BY <1>5, <1>8, <1>9, AppendProperties
  <2> HIDE DEF s
  <2>3. q'[e] = s /\ q' \in [Edges -> Seq(Data)] /\ \A f \in Edges : f # e => q'[f] = q[f]
    BY <1>8, <1>9, <2>1, <2>2
  <2>4. sent' \in [Edges -> Nat]
    BY <1>6, <1>8, <1>9, <1>11
  <2>5. Pushed(p, e, d)
    BY <1>2, <1>5, <1>6, <1>7, <1>8, <1>11, <2>2, <2>3, <2>4 DEF Pushed
  <2> QED BY <1>3, <1>5, <2>5
<1> QED
  BY <1>10, <1>11

LEMMA BaseCall ==
  ASSUME BaseInv, NEW p \in Procs, CallMade(p),
         (\E e \in InputSet(p) : Grabbed(p, e)) \/ (\E e \in OutputSet(p) : \E d \in Data : Pushed(p, e, d))
  PROVE  BaseInv'
<1>1. TypeOK /\ CallsInv /\ ClosedInv
  BY DEF BaseInv
<1>2. DOMAIN todo' = Procs /\ \A r \in Procs : todo'[r] \in Seq(Calls(r)) /\ Ordered(todo'[r])
  <2>1. todo[p] \in Seq(Calls(p)) /\ Ordered(todo[p]) /\ todo[p] # <<>>
    BY <1>1 DEF TypeOK, CallsInv, CallMade
  <2>2. Tail(todo[p]) \in Seq(Calls(p)) /\ Ordered(Tail(todo[p]))
    BY <2>1, NextCall
  <2>3. DOMAIN todo' = Procs /\ todo'[p] = Tail(todo[p]) /\ \A r \in Procs : r # p => todo'[r] = todo[r]
    BY DEF CallMade
  <2> QED BY <1>1, <2>2, <2>3, Zenon DEF TypeOK, CallsInv
<1>3. /\ q' \in [Edges -> Seq(Data)] /\ sent' \in [Edges -> Nat] /\ processed' \in [Edges -> Nat]
      /\ \A e \in Edges : Capacity[e] > 0 => Len(q'[e]) <= Capacity[e]
      /\ \A e \in Edges : closed[e] => q'[e] = <<>>
  <2>1. CASE \E e \in InputSet(p) : Grabbed(p, e)
    <3>1. PICK e \in InputSet(p) : Grabbed(p, e)
      BY <2>1
    <3>2. Len(q[e]) \in Nat /\ Taken(e) \in 1..Len(q[e]) /\ Capacity[e] \in Nat
      BY <1>1, <3>1, TypedQueues, TakenPlaces, DataflowAssumption DEF Grabbed
    <3>3. Len(q'[e]) = Len(q[e]) - Taken(e) /\ closed[e] = FALSE
      BY <3>1 DEF Grabbed
    <3>4. Capacity[e] > 0 => Len(q'[e]) <= Capacity[e]
      BY <1>1, <3>1, <3>2, <3>3 DEF TypeOK, Grabbed
    <3> QED BY <1>1, <3>1, <3>3, <3>4 DEF TypeOK, Grabbed, ClosedInv
  <2>2. CASE \E e \in OutputSet(p) : \E d \in Data : Pushed(p, e, d)
    <3>1. PICK e \in OutputSet(p), d \in Data : Pushed(p, e, d)
      BY <2>2
    <3>2. q[e] \in Seq(Data) /\ Capacity[e] \in Nat /\ e \in Edges
      BY <1>1, <3>1, DataflowAssumption DEF TypeOK, Pushed
    <3>3. Len(q[e]) \in Nat
      BY <3>2, LenProperties
    <3>4. Capacity[e] > 0 => Len(q'[e]) <= Capacity[e]
      BY <1>1, <3>1, <3>2, <3>3 DEF TypeOK, Pushed
    <3>5. /\ \A g \in Edges : g # e => q'[g] = q[g]
          /\ closed[e] => q'[e] = q[e]
          /\ q' \in [Edges -> Seq(Data)] /\ sent' \in [Edges -> Nat] /\ processed' = processed
      BY <3>1 DEF Pushed
    <3> QED BY <1>1, <3>4, <3>5 DEF TypeOK, ClosedInv
  <2> QED BY <2>1, <2>2
<1>4. UNCHANGED <<closed, pc, verdict, is_complete, stamp, steps, wasted>>
  BY DEF CallMade
<1>5. TypeOK'
  BY <1>1, <1>2, <1>3, <1>4 DEF TypeOK
<1>6. CallsInv'
  BY <1>1, <1>2, <1>4 DEF CallsInv, CallMade
<1>7. ClosedInv'
  BY <1>1, <1>3, <1>4 DEF ClosedInv
<1> QED
  BY <1>5, <1>6, <1>7 DEF BaseInv

(* The end of a step: the process goes on, or it ends.                     *)
LEMMA BaseEndStep ==
  ASSUME BaseInv, NEW p \in Procs, EndStep(p)
  PROVE  BaseInv'
<1>1. TypeOK /\ CallsInv /\ ClosedInv
  BY DEF BaseInv
<1>2. /\ pc[p] = "busy" /\ todo[p] = <<>>
      /\ pc' = [pc EXCEPT ![p] = IF is_complete[p] \/ verdict[p] = "complete" THEN "exited" ELSE "top"]
      /\ UNCHANGED <<todo, verdict, stamp, steps, sent, processed, wasted>>
  BY DEF EndStep
<1>3. /\ pc' \in [Procs -> {"top", "busy", "exited"}] /\ pc'[p] # "busy"
      /\ \A r \in Procs : r # p => pc'[r] = pc[r]
  BY <1>1, <1>2 DEF TypeOK
<1>4. CallsInv'
  BY <1>1, <1>2, <1>3 DEF CallsInv
<1>5. CASE verdict[p] = "complete" \/ required_outputs_done(p)
  <2>1. Stops(p)
    BY <1>5 DEF EndStep, Stops
  <2>2. TypeOK'
    <3>1. /\ q' \in [Edges -> Seq(Data)] /\ closed' \in [Edges -> BOOLEAN]
          /\ is_complete' \in [Procs -> BOOLEAN]
          /\ \A e \in Edges : Capacity[e] > 0 => Len(q'[e]) <= Capacity[e]
      BY <1>1, <2>1, Stopping
    <3> QED BY <1>1, <1>2, <1>3, <3>1 DEF TypeOK
  <2>3. ClosedInv'
    BY <1>1, <1>3, <2>1, StoppedClosed
  <2> QED BY <1>4, <2>2, <2>3 DEF BaseInv
<1>6. CASE ~(verdict[p] = "complete" \/ required_outputs_done(p))
  <2>1. UNCHANGED <<is_complete, closed, q>>
    BY <1>6 DEF EndStep
  <2>2. TypeOK'
    BY <1>1, <1>2, <1>3, <2>1 DEF TypeOK
  <2>3. ClosedInv'
    BY <1>1, <1>3, <1>6, <2>1 DEF ClosedInv
  <2> QED BY <1>4, <2>2, <2>3 DEF BaseInv
<1> QED
  BY <1>5, <1>6

LEMMA BaseAfterCompletion ==
  ASSUME BaseInv, NEW p \in Procs, StepAfterCompletion(p)
  PROVE  BaseInv'
<1>1. TypeOK /\ CallsInv /\ ClosedInv
  BY DEF BaseInv
<1>2. /\ pc[p] = "top" /\ pc' = [pc EXCEPT ![p] = "busy"]
      /\ verdict' = [verdict EXCEPT ![p] = "none"]
      /\ UNCHANGED <<q, closed, todo, is_complete, stamp, steps, sent, processed, wasted>>
  BY DEF StepAfterCompletion, Begin
<1>3. /\ pc' \in [Procs -> {"top", "busy", "exited"}] /\ verdict' \in [Procs -> Types \cup {"none"}]
      /\ \A r \in Procs : pc'[r] = "top" => pc[r] = "top"
  BY <1>1, <1>2 DEF TypeOK
<1>4. TypeOK' /\ CallsInv' /\ ClosedInv'
  BY <1>1, <1>2, <1>3 DEF TypeOK, CallsInv, ClosedInv
<1> QED
  BY <1>4 DEF BaseInv

LEMMA BaseNext ==
  ASSUME BaseInv, [AnyNext]_vars PROVE BaseInv'
<1>1. TypeOK /\ CallsInv /\ ClosedInv
  BY DEF BaseInv
<1>2. CASE UNCHANGED vars
  BY <1>1, <1>2 DEF BaseInv, TypeOK, CallsInv, ClosedInv, vars
<1>4. ASSUME NEW p \in Procs, Interruption(p) PROVE BaseInv'
  <2>1. pc' \in [Procs -> {"top", "busy", "exited"}] /\ \A r \in Procs : pc'[r] = "top" => pc[r] = "top"
    BY <1>1, <1>4 DEF TypeOK, Interruption
  <2> QED BY <1>1, <1>4, <2>1 DEF BaseInv, TypeOK, CallsInv, ClosedInv, Interruption
<1>3. ASSUME NEW p \in Procs, ProcNext(p) PROVE BaseInv'
  <2>1. CASE Propagate(p)
    <3>1. Starts(p, check_required_input(p), check_required_input(p)) /\ UNCHANGED <<steps, wasted>>
      BY <1>1, <2>1, Starting
    <3>2. steps' \in [Procs -> 0..MaxSteps] /\ wasted' \in [Procs -> Nat]
      BY <1>1, <3>1 DEF TypeOK
    <3> QED BY <3>1, <3>2, BaseStart
  <2>2. CASE Step(p)
    <3>1. PICK t \in {"data"} \cup SourceKinds : Starts(p, t, "none")
      BY <1>1, <2>2, Starting
    <3>2. steps' \in [Procs -> 0..MaxSteps] /\ wasted' \in [Procs -> Nat]
      BY <1>1, <2>2, DataflowAssumption DEF TypeOK, Step
    <3> QED BY <3>1, <3>2, BaseStart
  <2>3. CASE StepAndStop(p)
    BY <2>3, BaseStepAndStop
  <2>4. CASE StepAfterCompletion(p)
    BY <2>4, BaseAfterCompletion
  <2>5. CASE Grab(p)
    BY <2>5, Grabbing, BaseCall
  <2>6. CASE Push(p)
    BY <2>6, Pushing, BaseCall
  <2>7. CASE EndStep(p)
    BY <2>7, BaseEndStep
  <2> QED BY <1>3, <2>1, <2>2, <2>3, <2>4, <2>5, <2>6, <2>7 DEF ProcNext
<1> QED
  BY <1>2, <1>3, <1>4 DEF AnyNext

-----------------------------------------------------------------------------
(* The pushes to an edge that are decided on and not yet made.             *)

PushesIn(s, e) == {c \in Elems(s) : c.op = "push" /\ c.edge = e}
PushTo(e)      == PushesIn(todo[Up(e)], e)
Reads(s, e)    == \E c \in Elems(s) : c.op = "grab" /\ c.edge = e

LEMMA NoCalls ==
  \A e : PushesIn(<<>>, e) = {} /\ ~Reads(<<>>, e)
BY DEF PushesIn, Reads, Elems

(* The pushes of a new step to one edge.                                   *)
NewPushes(p, e, t) ==
  {PushOf(e, t, StampAt(p, PortOf(e), r)) : r \in 1..Times(p, PortOf(e), t)}

LEMMA StartedPushes ==
  ASSUME Stamps, NEW p \in Procs, NEW t \in Types
  PROVE  /\ \A e \in OutputSet(p) : /\ PushesIn(Pushes(p, t), e) = NewPushes(p, e, t)
                                    /\ PushesIn(Grabs(p) \o Pushes(p, t), e) = NewPushes(p, e, t)
         /\ \A e : ~Reads(Pushes(p, t), e)
         /\ \A e : Reads(Grabs(p) \o Pushes(p, t), e) <=> e \in InputSet(p)
<1>1. Elems(Pushes(p, t)) = UNION {PortCalls(p, i, t) : i \in DOMAIN Outputs[p]}
      /\ Elems(Grabs(p) \o Pushes(p, t)) = Elems(Grabs(p)) \cup Elems(Pushes(p, t))
      /\ Elems(Grabs(p)) = {GrabOf(e) : e \in InputSet(p)}
  BY StartedCalls, GrabsShape
<1>2. \A c \in Elems(Grabs(p)) : c.op = "grab"
  BY <1>1 DEF GrabOf
<1>3. \A c \in Elems(Pushes(p, t)) : c.op = "push"
  BY <1>1 DEF PortCalls, PushOf
<1>4. ASSUME NEW e \in OutputSet(p) PROVE PushesIn(Pushes(p, t), e) = NewPushes(p, e, t)
  <2>1. ASSUME NEW c \in PushesIn(Pushes(p, t), e) PROVE c \in NewPushes(p, e, t)
    <3>1. c \in Elems(Pushes(p, t)) /\ c.edge = e
      BY <2>1 DEF PushesIn
    <3>2. PICK i \in DOMAIN Outputs[p] : c \in PortCalls(p, i, t)
      BY <1>1, <3>1
    <3>3. PICK f \in PortEdges(Outputs[p][i]), r \in 1..Times(p, i, t) : c = PushOf(f, t, StampAt(p, i, r))
      BY <3>2 DEF PortCalls
    <3>4. f = e
      BY <3>1, <3>3 DEF PushOf
    <3>5. i = PortOf(e)
      BY <3>4, PortOfEdge
    <3> QED BY <3>3, <3>4, <3>5 DEF NewPushes
  <2>2. ASSUME NEW c \in NewPushes(p, e, t) PROVE c \in PushesIn(Pushes(p, t), e)
    <3>1. PICK r \in 1..Times(p, PortOf(e), t) : c = PushOf(e, t, StampAt(p, PortOf(e), r))
      BY <2>2 DEF NewPushes
    <3>2. PortOf(e) \in DOMAIN Outputs[p] /\ e \in PortEdges(Outputs[p][PortOf(e)])
      BY PortOfEdge
    <3>3. c \in PortCalls(p, PortOf(e), t)
      BY <3>1, <3>2 DEF PortCalls
    <3>4. c \in Elems(Pushes(p, t)) /\ c.op = "push"
      BY <1>1, <1>3, <3>2, <3>3
    <3>5. c.edge = e
      BY <3>1 DEF PushOf
    <3> QED BY <3>4, <3>5 DEF PushesIn
  <2> QED BY <2>1, <2>2
<1>5. ASSUME NEW e \in OutputSet(p)
      PROVE  PushesIn(Grabs(p) \o Pushes(p, t), e) = PushesIn(Pushes(p, t), e)
  BY <1>1, <1>2 DEF PushesIn
<1>6. \A e : Reads(Grabs(p) \o Pushes(p, t), e) <=> e \in InputSet(p)
  <2> TAKE e
  <2>1. Reads(Grabs(p) \o Pushes(p, t), e) => e \in InputSet(p)
    BY <1>1, <1>3 DEF Reads, GrabOf
  <2>2. ASSUME e \in InputSet(p) PROVE Reads(Grabs(p) \o Pushes(p, t), e)
    <3>1. GrabOf(e) \in Elems(Grabs(p) \o Pushes(p, t))
      BY <1>1, <2>2
    <3> QED BY <3>1 DEF Reads, GrabOf
  <2> QED BY <2>1, <2>2
<1> QED
  BY <1>3, <1>4, <1>5, <1>6 DEF Reads

(* What a call leaves of the calls that are decided on.                    *)
LEMMA CallsLeft ==
  ASSUME BaseInv, NEW p \in Procs, CallMade(p)
  PROVE  /\ \A f \in InputSet(p) : Grabbed(p, f) =>
              /\ \A e \in Edges : PushTo(e)' = PushTo(e)
              /\ ~Reads(todo'[p], f) /\ Reads(todo[p], f)
              /\ \A e : e # f => (Reads(todo'[p], e) <=> Reads(todo[p], e))
         /\ \A f \in OutputSet(p) : \A d \in Data : Pushed(p, f, d) =>
              /\ \A e \in Edges : e # f => PushTo(e)' = PushTo(e)
              /\ Head(todo[p]) \in PushTo(f) /\ PushTo(f) = {Head(todo[p])} \cup PushTo(f)'
              /\ \A c \in PushTo(f)' : d.stamp < c.datum.stamp
              /\ \A e : Reads(todo'[p], e) <=> Reads(todo[p], e)
<1> DEFINE h == Head(todo[p])
<1>1. /\ todo[p] \in Seq(Calls(p)) /\ Ordered(todo[p]) /\ todo[p] # <<>>
      /\ todo'[p] = Tail(todo[p]) /\ \A r \in Procs : r # p => todo'[r] = todo[r]
  BY DEF BaseInv, TypeOK, CallsInv, CallMade
<1>2. /\ Elems(todo[p]) = {h} \cup Elems(todo'[p])
      /\ \A c \in Elems(todo'[p]) : c.op = h.op /\ c.edge = h.edge =>
              h.op = "push" /\ h.datum.stamp < c.datum.stamp
  BY <1>1, NextCall
<1> HIDE DEF h
<1>3. \A e \in Edges : Up(e) \in Procs
  BY EdgeEnds
<1>4. \A e \in Edges : PushTo(e)' = PushesIn(todo'[Up(e)], e)
  BY DEF PushTo, PushesIn, Elems
<1>5. \A e \in Edges : Up(e) # p => PushTo(e)' = PushTo(e)
  BY <1>1, <1>3, <1>4 DEF PushTo
<1>6. \A e \in Edges : Up(e) = p => PushTo(e) = PushesIn(todo[p], e) /\ PushTo(e)' = PushesIn(todo'[p], e)
  BY <1>4 DEF PushTo
<1>7. ASSUME NEW f \in InputSet(p), Grabbed(p, f)
      PROVE  /\ \A e \in Edges : PushTo(e)' = PushTo(e)
             /\ ~Reads(todo'[p], f) /\ Reads(todo[p], f)
             /\ \A e : e # f => (Reads(todo'[p], e) <=> Reads(todo[p], e))
  <2>1. h.op = "grab" /\ h.edge = f
    BY <1>7 DEF Grabbed, h
  <2>2. \A e : PushesIn(todo[p], e) = PushesIn(todo'[p], e)
    BY <1>2, <2>1 DEF PushesIn
  <2>3. \A e \in Edges : PushTo(e)' = PushTo(e)
    BY <1>5, <1>6, <2>2
  <2> QED BY <1>2, <2>1, <2>3 DEF Reads
<1>8. ASSUME NEW f \in OutputSet(p), NEW d \in Data, Pushed(p, f, d)
      PROVE  /\ \A e \in Edges : e # f => PushTo(e)' = PushTo(e)
             /\ h \in PushTo(f) /\ PushTo(f) = {h} \cup PushTo(f)'
             /\ \A c \in PushTo(f)' : d.stamp < c.datum.stamp
             /\ \A e : Reads(todo'[p], e) <=> Reads(todo[p], e)
  <2>1. h.op = "push" /\ h.edge = f /\ h.datum = d /\ Up(f) = p /\ f \in Edges
    BY <1>8 DEF Pushed, h
  <2>2. \A e : e # f => PushesIn(todo[p], e) = PushesIn(todo'[p], e)
    BY <1>2, <2>1 DEF PushesIn
  <2>3. PushesIn(todo[p], f) = {h} \cup PushesIn(todo'[p], f)
    BY <1>2, <2>1 DEF PushesIn
  <2>4. \A c \in PushesIn(todo'[p], f) : d.stamp < c.datum.stamp
    BY <1>2, <2>1 DEF PushesIn
  <2>5. \A e \in Edges : e # f => PushTo(e)' = PushTo(e)
    BY <1>5, <1>6, <2>2
  <2>6. PushTo(f) = {h} \cup PushTo(f)' /\ \A c \in PushTo(f)' : d.stamp < c.datum.stamp
    BY <1>6, <2>1, <2>3, <2>4
  <2> QED BY <1>2, <2>1, <2>5, <2>6 DEF Reads
<1> QED
  BY <1>7, <1>8 DEF h

-----------------------------------------------------------------------------
(* The complete datum.                                                     *)

(* The process has decided to end.                                         *)
Ended(p) == is_complete[p] \/ (pc[p] # "top" /\ verdict[p] = "complete")

CompleteInv ==
  \A e \in Edges :
    /\ \A i \in 1..Len(q[e]) : q[e][i].type = "complete" =>
         i = Len(q[e]) /\ Ended(Up(e)) /\ PushTo(e) = {}
    /\ \A c \in PushTo(e) : c.datum.type = "complete" => Ended(Up(e)) /\ PushTo(e) = {c}

(* A process that has decided to end stays so.                             *)
LEMMA EndedStays ==
  ASSUME BaseInv, [AnyNext]_vars, NEW p \in Procs, Ended(p)
  PROVE  Ended(p)'
<1>1. TypeOK
  BY DEF BaseInv
<1>2. CASE UNCHANGED vars
  BY <1>2 DEF Ended, vars
<1>3. ASSUME NEW r \in Procs, ProcNext(r) PROVE Ended(p)'
  <2>1. CASE \E t, v : Starts(r, t, v)
    <3>1. pc[r] = "top" /\ ~is_complete[r] /\ is_complete' = is_complete
      BY <2>1 DEF Starts, Begin
    <3>2. r # p
      BY <3>1 DEF Ended
    <3> QED BY <1>1, <2>1, <3>1, <3>2 DEF Ended, Starts, Begin, TypeOK
  <2>2. CASE StepAndStop(r)
    <3>1. Stops(r) /\ pc[r] = "top" /\ ~is_complete[r]
      BY <2>2 DEF StepAndStop, Stops, Begin
    <3>2. r # p
      BY <3>1 DEF Ended
    <3> QED BY <1>1, <2>2, <3>1, <3>2, Stopping DEF Ended, StepAndStop, Begin, TypeOK
  <2>3. CASE StepAfterCompletion(r)
    BY <1>1, <2>3 DEF Ended, StepAfterCompletion, Begin, TypeOK
  <2>4. CASE Grab(r)
    BY <2>4 DEF Ended, Grab
  <2>5. CASE Push(r)
    BY <2>5 DEF Ended, Push
  <2>6. CASE EndStep(r)
    <3>1. CASE verdict[r] = "complete" \/ required_outputs_done(r)
      <4>1. Stops(r)
        BY <2>6, <3>1 DEF EndStep, Stops
      <4> QED BY <1>1, <2>6, <4>1, Stopping DEF Ended, EndStep, TypeOK
    <3>2. CASE ~(verdict[r] = "complete" \/ required_outputs_done(r))
      BY <1>1, <2>6, <3>2 DEF Ended, EndStep, TypeOK
    <3> QED BY <3>1, <3>2
  <2> QED BY <1>1, <1>3, <2>1, <2>2, <2>3, <2>4, <2>5, <2>6, Starting DEF ProcNext
<1>4. ASSUME NEW r \in Procs, Interruption(r) PROVE Ended(p)'
  BY <1>1, <1>4 DEF Ended, Interruption, TypeOK
<1> QED
  BY <1>2, <1>3, <1>4 DEF AnyNext

(* The pushes that a step decides on, edge by edge.                        *)
LEMMA DecidedPushes ==
  ASSUME BaseInv, NEW p \in Procs, NEW t \in Types, pc[p] = "top",
         todo' = [todo EXCEPT ![p] = Grabs(p) \o Pushes(p, t)] \/ todo' = [todo EXCEPT ![p] = Pushes(p, t)]
  PROVE  /\ \A e \in Edges : Up(e) # p => PushTo(e)' = PushTo(e)
         /\ \A e \in Edges : Up(e) = p => PushTo(e) = {} /\ PushTo(e)' = NewPushes(p, e, t)
<1>1. DOMAIN todo = Procs /\ todo[p] = <<>> /\ Stamps
  BY DEF BaseInv, TypeOK, CallsInv, Stamps
<1>2. todo'[p] \in {Grabs(p) \o Pushes(p, t), Pushes(p, t)} /\ \A r \in Procs : r # p => todo'[r] = todo[r]
  BY <1>1
<1>3. \A e \in Edges : PushTo(e)' = PushesIn(todo'[Up(e)], e)
  BY DEF PushTo, PushesIn, Elems
<1>4. \A e \in Edges : Up(e) \in Procs /\ (Up(e) = p => e \in OutputSet(p))
  BY EdgeEnds
<1>5. \A e \in Edges : Up(e) # p => PushTo(e)' = PushTo(e)
  BY <1>2, <1>3, <1>4 DEF PushTo
<1>6. ASSUME NEW e \in Edges, Up(e) = p PROVE PushTo(e) = {} /\ PushTo(e)' = NewPushes(p, e, t)
  <2>1. PushTo(e) = {}
    BY <1>1, <1>6, NoCalls DEF PushTo
  <2>2. PushTo(e)' = NewPushes(p, e, t)
    <3>1. e \in OutputSet(p) /\ PushTo(e)' = PushesIn(todo'[p], e)
      BY <1>3, <1>4, <1>6
    <3>2. /\ PushesIn(Pushes(p, t), e) = NewPushes(p, e, t)
          /\ PushesIn(Grabs(p) \o Pushes(p, t), e) = NewPushes(p, e, t)
      BY <1>1, <3>1, StartedPushes
    <3>3. todo'[p] = Grabs(p) \o Pushes(p, t) \/ todo'[p] = Pushes(p, t)
      BY <1>2
    <3> QED BY <3>1, <3>2, <3>3, Zenon
  <2> QED BY <2>1, <2>2
<1> QED
  BY <1>5, <1>6

(* A control datum is pushed once to each edge.                            *)
LEMMA OneComplete ==
  ASSUME Stamps, NEW e \in Edges, NEW t \in Types
  PROVE  \A c \in NewPushes(Up(e), e, t) : c.datum.type = t
           /\ (t = "complete" => NewPushes(Up(e), e, t) = {c})
<1>1. Up(e) \in Procs /\ PortOf(e) \in DOMAIN Outputs[Up(e)]
  BY EdgeEnds, PortOfEdge
<1>2. t = "complete" => Times(Up(e), PortOf(e), t) = 1
  BY <1>1, TimesNat
<1>3. \A r : PushOf(e, t, StampAt(Up(e), PortOf(e), r)).datum.type = t
  BY DEF PushOf
<1>4. \A c \in NewPushes(Up(e), e, t) : c.datum.type = t
  BY <1>3 DEF NewPushes
<1>5. t = "complete" => NewPushes(Up(e), e, t) = {PushOf(e, t, StampAt(Up(e), PortOf(e), 1))}
  BY <1>2 DEF NewPushes
<1> QED
  BY <1>4, <1>5

LEMMA CompleteDecided ==
  ASSUME BaseInv, CompleteInv, [AnyNext]_vars, NEW p \in Procs, NEW t \in Types, ~Ended(p), pc[p] = "top",
         todo' = [todo EXCEPT ![p] = Grabs(p) \o Pushes(p, t)] \/ todo' = [todo EXCEPT ![p] = Pushes(p, t)],
         t = "complete" => Ended(p)',
         \A e \in Edges : q'[e] = q[e] \/ q'[e] = <<>>
  PROVE  CompleteInv'
<1>1. \A e \in Edges : Up(e) \in Procs /\ (Ended(Up(e)) => Ended(Up(e))')
  BY EdgeEnds, EndedStays
<1>2. /\ \A e \in Edges : Up(e) # p => PushTo(e)' = PushTo(e)
      /\ \A e \in Edges : Up(e) = p => PushTo(e) = {} /\ PushTo(e)' = NewPushes(p, e, t)
  BY DecidedPushes
<1>3. Stamps
  BY TypedQueues DEF BaseInv
<1>4. ASSUME NEW e \in Edges, NEW i \in 1..Len(q'[e]), q'[e][i].type = "complete"
      PROVE  i = Len(q'[e]) /\ Ended(Up(e))' /\ PushTo(e)' = {}
  <2>1. q'[e] = q[e]
    <3>1. ASSUME q'[e] = <<>> PROVE FALSE
      BY <1>4, <3>1
    <3> QED BY <3>1
  <2>2. i = Len(q[e]) /\ Ended(Up(e)) /\ PushTo(e) = {}
    BY <1>4, <2>1 DEF CompleteInv
  <2>3. Up(e) # p
    BY <2>2
  <2> QED BY <1>1, <1>2, <2>1, <2>2, <2>3
<1>5. ASSUME NEW e \in Edges, NEW c \in PushTo(e)', c.datum.type = "complete"
      PROVE  Ended(Up(e))' /\ PushTo(e)' = {c}
  <2>1. CASE Up(e) = p
    <3>1. c \in NewPushes(Up(e), e, t) /\ PushTo(e)' = NewPushes(Up(e), e, t)
      BY <1>2, <1>5, <2>1
    <3>2. t = "complete" /\ NewPushes(Up(e), e, t) = {c}
      BY <1>3, <1>5, <3>1, OneComplete
    <3> QED BY <2>1, <3>1, <3>2
  <2>2. CASE Up(e) # p
    BY <1>1, <1>2, <1>5, <2>2 DEF CompleteInv
  <2> QED BY <2>1, <2>2
<1> QED
  BY <1>4, <1>5 DEF CompleteInv

LEMMA CompleteKept ==
  ASSUME BaseInv, CompleteInv, [AnyNext]_vars, todo' = todo,
         \A e \in Edges : q'[e] = q[e] \/ q'[e] = <<>>
  PROVE  CompleteInv'
<1>1. \A e \in Edges : Up(e) \in Procs /\ (Ended(Up(e)) => Ended(Up(e))')
  BY EdgeEnds, EndedStays
<1>2. \A e \in Edges : PushTo(e)' = PushTo(e)
  BY DEF PushTo, PushesIn, Elems
<1>3. \A e \in Edges : q'[e] = <<>> => 1..Len(q'[e]) = {}
  OBVIOUS
<1> QED
  BY <1>1, <1>2, <1>3 DEF CompleteInv

LEMMA CompleteNext ==
  ASSUME BaseInv, CompleteInv, [AnyNext]_vars PROVE CompleteInv'
<1>0. TypeOK /\ ClosedInv
  BY DEF BaseInv
<1>1. \A e \in Edges : Up(e) \in Procs /\ (Ended(Up(e)) => Ended(Up(e))')
  BY EdgeEnds, EndedStays
<1>2. CASE UNCHANGED vars
  BY <1>2, CompleteKept DEF vars
<1>3. ASSUME NEW p \in Procs, ProcNext(p) PROVE CompleteInv'
  <2>1. ASSUME NEW t, NEW v, Starts(p, t, v), t = "complete" => v = "complete"
        PROVE  CompleteInv'
    <3>1. /\ pc[p] = "top" /\ pc' = [pc EXCEPT ![p] = "busy"] /\ ~is_complete[p] /\ t \in Types
          /\ verdict' = [verdict EXCEPT ![p] = v] /\ q' = q
          /\ todo' = [todo EXCEPT ![p] = Grabs(p) \o Pushes(p, t)]
      BY <2>1 DEF Starts, Begin
    <3>2. ~Ended(p)
      BY <3>1 DEF Ended
    <3>3. t = "complete" => Ended(p)'
      BY <1>0, <2>1, <3>1 DEF Ended, TypeOK
    <3> QED BY <3>1, <3>2, <3>3, CompleteDecided
  <2>2. CASE Propagate(p)
    BY <1>0, <2>1, <2>2, Starting
  <2>3. CASE Step(p)
    <3>1. PICK t \in {"data"} \cup SourceKinds : Starts(p, t, "none")
      BY <1>0, <2>3, Starting
    <3>2. t # "complete"
      BY DataflowAssumption
    <3> QED BY <2>1, <3>1, <3>2
  <2>4. CASE StepAndStop(p)
    <3>1. /\ pc[p] = "top" /\ ~is_complete[p] /\ Stops(p)
          /\ todo' = [todo EXCEPT ![p] = Pushes(p, "complete")]
      BY <2>4 DEF StepAndStop, Begin, Stops
    <3>2. ~Ended(p)
      BY <3>1 DEF Ended
    <3>3. Ended(p)' /\ \A e \in Edges : q'[e] = q[e] \/ q'[e] = <<>>
      BY <1>0, <3>1, Stopping DEF Ended
    <3>4. "complete" \in Types
      BY DEF Types
    <3> QED BY <3>1, <3>2, <3>3, <3>4, CompleteDecided
  <2>5. CASE StepAfterCompletion(p)
    BY <2>5, CompleteKept DEF StepAfterCompletion
  <2>6. CASE Grab(p)
    <3>1. CallMade(p) /\ \E f \in InputSet(p) : Grabbed(p, f)
      BY <2>6, Grabbing
    <3>2. PICK f \in InputSet(p) : Grabbed(p, f)
      BY <3>1
    <3>3. \A e \in Edges : PushTo(e)' = PushTo(e)
      BY <3>1, <3>2, CallsLeft
    <3>4. ASSUME NEW e \in Edges, NEW i \in 1..Len(q'[e]), q'[e][i].type = "complete"
          PROVE  i = Len(q'[e]) /\ Ended(Up(e))' /\ PushTo(e)' = {}
      <4>1. CASE e = f
        <5>1. Len(q[e]) \in Nat /\ Taken(e) \in 1..Len(q[e])
          BY <1>0, <3>2, <4>1, TypedQueues, TakenPlaces DEF Grabbed
        <5>2. /\ i + Taken(e) \in 1..Len(q[e]) /\ q[e][i + Taken(e)].type = "complete"
              /\ Len(q'[e]) = Len(q[e]) - Taken(e)
          BY <3>2, <3>4, <4>1 DEF Grabbed
        <5>3. i + Taken(e) = Len(q[e]) /\ Ended(Up(e)) /\ PushTo(e) = {}
          BY <5>2 DEF CompleteInv
        <5>4. i = Len(q'[e])
          BY <5>1, <5>2, <5>3
        <5> QED BY <1>1, <3>3, <5>3, <5>4
      <4>2. CASE e # f
        BY <1>1, <3>2, <3>3, <3>4, <4>2 DEF Grabbed, CompleteInv
      <4> QED BY <4>1, <4>2
    <3> QED BY <1>1, <3>3, <3>4 DEF CompleteInv
  <2>7. CASE Push(p)
    <3>1. CallMade(p) /\ \E f \in OutputSet(p) : \E d \in Data : Pushed(p, f, d)
      BY <2>7, Pushing
    <3>2. PICK f \in OutputSet(p), d \in Data : Pushed(p, f, d)
      BY <3>1
    <3> DEFINE h == Head(todo[p])
    <3>3. /\ \A e \in Edges : e # f => PushTo(e)' = PushTo(e)
          /\ h \in PushTo(f) /\ PushTo(f) = {h} \cup PushTo(f)'
          /\ \A c \in PushTo(f)' : d.stamp < c.datum.stamp
      BY <3>1, <3>2, CallsLeft
    <3>4. h.datum = d /\ f \in Edges /\ d.stamp \in Nat
      BY <3>2 DEF Pushed, Data
    <3> HIDE DEF h
    <3>5. d.type = "complete" => Ended(Up(f)) /\ PushTo(f)' = {}
      <4> SUFFICES ASSUME d.type = "complete" PROVE Ended(Up(f)) /\ PushTo(f)' = {}
        OBVIOUS
      <4>1. Ended(Up(f)) /\ PushTo(f) = {h}
        BY <3>3, <3>4 DEF CompleteInv
      <4>2. ASSUME NEW c \in PushTo(f)' PROVE FALSE
        <5>1. c = h
          BY <3>3, <4>1, <4>2
        <5> QED BY <3>3, <3>4, <4>2, <5>1
      <4> QED BY <4>1, <4>2
    <3>6. ASSUME NEW e \in Edges, NEW i \in 1..Len(q'[e]), q'[e][i].type = "complete"
          PROVE  i = Len(q'[e]) /\ Ended(Up(e))' /\ PushTo(e)' = {}
      <4>1. CASE e # f
        BY <1>1, <3>2, <3>3, <3>6, <4>1 DEF Pushed, CompleteInv
      <4>2. CASE e = f /\ closed[e]
        <5>1. q'[e] = q[e] /\ q[e] = <<>>
          BY <1>0, <3>2, <4>2 DEF Pushed, ClosedInv
        <5> QED BY <3>6, <5>1
      <4>3. CASE e = f /\ ~closed[e]
        <5>1. Len(q'[e]) = Len(q[e]) + 1 /\ q'[e][Len(q[e]) + 1] = d
              /\ \A k \in 1..Len(q[e]) : q'[e][k] = q[e][k]
          BY <3>2, <4>3 DEF Pushed
        <5>2. Len(q[e]) \in Nat
          BY <1>0, LenProperties DEF TypeOK
        <5>3. CASE i \in 1..Len(q[e])
          BY <3>3, <3>6, <4>3, <5>1, <5>3 DEF CompleteInv
        <5>4. CASE i = Len(q[e]) + 1
          BY <1>1, <3>5, <3>6, <4>3, <5>1, <5>4
        <5> QED BY <5>1, <5>2, <5>3, <5>4
      <4> QED BY <4>1, <4>2, <4>3
    <3>7. ASSUME NEW e \in Edges, NEW c \in PushTo(e)', c.datum.type = "complete"
          PROVE  Ended(Up(e))' /\ PushTo(e)' = {c}
      <4>1. c \in PushTo(e) /\ PushTo(e)' \subseteq PushTo(e)
        BY <3>3, <3>7
      <4>2. Ended(Up(e)) /\ PushTo(e) = {c}
        BY <3>7, <4>1 DEF CompleteInv
      <4> QED BY <1>1, <3>7, <4>1, <4>2
    <3> QED BY <3>6, <3>7 DEF CompleteInv
  <2>8. CASE EndStep(p)
    <3>1. todo' = todo
      BY <2>8 DEF EndStep
    <3>2. CASE verdict[p] = "complete" \/ required_outputs_done(p)
      <4>1. Stops(p)
        BY <2>8, <3>2 DEF EndStep, Stops
      <4>2. \A e \in Edges : q'[e] = q[e] \/ q'[e] = <<>>
        BY <1>0, <4>1, Stopping
      <4> QED BY <3>1, <4>2, CompleteKept
    <3>3. CASE ~(verdict[p] = "complete" \/ required_outputs_done(p))
      BY <2>8, <3>1, <3>3, CompleteKept DEF EndStep
    <3> QED BY <3>2, <3>3
  <2> QED BY <1>3, <2>2, <2>3, <2>4, <2>5, <2>6, <2>7, <2>8 DEF ProcNext
<1>4. ASSUME NEW p \in Procs, Interruption(p) PROVE CompleteInv'
  BY <1>4, CompleteKept DEF Interruption
<1> QED
  BY <1>2, <1>3, <1>4 DEF AnyNext

LEMMA CompleteInit ==
  ASSUME NEW P, InitOf(P) PROVE CompleteInv
<1>1. \A e \in Edges : Up(e) \in Procs
  BY EdgeEnds
<1>2. \A e \in Edges : q[e] = <<>> /\ todo[Up(e)] = <<>>
  BY <1>1 DEF InitOf
<1>3. \A e \in Edges : PushTo(e) = {} /\ 1..Len(q[e]) = {}
  BY <1>2, NoCalls DEF PushTo
<1> QED
  BY <1>3 DEF CompleteInv

LEMMA CompleteImplies ==
  ASSUME TypeOK, CompleteInv PROVE CompleteIsLast
<1>1. \A e \in Edges : DOMAIN q[e] = 1..Len(q[e])
  BY LenProperties DEF TypeOK
<1> QED
  BY <1>1 DEF CompleteInv, CompleteIsLast

-----------------------------------------------------------------------------
(* A step whose result nobody reads ends the process.                      *)
WastedInv ==
  \A p \in Procs : wasted[p] <= 1 /\
    (wasted[p] = 1 => is_complete[p] \/ (pc[p] # "top" /\ OutputsDone(p)))


LEMMA ClosedStays ==
  ASSUME BaseInv, [AnyNext]_vars
  PROVE  /\ \A e \in Edges : closed[e] => closed'[e]
         /\ \A p \in Procs : is_complete[p] => is_complete'[p]
<1>1. TypeOK
  BY DEF BaseInv
<1>2. ASSUME NEW p \in Procs, Stops(p)
      PROVE  /\ \A e \in Edges : closed[e] => closed'[e]
             /\ \A r \in Procs : is_complete[r] => is_complete'[r]
  BY <1>1, <1>2, Stopping
<1>3. ASSUME NEW p \in Procs, ProcNext(p)
      PROVE  Stops(p) \/ (closed' = closed /\ is_complete' = is_complete)
  <2>1. CASE Propagate(p)
    BY <2>1 DEF Propagate
  <2>2. CASE Step(p)
    BY <2>2 DEF Step
  <2>3. CASE StepAndStop(p)
    BY <2>3 DEF StepAndStop, Stops
  <2>4. CASE StepAfterCompletion(p)
    BY <2>4 DEF StepAfterCompletion
  <2>5. CASE Grab(p)
    BY <2>5 DEF Grab
  <2>6. CASE Push(p)
    BY <2>6 DEF Push
  <2>7. CASE EndStep(p)
    BY <2>7 DEF EndStep, Stops
  <2> QED BY <1>3, <2>1, <2>2, <2>3, <2>4, <2>5, <2>6, <2>7 DEF ProcNext
<1> QED
  BY <1>2, <1>3, Zenon DEF AnyNext, Interruption, vars

LEMMA DoneStays ==
  ASSUME NEW p \in Procs, \A e \in Edges : closed[e] => closed'[e], OutputsDone(p)
  PROVE  OutputsDone(p)'
<1>1. \A i \in DOMAIN Outputs[p] : PortEdges(Outputs[p][i]) \subseteq Edges
  BY OutputPorts
<1>2. OutputsDone(p)' <=>
        LET ports == {i \in DOMAIN Outputs[p] : Outputs[p][i].required}
        IN  ports # {} /\ \A i \in ports : \A e \in PortEdges(Outputs[p][i]) : closed'[e]
  BY DEF OutputsDone, PortEdges
<1> QED
  BY <1>1, <1>2 DEF OutputsDone

LEMMA WastedNext ==
  ASSUME BaseInv, WastedInv, [AnyNext]_vars PROVE WastedInv'
<1>1. TypeOK
  BY DEF BaseInv
<1>2. /\ \A e \in Edges : closed[e] => closed'[e]
      /\ \A p \in Procs : is_complete[p] => is_complete'[p]
      /\ \A p \in Procs : OutputsDone(p) => OutputsDone(p)'
  BY ClosedStays, DoneStays
<1>3. SUFFICES ASSUME NEW r \in Procs
      PROVE  wasted'[r] <= 1 /\
               (wasted'[r] = 1 => is_complete'[r] \/ (pc'[r] # "top" /\ OutputsDone(r)'))
  BY DEF WastedInv
<1>4. wasted[r] <= 1 /\ (wasted[r] = 1 => is_complete[r] \/ (pc[r] # "top" /\ OutputsDone(r)))
  BY DEF WastedInv
<1>5. CASE wasted'[r] = wasted[r] /\ (pc'[r] = "top" => pc[r] = "top")
  BY <1>2, <1>4, <1>5
<1>6. CASE UNCHANGED vars
  BY <1>5, <1>6 DEF vars
<1>7. ASSUME NEW p \in Procs, ProcNext(p)
      PROVE  wasted'[r] <= 1 /\
               (wasted'[r] = 1 => is_complete'[r] \/ (pc'[r] # "top" /\ OutputsDone(r)'))
  <2>1. CASE Propagate(p)
    BY <1>1, <1>5, <2>1 DEF Propagate, Begin, TypeOK
  <2>2. CASE Step(p)
    <3>1. /\ pc[p] = "top" /\ pc' = [pc EXCEPT ![p] = "busy"] /\ ~is_complete[p]
          /\ wasted' = [wasted EXCEPT ![p] = IF OutputsDone(p) THEN wasted[p] + 1 ELSE wasted[p]]
      BY <2>2 DEF Step, Begin
    <3>2. CASE r # p
      BY <1>1, <1>5, <3>1, <3>2 DEF TypeOK
    <3>3. CASE r = p
      <4>1. wasted[p] = 0 /\ pc'[p] = "busy"
        BY <1>1, <1>4, <3>1, <3>3 DEF TypeOK
      <4>2. wasted'[p] = IF OutputsDone(p) THEN 1 ELSE 0
        BY <1>1, <3>1, <4>1 DEF TypeOK
      <4> QED BY <1>2, <3>3, <4>1, <4>2
    <3> QED BY <3>2, <3>3
  <2>3. CASE StepAndStop(p)
    BY <1>1, <1>5, <2>3 DEF StepAndStop, Begin, TypeOK
  <2>4. CASE StepAfterCompletion(p)
    BY <1>1, <1>5, <2>4 DEF StepAfterCompletion, Begin, TypeOK
  <2>5. CASE Grab(p)
    BY <1>5, <2>5 DEF Grab
  <2>6. CASE Push(p)
    BY <1>5, <2>6 DEF Push
  <2>7. CASE EndStep(p)
    <3>1. wasted' = wasted /\ pc[p] = "busy"
      BY <2>7 DEF EndStep
    <3>2. CASE r # p
      BY <1>1, <1>5, <2>7, <3>1, <3>2 DEF EndStep, TypeOK
    <3>3. CASE r = p
      <4>1. OutputsDone(p) => is_complete'[p]
        <5> SUFFICES ASSUME OutputsDone(p) PROVE is_complete'[p]
          OBVIOUS
        <5>1. Stops(p)
          BY <2>7 DEF EndStep, required_outputs_done, Stops
        <5> QED BY <1>1, <5>1, Stopping
      <4> QED BY <1>2, <1>4, <3>1, <3>3, <4>1
    <3> QED BY <3>2, <3>3
  <2> QED BY <1>7, <2>1, <2>2, <2>3, <2>4, <2>5, <2>6, <2>7 DEF ProcNext
<1>8. ASSUME NEW p \in Procs, Interruption(p) PROVE wasted'[r] = wasted[r] /\ (pc'[r] = "top" => pc[r] = "top")
  BY <1>1, <1>8 DEF Interruption, TypeOK
<1> QED
  BY <1>5, <1>6, <1>7, <1>8 DEF AnyNext

LEMMA WastedInit ==
  ASSUME NEW P, InitOf(P) PROVE WastedInv
BY DEF InitOf, WastedInv

-----------------------------------------------------------------------------
(* Both specifications take the steps of Dataflow.                         *)
Begins == \E P : InitOf(P) /\ \A e \in Edges : Up(e) \in P <=> Down(e) \in P

LEMMA SpecSteps ==
  Spec => Begins /\ [][Next]_vars /\ [][AnyNext]_vars
<1>1. Init => Begins
  BY EdgeEnds DEF Init, Begins
<1>2. [Next]_vars => [AnyNext]_vars
  BY DEF Next, Joined, AnyNext
<1> QED
  BY <1>1, <1>2, PTL DEF Spec

LEMMA SyncSteps ==
  SyncSpec => Begins /\ [][Next]_vars /\ [][AnyNext]_vars
<1>1. SyncInit => Begins
  BY PipelinesAssumption DEF SyncInit, Begins
<1>2. [SyncNext]_allVars => [Next]_vars
  BY DEF SyncNext, Turn, OwnThread, Next, Joined, allVars
<1>4. [Next]_vars => [AnyNext]_vars
  BY DEF Next, Joined, AnyNext
<1>3. SyncSpec => SyncInit /\ [][SyncNext]_allVars
  BY PTL DEF SyncSpec
<1> QED
  BY <1>1, <1>2, <1>3, <1>4, PTL

(* The types, and the capacities of the edges, in every reachable state.   *)
THEOREM TypesCorrect ==
  /\ Spec => []TypeOK
  /\ SyncSpec => []TypeOK
<1>1. Begins => BaseInv
  BY BaseInit DEF Begins
<1>2. BaseInv /\ [AnyNext]_vars => BaseInv'
  BY BaseNext
<1>3. BaseInv => TypeOK
  BY DEF BaseInv
<1> QED
  BY <1>1, <1>2, <1>3, SpecSteps, SyncSteps, PTL

(* No edge has anything behind its complete datum, and never a second one. *)
THEOREM CompleteComesLast ==
  /\ Spec => []CompleteIsLast
  /\ SyncSpec => []CompleteIsLast
<1>1. Begins => BaseInv /\ CompleteInv
  BY BaseInit, CompleteInit DEF Begins
<1>2. (BaseInv /\ CompleteInv) /\ [AnyNext]_vars => (BaseInv /\ CompleteInv)'
  BY BaseNext, CompleteNext
<1>3. BaseInv /\ CompleteInv => CompleteIsLast
  BY CompleteImplies DEF BaseInv
<1> QED
  BY <1>1, <1>2, <1>3, SpecSteps, SyncSteps, PTL

(* When all its readers have ended, a process computes at most one more    *)
(* result.                                                                 *)
THEOREM OneWastedStep ==
  /\ Spec => []NoWorkForNobody
  /\ SyncSpec => []NoWorkForNobody
<1>1. Begins => BaseInv /\ WastedInv
  BY BaseInit, WastedInit DEF Begins
<1>2. (BaseInv /\ WastedInv) /\ [AnyNext]_vars => (BaseInv /\ WastedInv)'
  BY BaseNext, WastedNext
<1>3. BaseInv /\ WastedInv => NoWorkForNobody
  BY DEF WastedInv, NoWorkForNobody
<1> QED
  BY <1>1, <1>2, <1>3, SpecSteps, SyncSteps, PTL

-----------------------------------------------------------------------------
(* The stamps.                                                             *)

(* Required inputs are read equally often, one by one if there is flush.   *)
Aligned ==
  \A p \in Procs : \A e, f \in RequiredInputs(p) : e # f =>
    InFreq[e] = InFreq[f] /\ (InFreq[e] = 1 \/ "flush" \notin SourceKinds)

(* The stamps on an edge from a on: those in the queue, those of the k     *)
(* pushes to come, and then that of the port.                              *)
EdgeChain(e, a, k) ==
  /\ \A i \in 1..Len(q[e]) : q[e][i].stamp = a + (i - 1) * Inc(e)
  /\ {c.datum.stamp : c \in PushTo(e)} = {a + (Len(q[e]) + l) * Inc(e) : l \in 0..(k - 1)}
  /\ stamp[Up(e)][PortOf(e)] = a + (Len(q[e]) + k) * Inc(e)

(* The stamp in front of an edge when the step has made its calls.         *)
Reach(e, a) == IF Reads(todo[Down(e)], e) THEN a + InFreq[e] * Inc(e) ELSE a

ChainInv ==
  \E at, left \in [Edges -> Nat] :
    /\ \A e \in Edges : closed[e] \/ EdgeChain(e, at[e], left[e])
    /\ \A p \in Procs : Ended(p) \/
         \A e, f \in RequiredInputs(p) : Reach(e, at[e]) = Reach(f, at[f])

LEMMA Multiples ==
  ASSUME NEW a \in Nat, NEW n \in Nat, NEW k \in Nat, NEW d \in Nat \ {0}
  PROVE  /\ n * d \in Nat /\ a + n * d \in Nat
         /\ (a + n * d) + k * d = a + (n + k) * d
         /\ n < k => n * d < k * d
<1>1. n * d \in Nat /\ k * d \in Nat
  OBVIOUS
<1>2. (n + k) * d = n * d + k * d
  OBVIOUS
<1>3. ASSUME n < k PROVE n * d < k * d
  <2>1. k - n \in Nat \ {0}
    BY <1>3
  <2>2. (k - n) * d \in Nat \ {0}
    BY <2>1, PositiveProduct
  <2>3. k * d = n * d + (k - n) * d
    OBVIOUS
  <2> QED BY <1>1, <2>2, <2>3
<1> QED
  BY <1>1, <1>2, <1>3

LEMMA ChainSame ==
  ASSUME NEW e, NEW a, NEW k, EdgeChain(e, a, k), q'[e] = q[e], PushTo(e)' = PushTo(e),
         stamp'[Up(e)] = stamp[Up(e)]
  PROVE  EdgeChain(e, a, k)'
BY DEF EdgeChain

LEMMA ChainStart ==
  ASSUME Stamps, QueueTypes, NEW e \in Edges, NEW a \in Nat, NEW k \in Nat, EdgeChain(e, a, k), NEW t \in Types,
         PushTo(e) = {}, PushTo(e)' = NewPushes(Up(e), e, t),
         stamp' = StampsAfter(Up(e), t), q'[e] = q[e]
  PROVE  EdgeChain(e, a, Times(Up(e), PortOf(e), t))'
<1> DEFINE p == Up(e)
           i == PortOf(e)
           d == Inc(e)
           n == Len(q[e])
           T == Times(p, i, t)
<1>1. p \in Procs /\ i \in DOMAIN Outputs[p] /\ d \in Nat \ {0} /\ Increment(p, i) = d /\ n \in Nat
  BY EdgeEnds, PortOfEdge, IncOfEdge, LenProperties DEF QueueTypes
<1>2. T \in Nat \ {0}
  BY <1>1, TimesNat
<1>3. k = 0
  <2>1. ASSUME k # 0 PROVE FALSE
    <3>1. 0 \in 0..(k - 1)
      BY ONLY <2>1, k \in Nat
    <3>2. {c.datum.stamp : c \in PushTo(e)} = {a + (n + l) * d : l \in 0..(k - 1)}
      BY DEF EdgeChain
    <3> HIDE DEF n, d
    <3>3. a + (n + 0) * d \in {c.datum.stamp : c \in PushTo(e)}
      BY <3>1, <3>2, Zenon
    <3>4. PushTo(e) # {}
      BY <3>3
    <3> QED BY <3>4
  <2> QED BY <2>1
<1>4. stamp[p][i] = a + n * d
  BY <1>1, <1>3 DEF EdgeChain
<1>5. stamp'[p][i] = stamp[p][i] + T * d
  BY <1>1, StampsAdvance
<1> HIDE DEF p, i, d, n, T
<1>6. stamp'[p][i] = a + (n + T) * d
  BY <1>1, <1>2, <1>4, <1>5, Multiples
<1>7. \A r \in 1..T : StampAt(p, i, r) = a + (n + (r - 1)) * d
  <2> TAKE r \in 1..T
  <2>1. r - 1 \in Nat
    BY <1>2
  <2>2. StampAt(p, i, r) = (a + n * d) + (r - 1) * d
    BY <1>1, <1>4 DEF StampAt
  <2> QED BY <1>1, <2>1, <2>2, Multiples
<1>8. {c.datum.stamp : c \in NewPushes(p, e, t)} = {a + (n + l) * d : l \in 0..(T - 1)}
  <2>1. \A r : PushOf(e, t, StampAt(p, i, r)).datum.stamp = StampAt(p, i, r)
    BY DEF PushOf
  <2>2. NewPushes(p, e, t) = {PushOf(e, t, StampAt(p, i, r)) : r \in 1..T}
    BY DEF NewPushes, T, i
  <2>3. ASSUME NEW c \in NewPushes(p, e, t)
        PROVE  c.datum.stamp \in {a + (n + l) * d : l \in 0..(T - 1)}
    <3>1. PICK r \in 1..T : c = PushOf(e, t, StampAt(p, i, r))
      BY <2>2, <2>3
    <3>2. c.datum.stamp = a + (n + (r - 1)) * d /\ r - 1 \in 0..(T - 1)
      BY <1>2, <1>7, <2>1, <3>1
    <3> QED BY <3>2
  <2>4. ASSUME NEW l \in 0..(T - 1)
        PROVE  a + (n + l) * d \in {c.datum.stamp : c \in NewPushes(p, e, t)}
    <3>1. l + 1 \in 1..T /\ (l + 1) - 1 = l
      BY <1>2
    <3>2. StampAt(p, i, l + 1) = a + (n + l) * d
      BY <1>7, <3>1
    <3>3. PushOf(e, t, StampAt(p, i, l + 1)) \in NewPushes(p, e, t)
      BY <2>2, <3>1
    <3> QED BY <2>1, <3>2, <3>3
  <2> QED BY <2>3, <2>4
<1>9. Len(q'[e]) = n /\ \A j \in 1..n : q'[e][j].stamp = a + (j - 1) * d
  BY DEF EdgeChain, n, d
<1>10. PushTo(e)' = NewPushes(p, e, t)
  BY DEF p
<1> QED
  BY <1>6, <1>8, <1>9, <1>10 DEF EdgeChain, p, i, d, n, T

LEMMA ChainGrab ==
  ASSUME QueueTypes, NEW e \in Edges, NEW a \in Nat, NEW k \in Nat, EdgeChain(e, a, k),
         NEW T \in Nat, T <= Len(q[e]), Len(q'[e]) = Len(q[e]) - T,
         \A i \in 1..Len(q'[e]) : i + T \in 1..Len(q[e]) /\ q'[e][i] = q[e][i + T],
         PushTo(e)' = PushTo(e), stamp' = stamp
  PROVE  EdgeChain(e, a + T * Inc(e), k)' /\ a + T * Inc(e) \in Nat
<1> DEFINE d == Inc(e)
           n == Len(q[e])
           m == Len(q'[e])
           b == a + T * d
<1>1. d \in Nat \ {0} /\ n \in Nat /\ m \in Nat /\ n = T + m
  BY IncOfEdge, LenProperties DEF QueueTypes
<1>2. /\ \A i \in 1..n : q[e][i].stamp = a + (i - 1) * d
      /\ {c.datum.stamp : c \in PushTo(e)} = {a + (n + l) * d : l \in 0..(k - 1)}
      /\ stamp[Up(e)][PortOf(e)] = a + (n + k) * d
  BY DEF EdgeChain
<1>3. \A i \in 1..m : i + T \in 1..n /\ q'[e][i] = q[e][i + T]
  OBVIOUS
<1> HIDE DEF d, n, m
<1>4. b \in Nat /\ \A l \in Nat : b + l * d = a + (T + l) * d
  <2>1. a + T * d \in Nat
    BY <1>1, Multiples
  <2>2. \A l \in Nat : (a + T * d) + l * d = a + (T + l) * d
    BY <1>1, Multiples
  <2> QED BY <2>1, <2>2 DEF b
<1> HIDE DEF b
<1>5. \A l \in Nat : b + (m + l) * d = a + (n + l) * d
  <2> TAKE l \in Nat
  <2>1. m + l \in Nat /\ T + (m + l) = n + l
    BY <1>1
  <2>2. b + (m + l) * d = a + (T + (m + l)) * d
    BY <1>4, <2>1
  <2> QED BY <2>1, <2>2
<1>6. ASSUME NEW i \in 1..m PROVE q'[e][i].stamp = b + (i - 1) * d
  <2>1. q'[e][i].stamp = a + ((i + T) - 1) * d
    BY <1>2, <1>3
  <2>2. i - 1 \in Nat /\ (i + T) - 1 = T + (i - 1)
    BY <1>1
  <2>3. b + (i - 1) * d = a + (T + (i - 1)) * d
    BY <1>4, <2>2
  <2> QED BY <2>1, <2>2, <2>3
<1>7. {a + (n + l) * d : l \in 0..(k - 1)} = {b + (m + l) * d : l \in 0..(k - 1)}
  BY <1>5
<1>8. {c.datum.stamp : c \in PushTo(e)'} = {b + (m + l) * d : l \in 0..(k - 1)}
  BY <1>2, <1>7
<1>9. stamp'[Up(e)][PortOf(e)] = b + (m + k) * d
  BY <1>2, <1>5
<1> QED
  BY <1>4, <1>6, <1>8, <1>9 DEF EdgeChain, d, m, b

LEMMA ChainPush ==
  ASSUME QueueTypes, NEW e \in Edges, NEW a \in Nat, NEW k \in Nat, EdgeChain(e, a, k),
         NEW h, NEW d \in Data, h.datum = d, PushTo(e) = {h} \cup PushTo(e)',
         \A c \in PushTo(e)' : d.stamp < c.datum.stamp,
         Len(q'[e]) = Len(q[e]) + 1, q'[e][Len(q[e]) + 1] = d,
         \A i \in 1..Len(q[e]) : q'[e][i] = q[e][i], stamp' = stamp
  PROVE  k - 1 \in Nat /\ EdgeChain(e, a, k - 1)'
<1> DEFINE I == Inc(e)
           n == Len(q[e])
           S == PushTo(e)
           R == PushTo(e)'
<1>1. I \in Nat \ {0} /\ n \in Nat /\ d.stamp \in Nat
  BY IncOfEdge, LenProperties DEF QueueTypes, Data
<1>2. /\ \A i \in 1..n : q[e][i].stamp = a + (i - 1) * I
      /\ {c.datum.stamp : c \in S} = {a + (n + l) * I : l \in 0..(k - 1)}
      /\ stamp[Up(e)][PortOf(e)] = a + (n + k) * I
  BY DEF EdgeChain
<1>3. /\ S = {h} \cup R /\ \A c \in R : d.stamp < c.datum.stamp
      /\ Len(q'[e]) = n + 1 /\ q'[e][n + 1] = d
      /\ \A i \in 1..n : q'[e][i] = q[e][i]
  OBVIOUS
<1> HIDE DEF I, n, S, R
<1>4. PICK l \in 0..(k - 1) : d.stamp = a + (n + l) * I
  <2>1. d.stamp \in {c.datum.stamp : c \in S}
    BY <1>3
  <2> QED BY <1>2, <2>1
<1>5. k \in Nat \ {0} /\ k - 1 \in Nat
  BY <1>4
<1>6. \A x, y \in Nat : x < y => a + (n + x) * I < a + (n + y) * I
  <2> SUFFICES ASSUME NEW x \in Nat, NEW y \in Nat, x < y PROVE a + (n + x) * I < a + (n + y) * I
    OBVIOUS
  <2>1. n + x \in Nat /\ n + y \in Nat /\ n + x < n + y
    BY <1>1
  <2>2. (n + x) * I \in Nat /\ (n + y) * I \in Nat /\ (n + x) * I < (n + y) * I
    BY <1>1, <2>1, Multiples
  <2> QED BY <2>2
<1>7. l = 0
  <2> SUFFICES ASSUME 0 < l PROVE FALSE
    BY <1>4
  <2>1. a + (n + 0) * I < d.stamp
    BY <1>4, <1>6
  <2>2. a + (n + 0) * I \in {c.datum.stamp : c \in S}
    <3>1. 0 \in 0..(k - 1)
      BY <1>5
    <3>2. a + (n + 0) * I \in {a + (n + x) * I : x \in 0..(k - 1)}
      BY <3>1
    <3> QED BY <1>2, <3>2
  <2>3. PICK c \in S : c.datum.stamp = a + (n + 0) * I
    BY <2>2
  <2>4. a + (n + 0) * I \in Nat
    BY <1>1, Multiples
  <2>5. c # h
    BY <1>1, <2>1, <2>3, <2>4
  <2>6. d.stamp < c.datum.stamp
    BY <1>3, <2>5
  <2> QED BY <1>1, <2>1, <2>3, <2>4, <2>6
<1>8. d.stamp = a + n * I
  BY <1>1, <1>4, <1>7
<1>9. \A x \in Nat : (n + 1) + x = n + (x + 1)
  BY <1>1
<1>10. ASSUME NEW c \in R
       PROVE  c.datum.stamp \in {a + ((n + 1) + x) * I : x \in 0..((k - 1) - 1)}
  <2>1. c.datum.stamp \in {c2.datum.stamp : c2 \in S}
    BY <1>3
  <2>2. PICK y \in 0..(k - 1) : c.datum.stamp = a + (n + y) * I
    BY <1>2, <2>1
  <2>3. y # 0
    <3> SUFFICES ASSUME y = 0 PROVE FALSE
      OBVIOUS
    <3>1. c.datum.stamp = d.stamp
      BY <1>4, <1>7, <2>2
    <3> QED BY <1>1, <1>3, <3>1
  <2>4. y - 1 \in 0..((k - 1) - 1) /\ (n + 1) + (y - 1) = n + y
    BY <1>1, <2>3
  <2> QED BY <2>2, <2>4
<1>11. ASSUME NEW x \in 0..((k - 1) - 1)
       PROVE  a + ((n + 1) + x) * I \in {c.datum.stamp : c \in R}
  <2>1. x + 1 \in 0..(k - 1) /\ 0 < x + 1 /\ (n + 1) + x = n + (x + 1)
    BY <1>1, <1>5
  <2>2. a + (n + (x + 1)) * I \in {c.datum.stamp : c \in S}
    BY <1>2, <2>1
  <2>3. PICK c \in S : c.datum.stamp = a + (n + (x + 1)) * I
    BY <2>2
  <2>4. a + (n + 0) * I < a + (n + (x + 1)) * I
    BY <1>6, <2>1
  <2>5. c # h
    BY <1>1, <1>4, <1>7, <2>3, <2>4
  <2>6. c \in R
    BY <1>3, <2>5
  <2> QED BY <2>1, <2>3, <2>6
<1>12. {c.datum.stamp : c \in R} = {a + ((n + 1) + x) * I : x \in 0..((k - 1) - 1)}
  BY <1>10, <1>11
<1>13. (n + 1) + (k - 1) = n + k
  BY <1>1, <1>5
<1>14. ASSUME NEW i \in 1..(n + 1) PROVE q'[e][i].stamp = a + (i - 1) * I
  <2>1. CASE i \in 1..n
    BY <1>2, <1>3, <2>1
  <2>2. CASE i = n + 1
    <3>1. (n + 1) - 1 = n
      BY <1>1
    <3> QED BY <1>3, <1>8, <2>2, <3>1
  <2> QED BY <1>1, <2>1, <2>2
<1>15. stamp'[Up(e)][PortOf(e)] = a + ((n + 1) + (k - 1)) * I
  BY <1>2, <1>13
<1>16. Len(q'[e]) = n + 1 /\ {c.datum.stamp : c \in PushTo(e)'} = {c.datum.stamp : c \in R}
  BY <1>3 DEF R
<1>17. /\ \A i \in 1..Len(q'[e]) : q'[e][i].stamp = a + (i - 1) * I
       /\ {c.datum.stamp : c \in PushTo(e)'} = {a + (Len(q'[e]) + x) * I : x \in 0..((k - 1) - 1)}
       /\ stamp'[Up(e)][PortOf(e)] = a + (Len(q'[e]) + (k - 1)) * I
  <2>1. \A i \in 1..Len(q'[e]) : q'[e][i].stamp = a + (i - 1) * I
    BY <1>14, <1>16
  <2>2. {c.datum.stamp : c \in PushTo(e)'} = {a + (Len(q'[e]) + x) * I : x \in 0..((k - 1) - 1)}
    BY <1>12, <1>16
  <2>3. stamp'[Up(e)][PortOf(e)] = a + (Len(q'[e]) + (k - 1)) * I
    BY <1>15, <1>16
  <2> QED BY <2>1, <2>2, <2>3
<1> QED
  BY <1>5, <1>17 DEF EdgeChain, I

(* The types of what is pushed.                                            *)
Kinds == {"data", "complete"} \cup SourceKinds

KindsInv ==
  /\ \A e \in Edges : /\ \A i \in 1..Len(q[e]) : q[e][i].type \in Kinds
                      /\ \A c \in PushTo(e) : c.datum.type \in Kinds
  /\ \A p \in Procs : verdict[p] \in Kinds \cup {"none"}

(* What a step is to take is there, as it was when it was checked.         *)
FitInv ==
  \A p \in Procs : \A e \in RequiredInputs(p) : Reads(todo[p], e) =>
    Available(e) /\ \A i \in 1..Taken(e) : q[e][i].type = "complete" => verdict[p] = "complete"

LEMMA RequiredEdges ==
  \A p \in Procs : \A e \in RequiredInputs(p) : e \in Edges /\ Down(e) = p /\ e \in InputSet(p)
BY EdgeEnds DEF RequiredInputs

LEMMA KindsTypes ==
  Kinds \subseteq Types /\ "error" \notin Kinds /\ "none" \notin Kinds /\ "data" \in Kinds /\ "complete" \in Kinds
BY DataflowAssumption DEF Kinds, Types

LEMMA AtTheHeads ==
  ASSUME BaseInv, ChainInv, NEW p \in Procs, pc[p] = "top", ~is_complete[p],
         \A e \in RequiredInputs(p) : Available(e)
  PROVE  InStep(p)
<1>1. PICK at \in [Edges -> Nat], left \in [Edges -> Nat] :
        /\ \A e \in Edges : closed[e] \/ EdgeChain(e, at[e], left[e])
        /\ \A r \in Procs : Ended(r) \/
             \A e, f \in RequiredInputs(r) : Reach(e, at[e]) = Reach(f, at[f])
  BY DEF ChainInv
<1>2. ~Ended(p) /\ todo[p] = <<>>
  BY DEF Ended, BaseInv, CallsInv
<1>3. ASSUME NEW e \in RequiredInputs(p) PROVE Head(q[e]).stamp = at[e] /\ Reach(e, at[e]) = at[e]
  <2>1. e \in Edges /\ Down(e) = p /\ Available(e)
    BY RequiredEdges
  <2>2. ~closed[e]
    BY <2>1 DEF BaseInv, ClosedInv, Available
  <2>3. Len(q[e]) \in Nat \ {0} /\ Head(q[e]) = q[e][1]
    BY <2>1, TypedQueues, TakenPlaces DEF BaseInv
  <2>4. q[e][1].stamp = at[e] + (1 - 1) * Inc(e)
    BY <1>1, <2>1, <2>2, <2>3 DEF EdgeChain
  <2>5. Inc(e) \in Nat /\ at[e] \in Nat
    BY <2>1, IncOfEdge
  <2>6. at[e] + (1 - 1) * Inc(e) = at[e]
    BY <2>5
  <2>7. Reach(e, at[e]) = at[e]
    BY <1>2, <2>1, NoCalls DEF Reach
  <2> QED BY <2>3, <2>4, <2>6, <2>7
<1> QED
  BY <1>1, <1>2, <1>3 DEF InStep

LEMMA Judging ==
  ASSUME BaseInv, ChainInv, KindsInv, NEW p \in Procs, pc[p] = "top", ~is_complete[p],
         \A e \in RequiredInputs(p) : Available(e)
  PROVE  /\ check_required_input(p) \in Kinds \cup {"none"}
         /\ \A e \in RequiredInputs(p) : \A i \in 1..Taken(e) :
              q[e][i].type = "complete" => check_required_input(p) = "complete"
<1>1. InStep(p) /\ QueueTypes
  BY AtTheHeads, TypedQueues DEF BaseInv
<1>2. \A e \in RequiredInputs(p) : \A i \in 1..Taken(e) : q[e][i].type \in Kinds
  <2> TAKE e \in RequiredInputs(p)
  <2> TAKE i \in 1..Taken(e)
  <2>1. e \in Edges /\ i \in 1..Len(q[e])
    BY <1>1, RequiredEdges, TakenPlaces
  <2> QED BY <2>1 DEF KindsInv
<1>3. CASE RequiredInputs(p) = {} /\ check_required_input(p) = "none"
  BY <1>3
<1>4. CASE \E e \in RequiredInputs(p) : \E i \in 1..Taken(e) :
             LET m == q[e][i].type
             IN  /\ check_required_input(p) = IF m = "data" THEN "none" ELSE m
                 /\ \A f \in RequiredInputs(p) : \A j \in 1..Taken(f) :
                      Rank[q[f][j].type] <= Rank[m]
  <2>0. PICK e \in RequiredInputs(p) : \E i \in 1..Taken(e) :
          /\ check_required_input(p) = IF q[e][i].type = "data" THEN "none" ELSE q[e][i].type
          /\ \A f \in RequiredInputs(p) : \A j \in 1..Taken(f) :
                Rank[q[f][j].type] <= Rank[q[e][i].type]
    BY <1>4
  <2>1. PICK i \in 1..Taken(e) :
          /\ check_required_input(p) = IF q[e][i].type = "data" THEN "none" ELSE q[e][i].type
          /\ \A f \in RequiredInputs(p) : \A j \in 1..Taken(f) :
                Rank[q[f][j].type] <= Rank[q[e][i].type]
    BY <2>0
  <2> DEFINE m == q[e][i].type
  <2>2. m \in Kinds
    BY <1>2
  <2>3. /\ check_required_input(p) = IF m = "data" THEN "none" ELSE m
        /\ \A f \in RequiredInputs(p) : \A j \in 1..Taken(f) : Rank[q[f][j].type] <= Rank[m]
    BY <2>1
  <2> HIDE DEF m
  <2>4. ASSUME NEW f \in RequiredInputs(p), NEW j \in 1..Taken(f), q[f][j].type = "complete"
        PROVE  check_required_input(p) = "complete"
    <3>1. Rank["complete"] <= Rank[m]
      BY <2>3, <2>4
    <3>2. m = "complete"
      BY <2>2, <3>1, KindsTypes DEF Types, Rank
    <3> QED BY <2>3, <3>2
  <2> QED BY <2>2, <2>3, <2>4
<1> QED
  BY <1>1, <1>3, <1>4, CheckedInputs

(* What is available stays so while others write.                          *)
LEMMA AvailableKept ==
  ASSUME QueueTypes, NEW e \in Edges, Available(e), q' \in [Edges -> Seq(Data)],
         Len(q'[e]) >= Len(q[e]), \A i \in 1..Len(q[e]) : q'[e][i] = q[e][i]
  PROVE  /\ Available(e)' /\ Taken(e)' = Taken(e)
         /\ \A i \in 1..Taken(e) : q'[e][i] = q[e][i]
<1>1. /\ Len(q[e]) \in Nat \ {0} /\ Head(q[e]) = q[e][1] /\ Taken(e) \in 1..Len(q[e])
  BY TakenPlaces
<1>2. q'[e] \in Seq(Data) /\ Len(q'[e]) \in Nat \ {0}
  BY <1>1, LenProperties
<1>3. q'[e] # <<>> /\ Head(q'[e]) = q'[e][1]
  BY <1>2, HeadAndTail, EmptySeq
<1>4. Head(q'[e]) = Head(q[e])
  BY <1>1, <1>3
<1>5. InFreq[e] \in Nat
  BY DataflowAssumption
<1>6. Available(e)' /\ Taken(e)' = Taken(e)
  BY <1>1, <1>2, <1>3, <1>4, <1>5 DEF Available, Taken
<1> QED
  BY <1>1, <1>6

SyncInv == ChainInv /\ KindsInv /\ FitInv

LEMMA StartingKinds ==
  ASSUME BaseInv, ChainInv, KindsInv, NEW p \in Procs, Propagate(p) \/ Step(p)
  PROVE  \E t \in Kinds : \E v \in Kinds \cup {"none"} :
           /\ Starts(p, t, v)
           /\ \A e \in RequiredInputs(p) : \A i \in 1..Taken(e) : q[e][i].type = "complete" => v = "complete"
<1>1. TypeOK
  BY DEF BaseInv
<1>2. pc[p] = "top" /\ ~is_complete[p] /\ \A e \in RequiredInputs(p) : Available(e)
  BY DEF Propagate, Step, Begin
<1>3. /\ check_required_input(p) \in Kinds \cup {"none"}
      /\ \A e \in RequiredInputs(p) : \A i \in 1..Taken(e) :
           q[e][i].type = "complete" => check_required_input(p) = "complete"
  BY <1>2, Judging
<1>4. CASE Propagate(p)
  <2>1. /\ Starts(p, check_required_input(p), check_required_input(p))
        /\ check_required_input(p) # "none"
    BY <1>1, <1>4, Starting DEF Propagate
  <2> QED BY <1>3, <2>1
<1>5. CASE Step(p)
  <2>1. check_required_input(p) = "none"
    BY <1>5 DEF Step
  <2>2. PICK t \in {"data"} \cup SourceKinds : Starts(p, t, "none")
    BY <1>1, <1>5, Starting
  <2>3. t \in Kinds
    BY DEF Kinds
  <2> QED BY <1>3, <2>1, <2>2, <2>3
<1> QED
  BY <1>4, <1>5

LEMMA KindsDecided ==
  ASSUME BaseInv, KindsInv, NEW p \in Procs, NEW t \in Kinds, pc[p] = "top",
         todo' = [todo EXCEPT ![p] = Grabs(p) \o Pushes(p, t)] \/ todo' = [todo EXCEPT ![p] = Pushes(p, t)],
         \A e \in Edges : q'[e] = q[e] \/ q'[e] = <<>>,
         \A r \in Procs : verdict'[r] \in Kinds \cup {"none"}
  PROVE  KindsInv'
<1>1. t \in Types /\ Stamps
  BY KindsTypes, TypedQueues DEF BaseInv
<1>2. /\ \A e \in Edges : Up(e) # p => PushTo(e)' = PushTo(e)
      /\ \A e \in Edges : Up(e) = p => PushTo(e)' = NewPushes(Up(e), e, t)
  BY <1>1, DecidedPushes
<1>3. \A e \in Edges : \A c \in PushTo(e)' : c.datum.type \in Kinds
  BY <1>1, <1>2, OneComplete DEF KindsInv
<1>4. \A e \in Edges : \A i \in 1..Len(q'[e]) : q'[e][i].type \in Kinds
  <2> TAKE e \in Edges
  <2>1. q'[e] = <<>> => 1..Len(q'[e]) = {}
    OBVIOUS
  <2> QED BY <2>1 DEF KindsInv
<1> QED
  BY <1>3, <1>4 DEF KindsInv

LEMMA KindsNext ==
  ASSUME BaseInv, ChainInv, KindsInv, [AnyNext]_vars PROVE KindsInv'
<1>0. TypeOK /\ ClosedInv /\ \A r \in Procs : verdict[r] \in Kinds \cup {"none"}
  BY DEF BaseInv, KindsInv
<1>1. ASSUME todo' = todo, \A e \in Edges : q'[e] = q[e] \/ q'[e] = <<>>,
             \A r \in Procs : verdict'[r] \in Kinds \cup {"none"}
      PROVE  KindsInv'
  <2>1. \A e \in Edges : PushTo(e)' = PushTo(e)
    BY <1>1 DEF PushTo, PushesIn, Elems
  <2>2. \A e \in Edges : \A i \in 1..Len(q'[e]) : q'[e][i].type \in Kinds
    <3> TAKE e \in Edges
    <3>1. q'[e] = <<>> => 1..Len(q'[e]) = {}
      OBVIOUS
    <3> QED BY <1>1, <3>1 DEF KindsInv
  <2> QED BY <1>1, <2>1, <2>2 DEF KindsInv
<1>2. CASE UNCHANGED vars
  BY <1>0, <1>1, <1>2 DEF vars
<1>3. ASSUME NEW p \in Procs, ProcNext(p) PROVE KindsInv'
  <2>1. CASE Propagate(p) \/ Step(p)
    <3>1. PICK t \in Kinds, v \in Kinds \cup {"none"} : Starts(p, t, v)
      BY <2>1, StartingKinds
    <3>2. /\ pc[p] = "top" /\ q' = q /\ verdict' = [verdict EXCEPT ![p] = v]
          /\ todo' = [todo EXCEPT ![p] = Grabs(p) \o Pushes(p, t)]
      BY <3>1 DEF Starts, Begin
    <3>3. \A r \in Procs : verdict'[r] \in Kinds \cup {"none"}
      BY <1>0, <3>2 DEF TypeOK
    <3> QED BY <3>2, <3>3, KindsDecided
  <2>2. CASE StepAndStop(p)
    <3>1. /\ pc[p] = "top" /\ Stops(p) /\ verdict' = [verdict EXCEPT ![p] = "none"]
          /\ todo' = [todo EXCEPT ![p] = Pushes(p, "complete")]
      BY <2>2 DEF StepAndStop, Begin, Stops
    <3>2. \A e \in Edges : q'[e] = q[e] \/ q'[e] = <<>>
      BY <1>0, <3>1, Stopping
    <3>3. \A r \in Procs : verdict'[r] \in Kinds \cup {"none"}
      BY <1>0, <3>1 DEF TypeOK
    <3> QED BY <3>1, <3>2, <3>3, KindsDecided, KindsTypes
  <2>3. CASE StepAfterCompletion(p)
    <3>1. todo' = todo /\ q' = q /\ verdict' = [verdict EXCEPT ![p] = "none"]
      BY <2>3 DEF StepAfterCompletion
    <3>2. \A r \in Procs : verdict'[r] \in Kinds \cup {"none"}
      BY <1>0, <3>1 DEF TypeOK
    <3> QED BY <1>1, <3>1, <3>2
  <2>4. CASE Grab(p)
    <3>1. CallMade(p) /\ \E f \in InputSet(p) : Grabbed(p, f)
      BY <2>4, Grabbing
    <3>2. PICK f \in InputSet(p) : Grabbed(p, f)
      BY <3>1
    <3>3. \A e \in Edges : PushTo(e)' = PushTo(e)
      BY <3>1, <3>2, CallsLeft
    <3>4. ASSUME NEW e \in Edges, NEW i \in 1..Len(q'[e]) PROVE q'[e][i].type \in Kinds
      <4>1. CASE e = f
        <5>1. i + Taken(e) \in 1..Len(q[e]) /\ q'[e][i] = q[e][i + Taken(e)]
          BY <3>2, <3>4, <4>1 DEF Grabbed
        <5> QED BY <5>1 DEF KindsInv
      <4>2. CASE e # f
        BY <3>2, <3>4, <4>2 DEF Grabbed, KindsInv
      <4> QED BY <4>1, <4>2
    <3>5. verdict' = verdict
      BY <3>1 DEF CallMade
    <3> QED BY <3>3, <3>4, <3>5 DEF KindsInv
  <2>5. CASE Push(p)
    <3>1. CallMade(p) /\ \E f \in OutputSet(p) : \E d \in Data : Pushed(p, f, d)
      BY <2>5, Pushing
    <3>2. PICK f \in OutputSet(p), d \in Data : Pushed(p, f, d)
      BY <3>1
    <3>3. /\ \A e \in Edges : PushTo(e)' \subseteq PushTo(e)
          /\ Head(todo[p]) \in PushTo(f)
      BY <3>1, <3>2, CallsLeft
    <3>4. d.type \in Kinds /\ f \in Edges
      BY <3>2, <3>3 DEF Pushed, KindsInv
    <3>5. ASSUME NEW e \in Edges, NEW i \in 1..Len(q'[e]) PROVE q'[e][i].type \in Kinds
      <4>1. CASE e # f \/ closed[e]
        BY <3>2, <3>5, <4>1 DEF Pushed, KindsInv
      <4>2. CASE e = f /\ ~closed[e]
        <5>1. Len(q'[e]) = Len(q[e]) + 1 /\ q'[e][Len(q[e]) + 1] = d
              /\ \A k \in 1..Len(q[e]) : q'[e][k] = q[e][k]
          BY <3>2, <4>2 DEF Pushed
        <5>2. Len(q[e]) \in Nat
          BY <1>0, LenProperties DEF TypeOK
        <5>3. CASE i \in 1..Len(q[e])
          BY <5>1, <5>3 DEF KindsInv
        <5>4. CASE i = Len(q[e]) + 1
          BY <3>4, <5>1, <5>4
        <5> QED BY <5>1, <5>2, <5>3, <5>4
      <4> QED BY <4>1, <4>2
    <3>6. verdict' = verdict
      BY <3>1 DEF CallMade
    <3> QED BY <3>3, <3>5, <3>6 DEF KindsInv
  <2>6. CASE EndStep(p)
    <3>1. todo' = todo /\ verdict' = verdict
      BY <2>6 DEF EndStep
    <3>2. \A e \in Edges : q'[e] = q[e] \/ q'[e] = <<>>
      <4>1. CASE verdict[p] = "complete" \/ required_outputs_done(p)
        <5>1. Stops(p)
          BY <2>6, <4>1 DEF EndStep, Stops
        <5> QED BY <1>0, <5>1, Stopping
      <4>2. CASE ~(verdict[p] = "complete" \/ required_outputs_done(p))
        BY <2>6, <4>2 DEF EndStep
      <4> QED BY <4>1, <4>2
    <3> QED BY <1>0, <1>1, <3>1, <3>2
  <2> QED BY <1>3, <2>1, <2>2, <2>3, <2>4, <2>5, <2>6 DEF ProcNext
<1>4. ASSUME NEW p \in Procs, Interruption(p) PROVE KindsInv'
  BY <1>0, <1>1, <1>4 DEF Interruption
<1> QED
  BY <1>2, <1>3, <1>4 DEF AnyNext

LEMMA FitKept ==
  ASSUME BaseInv, FitInv, NEW p \in Procs, NEW e \in RequiredInputs(p),
         Reads(todo[p], e), verdict'[p] = verdict[p], q' \in [Edges -> Seq(Data)],
         Len(q'[e]) >= Len(q[e]), \A i \in 1..Len(q[e]) : q'[e][i] = q[e][i]
  PROVE  Available(e)' /\ \A i \in 1..Taken(e)' : q'[e][i].type = "complete" => verdict'[p] = "complete"
<1>1. e \in Edges /\ QueueTypes
  BY RequiredEdges, TypedQueues DEF BaseInv
<1>2. Available(e) /\ \A i \in 1..Taken(e) : q[e][i].type = "complete" => verdict[p] = "complete"
  BY DEF FitInv
<1>3. /\ Available(e)' /\ Taken(e)' = Taken(e)
      /\ \A i \in 1..Taken(e) : q'[e][i] = q[e][i]
  BY <1>1, <1>2, AvailableKept
<1> QED
  BY <1>2, <1>3

LEMMA FitNext ==
  ASSUME BaseInv, BaseInv', ChainInv, KindsInv, FitInv, [AnyNext]_vars PROVE FitInv'
<1>0. /\ TypeOK /\ \A r \in Procs : pc[r] = "top" => todo[r] = <<>>
      /\ q' \in [Edges -> Seq(Data)]
  BY DEF BaseInv, TypeOK, CallsInv
<1>1. ASSUME NEW r \in Procs, NEW e \in RequiredInputs(r), Reads(todo'[r], e),
             todo'[r] = todo[r], verdict'[r] = verdict[r], q'[e] = q[e]
      PROVE  Available(e)' /\ \A i \in 1..Taken(e)' : q'[e][i].type = "complete" => verdict'[r] = "complete"
  <2>1. e \in Edges /\ Len(q[e]) \in Nat
    BY <1>0, RequiredEdges, LenProperties DEF TypeOK
  <2> QED BY <1>0, <1>1, <2>1, FitKept
<1>2. CASE UNCHANGED vars
  BY <1>1, <1>2 DEF vars, FitInv
<1>3. ASSUME NEW p \in Procs, ProcNext(p) PROVE FitInv'
  <2> SUFFICES ASSUME NEW r \in Procs, NEW e \in RequiredInputs(r), Reads(todo'[r], e)
               PROVE  Available(e)' /\ \A i \in 1..Taken(e)' :
                        q'[e][i].type = "complete" => verdict'[r] = "complete"
    BY DEF FitInv, Reads, Elems
  <2>0. e \in Edges /\ Down(e) = r /\ e \in InputSet(r) /\ Len(q[e]) \in Nat
    BY <1>0, RequiredEdges, LenProperties DEF TypeOK
  <2>1. CASE Propagate(p) \/ Step(p)
    <3>1. PICK t \in Kinds, v \in Kinds \cup {"none"} :
            /\ Starts(p, t, v)
            /\ \A f \in RequiredInputs(p) : \A i \in 1..Taken(f) : q[f][i].type = "complete" => v = "complete"
      BY <2>1, StartingKinds
    <3>2. /\ q' = q /\ verdict' = [verdict EXCEPT ![p] = v]
          /\ todo' = [todo EXCEPT ![p] = Grabs(p) \o Pushes(p, t)]
          /\ \A f \in RequiredInputs(p) : Available(f)
      BY <3>1 DEF Starts
    <3>3. CASE r = p
      <4>1. Available(e)' /\ Taken(e)' = Taken(e)
        BY <3>2, <3>3 DEF Available, Taken
      <4>2. verdict'[p] = v
        BY <1>0, <3>2 DEF TypeOK
      <4> QED BY <3>1, <3>2, <3>3, <4>1, <4>2
    <3>4. CASE r # p
      <4>1. todo'[r] = todo[r] /\ verdict'[r] = verdict[r]
        BY <1>0, <3>2, <3>4 DEF TypeOK
      <4> QED BY <1>1, <3>2, <4>1
    <3> QED BY <3>3, <3>4
  <2>2. CASE StepAndStop(p)
    <3>1. /\ Stops(p) /\ verdict' = [verdict EXCEPT ![p] = "none"]
          /\ todo' = [todo EXCEPT ![p] = Pushes(p, "complete")]
      BY <2>2 DEF StepAndStop, Stops
    <3>2. r # p
      <4> SUFFICES ASSUME r = p PROVE FALSE
        OBVIOUS
      <4>1. todo'[r] = Pushes(p, "complete")
        BY <1>0, <3>1 DEF TypeOK
      <4>2. ~Reads(Pushes(p, "complete"), e)
        BY <1>0, TypedQueues, StartedPushes DEF Types
      <4> QED BY <4>1, <4>2
    <3>3. todo'[r] = todo[r] /\ verdict'[r] = verdict[r]
      BY <1>0, <3>1, <3>2 DEF TypeOK
    <3>4. q'[e] = q[e]
      BY <1>0, <2>0, <3>1, <3>2, Stopping
    <3> QED BY <1>1, <3>3, <3>4
  <2>3. CASE StepAfterCompletion(p)
    <3>1. /\ todo' = todo /\ q' = q /\ verdict' = [verdict EXCEPT ![p] = "none"] /\ pc[p] = "top"
      BY <2>3 DEF StepAfterCompletion, Begin
    <3>2. r # p
      BY <1>0, <3>1, NoCalls
    <3>3. verdict'[r] = verdict[r]
      BY <1>0, <3>1, <3>2 DEF TypeOK
    <3> QED BY <1>1, <3>1, <3>3
  <2>4. CASE Grab(p)
    <3>1. CallMade(p) /\ \E f \in InputSet(p) : Grabbed(p, f)
      BY <2>4, Grabbing
    <3>2. PICK f \in InputSet(p) : Grabbed(p, f)
      BY <3>1
    <3>3. /\ ~Reads(todo'[p], f)
          /\ \A x : x # f => (Reads(todo'[p], x) <=> Reads(todo[p], x))
      BY <3>1, <3>2, CallsLeft
    <3>4. e # f
      BY <2>0, <3>2, <3>3 DEF Grabbed
    <3>5. q'[e] = q[e] /\ verdict' = verdict
      BY <2>0, <3>1, <3>2, <3>4 DEF Grabbed, CallMade
    <3>6. Reads(todo[r], e)
      BY <3>1, <3>3, <3>4 DEF CallMade
    <3> QED BY <1>0, <2>0, <3>5, <3>6, FitKept
  <2>5. CASE Push(p)
    <3>1. CallMade(p) /\ \E f \in OutputSet(p) : \E d \in Data : Pushed(p, f, d)
      BY <2>5, Pushing
    <3>2. PICK f \in OutputSet(p), d \in Data : Pushed(p, f, d)
      BY <3>1
    <3>3. \A x : Reads(todo'[p], x) <=> Reads(todo[p], x)
      BY <3>1, <3>2, CallsLeft
    <3>4. Reads(todo[r], e) /\ verdict' = verdict
      BY <3>1, <3>3 DEF CallMade
    <3>5. Len(q'[e]) >= Len(q[e]) /\ \A i \in 1..Len(q[e]) : q'[e][i] = q[e][i]
      BY <2>0, <3>2 DEF Pushed
    <3> QED BY <1>0, <3>4, <3>5, FitKept
  <2>6. CASE EndStep(p)
    <3>1. todo' = todo /\ verdict' = verdict /\ todo[p] = <<>>
      BY <2>6 DEF EndStep
    <3>2. r # p
      BY <3>1, NoCalls
    <3>3. q'[e] = q[e]
      <4>1. CASE verdict[p] = "complete" \/ required_outputs_done(p)
        <5>1. Stops(p)
          BY <2>6, <4>1 DEF EndStep, Stops
        <5> QED BY <1>0, <2>0, <3>2, <5>1, Stopping
      <4>2. CASE ~(verdict[p] = "complete" \/ required_outputs_done(p))
        BY <2>6, <4>2 DEF EndStep
      <4> QED BY <4>1, <4>2
    <3> QED BY <1>1, <3>1, <3>3
  <2> QED BY <1>3, <2>1, <2>2, <2>3, <2>4, <2>5, <2>6 DEF ProcNext
<1>4. ASSUME NEW p \in Procs, Interruption(p) PROVE FitInv'
  BY <1>1, <1>4 DEF Interruption, FitInv
<1> QED
  BY <1>2, <1>3, <1>4 DEF AnyNext

LEMMA ReachLater ==
  \A e, a : Reach(e, a)' = IF Reads(todo'[Down(e)], e) THEN a + InFreq[e] * Inc(e) ELSE a
BY DEF Reach, Reads, Elems

LEMMA ChainDecided ==
  ASSUME BaseInv, ChainInv, [AnyNext]_vars, NEW p \in Procs, NEW t \in Types, pc[p] = "top",
         todo' = [todo EXCEPT ![p] = Grabs(p) \o Pushes(p, t)] \/ todo' = [todo EXCEPT ![p] = Pushes(p, t)],
         stamp' = StampsAfter(p, t),
         \A e \in Edges : closed'[e] \/ (q'[e] = q[e] /\ ~closed[e]),
         \/ Ended(p)'
         \/ Aligned /\ ~Ended(p) /\ todo' = [todo EXCEPT ![p] = Grabs(p) \o Pushes(p, t)]
  PROVE  ChainInv'
<1>1. PICK at \in [Edges -> Nat], left \in [Edges -> Nat] :
        /\ \A e \in Edges : closed[e] \/ EdgeChain(e, at[e], left[e])
        /\ \A r \in Procs : Ended(r) \/
             \A e, f \in RequiredInputs(r) : Reach(e, at[e]) = Reach(f, at[f])
  BY DEF ChainInv
<1>2. Stamps /\ QueueTypes /\ DOMAIN todo = Procs /\ pc[p] # "busy" /\ todo[p] = <<>>
  BY TypedQueues DEF BaseInv, TypeOK, CallsInv
<1>3. /\ \A e \in Edges : Up(e) # p => PushTo(e)' = PushTo(e)
      /\ \A e \in Edges : Up(e) = p => PushTo(e) = {} /\ PushTo(e)' = NewPushes(Up(e), e, t)
  BY <1>2, DecidedPushes
<1> DEFINE next == [e \in Edges |-> IF Up(e) = p THEN Times(p, PortOf(e), t) ELSE left[e]]
<1>4. next \in [Edges -> Nat]
  <2>1. ASSUME NEW e \in Edges, Up(e) = p PROVE Times(p, PortOf(e), t) \in Nat
    BY <2>1, EdgeEnds, PortOfEdge, TimesNat
  <2> QED BY <2>1
<1>5. ASSUME NEW e \in Edges, ~closed'[e] PROVE EdgeChain(e, at[e], next[e])'
  <2>1. EdgeChain(e, at[e], left[e]) /\ q'[e] = q[e]
    BY <1>1, <1>5
  <2>2. CASE Up(e) = p
    <3>1. next[e] = Times(Up(e), PortOf(e), t)
      BY <2>2
    <3>2. EdgeChain(e, at[e], Times(Up(e), PortOf(e), t))'
      BY <1>2, <1>3, <2>1, <2>2, ChainStart
    <3> QED BY <3>1, <3>2
  <2>3. CASE Up(e) # p
    <3>1. next[e] = left[e]
      BY <2>3
    <3>2. PushTo(e)' = PushTo(e) /\ stamp'[Up(e)] = stamp[Up(e)]
      BY <1>2, <1>3, <2>3, EdgeEnds, StampsAdvance
    <3> HIDE DEF next
    <3> QED BY <2>1, <3>1, <3>2, ChainSame
  <2> QED BY <2>2, <2>3
<1> HIDE DEF next
<1>6. ASSUME NEW r \in Procs, ~(Ended(r)'), NEW e \in RequiredInputs(r), NEW f \in RequiredInputs(r)
      PROVE  Reach(e, at[e])' = Reach(f, at[f])'
  <2>1. Reach(e, at[e]) = Reach(f, at[f])
    BY <1>1, <1>6, EndedStays
  <2>2. Down(e) = r /\ Down(f) = r /\ e \in InputSet(r) /\ f \in InputSet(r) /\ e \in Edges /\ f \in Edges
    BY RequiredEdges
  <2>3. CASE r # p
    <3>1. todo'[r] = todo[r]
      BY <1>2, <2>3
    <3> QED BY <2>1, <2>2, <3>1, ReachLater DEF Reach
  <2>4. CASE r = p
    <3>1. Aligned /\ todo'[p] = Grabs(p) \o Pushes(p, t)
      BY <1>2, <1>6, <2>4
    <3>2. Reads(todo'[p], e) /\ Reads(todo'[p], f)
      BY <1>2, <2>2, <2>4, <3>1, StartedPushes
    <3>3. at[e] = at[f]
      <4>1. ~Reads(todo[p], e) /\ ~Reads(todo[p], f)
        BY <1>2, NoCalls
      <4> QED BY <2>1, <2>2, <2>4, <4>1 DEF Reach
    <3>4. InFreq[e] = InFreq[f] /\ Inc(e) = Inc(f)
      BY <2>2, <2>4, <3>1 DEF Aligned, Inc
    <3> QED BY <2>2, <2>4, <3>2, <3>3, <3>4, ReachLater
  <2> QED BY <2>3, <2>4
<1>7. \A e \in Edges : closed'[e] \/ EdgeChain(e, at[e], next[e])'
  BY <1>5
<1>8. \A r \in Procs : Ended(r)' \/ \A e, f \in RequiredInputs(r) : Reach(e, at[e])' = Reach(f, at[f])'
  BY <1>6
<1> QED
  BY <1>4, <1>7, <1>8 DEF ChainInv

LEMMA ChainKept ==
  ASSUME BaseInv, ChainInv, [AnyNext]_vars, todo' = todo, stamp' = stamp,
         \A e \in Edges : closed'[e] \/ (q'[e] = q[e] /\ ~closed[e])
  PROVE  ChainInv'
<1>1. PICK at \in [Edges -> Nat], left \in [Edges -> Nat] :
        /\ \A e \in Edges : closed[e] \/ EdgeChain(e, at[e], left[e])
        /\ \A r \in Procs : Ended(r) \/
             \A e, f \in RequiredInputs(r) : Reach(e, at[e]) = Reach(f, at[f])
  BY DEF ChainInv
<1>2. ASSUME NEW e \in Edges, ~closed'[e] PROVE EdgeChain(e, at[e], left[e])'
  <2>1. EdgeChain(e, at[e], left[e]) /\ q'[e] = q[e]
    BY <1>1, <1>2
  <2>2. PushTo(e)' = PushTo(e)
    BY DEF PushTo, PushesIn, Elems
  <2> QED BY <2>1, <2>2, ChainSame
<1>3. \A r \in Procs : Ended(r)' \/ \A e, f \in RequiredInputs(r) : Reach(e, at[e])' = Reach(f, at[f])'
  BY <1>1, ReachLater, EndedStays DEF Reach
<1> QED
  BY <1>2, <1>3 DEF ChainInv

LEMMA ChainGrabbed ==
  ASSUME Aligned, BaseInv, SyncInv, [AnyNext]_vars, NEW p \in Procs, CallMade(p), NEW f \in InputSet(p), Grabbed(p, f)
  PROVE  ChainInv'
<1>1. PICK at \in [Edges -> Nat], left \in [Edges -> Nat] :
        /\ \A e \in Edges : closed[e] \/ EdgeChain(e, at[e], left[e])
        /\ \A r \in Procs : Ended(r) \/
             \A e, g \in RequiredInputs(r) : Reach(e, at[e]) = Reach(g, at[g])
  BY DEF SyncInv, ChainInv
<1>2. TypeOK /\ QueueTypes /\ KindsInv /\ FitInv
  BY TypedQueues DEF BaseInv, SyncInv
<1>3. f \in Edges /\ Down(f) = p /\ Available(f) /\ ~closed[f]
  BY DEF Grabbed
<1>4. Len(q[f]) \in Nat \ {0} /\ Taken(f) \in 1..Len(q[f]) /\ Head(q[f]) = q[f][1] /\ Head(q[f]) \in Data
      /\ (Taken(f) = 1 \/ Taken(f) = InFreq[f])
      /\ (Rank[Head(q[f]).type] < Rank["flush"] => Taken(f) = InFreq[f])
  BY <1>2, <1>3, TakenPlaces
<1>5. /\ \A e \in Edges : PushTo(e)' = PushTo(e)
      /\ ~Reads(todo'[p], f) /\ Reads(todo[p], f)
      /\ \A e : e # f => (Reads(todo'[p], e) <=> Reads(todo[p], e))
  BY CallsLeft
<1>6. stamp' = stamp /\ closed' = closed /\ \A r \in Procs : r # p => todo'[r] = todo[r]
  BY DEF CallMade
<1>t. PICK T : T = Taken(f)
  OBVIOUS
<1> DEFINE b   == at[f] + T * Inc(f)
           new == [at EXCEPT ![f] = b]
<1>7. EdgeChain(f, b, left[f])' /\ b \in Nat
  <2>1. T \in Nat /\ T <= Len(q[f])
    BY <1>4, <1>t
  <2>2. Len(q'[f]) = Len(q[f]) - T
        /\ \A i \in 1..Len(q'[f]) : i + T \in 1..Len(q[f]) /\ q'[f][i] = q[f][i + T]
    BY <1>t DEF Grabbed
  <2>3. EdgeChain(f, at[f], left[f])
    BY <1>1, <1>3
  <2>4. EdgeChain(f, at[f] + T * Inc(f), left[f])' /\ at[f] + T * Inc(f) \in Nat
    BY <1>2, <1>3, <1>5, <1>6, <2>1, <2>2, <2>3, ChainGrab
  <2> QED BY <2>4
<1> HIDE DEF b
<1>8. new \in [Edges -> Nat] /\ new[f] = b /\ \A e \in Edges : e # f => new[e] = at[e]
  BY <1>3, <1>7
<1> HIDE DEF new
<1>9. ASSUME NEW e \in Edges, ~closed'[e] PROVE EdgeChain(e, new[e], left[e])'
  <2>1. CASE e = f
    BY <1>7, <1>8, <2>1
  <2>2. CASE e # f
    <3>1. EdgeChain(e, at[e], left[e]) /\ q'[e] = q[e] /\ new[e] = at[e] /\ PushTo(e)' = PushTo(e)
      BY <1>1, <1>5, <1>6, <1>8, <1>9, <2>2 DEF Grabbed
    <3> QED BY <1>6, <3>1, ChainSame
  <2> QED BY <2>1, <2>2
<1>10. ASSUME NEW r \in Procs, ~(Ended(r)'), NEW e \in RequiredInputs(r), NEW g \in RequiredInputs(r), e # g
       PROVE  Reach(e, new[e])' = Reach(e, at[e])
  <2>1. ~Ended(r)
    BY <1>10, EndedStays
  <2>2. Down(e) = r /\ Down(g) = r /\ e \in Edges
    BY RequiredEdges
  <2>3. CASE e # f
    <3>1. Reads(todo'[r], e) <=> Reads(todo[r], e)
      BY <1>5, <1>6, <2>3
    <3> QED BY <1>8, <2>2, <2>3, <3>1, ReachLater DEF Reach
  <2>4. CASE e = f
    <3>1. r = p /\ pc[p] = "busy" /\ verdict[p] # "complete"
      BY <1>3, <2>1, <2>2, <2>4 DEF Ended, CallMade
    <3>2. Head(q[f]).type # "complete"
      <4>1. 1 \in 1..Taken(f)
        BY <1>4
      <4>2. q[f][1].type # "complete"
        BY <1>2, <1>5, <1>10, <2>4, <3>1, <4>1 DEF FitInv
      <4> QED BY <1>4, <4>2
    <3>3. InFreq[f] = 1 \/ "flush" \notin SourceKinds
      BY <1>10, <2>4 DEF Aligned
    <3>4. Taken(f) = InFreq[f]
      <4>1. CASE InFreq[f] = 1
        BY <1>4, <4>1
      <4>2. CASE "flush" \notin SourceKinds
        <5>1. Head(q[f]).type \in Kinds
          BY <1>2, <1>3, <1>4 DEF KindsInv
        <5>2. Head(q[f]).type \in {"data", "empty"}
          BY <3>2, <4>2, <5>1, DataflowAssumption DEF Kinds
        <5>3. Rank[Head(q[f]).type] < Rank["flush"]
          BY <5>2 DEF Rank
        <5> QED BY <1>4, <5>3
      <4> QED BY <3>3, <4>1, <4>2
    <3>5. Reach(e, at[e]) = at[f] + InFreq[f] * Inc(f)
      BY <1>5, <2>2, <2>4, <3>1 DEF Reach
    <3>6. Reach(e, new[e])' = b
      BY <1>5, <1>8, <2>2, <2>4, <3>1, ReachLater
    <3> QED BY <1>t, <3>4, <3>5, <3>6 DEF b
  <2> QED BY <2>3, <2>4
<1>11. ASSUME NEW r \in Procs, ~(Ended(r)'), NEW e \in RequiredInputs(r), NEW g \in RequiredInputs(r)
       PROVE  Reach(e, new[e])' = Reach(g, new[g])'
  <2>1. CASE e = g
    BY <2>1
  <2>2. CASE e # g
    <3>1. Reach(e, at[e]) = Reach(g, at[g])
      BY <1>1, <1>11, EndedStays
    <3>2. Reach(e, new[e])' = Reach(e, at[e]) /\ Reach(g, new[g])' = Reach(g, at[g])
      BY <1>10, <1>11, <2>2
    <3> QED BY <3>1, <3>2
  <2> QED BY <2>1, <2>2
<1>12. \A e \in Edges : closed'[e] \/ EdgeChain(e, new[e], left[e])'
  BY <1>9
<1>13. \A r \in Procs : Ended(r)' \/ \A e, g \in RequiredInputs(r) : Reach(e, new[e])' = Reach(g, new[g])'
  BY <1>11
<1> QED
  BY <1>8, <1>12, <1>13 DEF ChainInv

LEMMA ChainPushed ==
  ASSUME BaseInv, ChainInv, [AnyNext]_vars, NEW p \in Procs, CallMade(p),
         NEW f \in OutputSet(p), NEW d \in Data, Pushed(p, f, d)
  PROVE  ChainInv'
<1>1. PICK at \in [Edges -> Nat], left \in [Edges -> Nat] :
        /\ \A e \in Edges : closed[e] \/ EdgeChain(e, at[e], left[e])
        /\ \A r \in Procs : Ended(r) \/
             \A e, g \in RequiredInputs(r) : Reach(e, at[e]) = Reach(g, at[g])
  BY DEF ChainInv
<1>2. TypeOK /\ QueueTypes
  BY TypedQueues DEF BaseInv
<1> DEFINE h == Head(todo[p])
<1>3. f \in Edges /\ h.datum = d
  BY DEF Pushed
<1>4. /\ \A e \in Edges : e # f => PushTo(e)' = PushTo(e)
      /\ PushTo(f) = {h} \cup PushTo(f)'
      /\ \A c \in PushTo(f)' : d.stamp < c.datum.stamp
      /\ \A e : Reads(todo'[p], e) <=> Reads(todo[p], e)
  BY CallsLeft
<1> HIDE DEF h
<1>5. stamp' = stamp /\ closed' = closed /\ \A r \in Procs : r # p => todo'[r] = todo[r]
  BY DEF CallMade
<1>6. ASSUME ~closed[f] PROVE left[f] - 1 \in Nat /\ EdgeChain(f, at[f], left[f] - 1)'
  <2>1. EdgeChain(f, at[f], left[f])
    BY <1>1, <1>3, <1>6
  <2>2. /\ Len(q'[f]) = Len(q[f]) + 1 /\ q'[f][Len(q[f]) + 1] = d
        /\ \A i \in 1..Len(q[f]) : q'[f][i] = q[f][i]
    BY <1>6 DEF Pushed
  <2>3. at[f] \in Nat /\ left[f] \in Nat
    BY <1>3
  <2> QED BY <1>2, <1>3, <1>4, <1>5, <2>1, <2>2, <2>3, ChainPush
<1>7. PICK next \in [Edges -> Nat] : /\ \A e \in Edges : e # f => next[e] = left[e]
                                     /\ ~closed[f] => next[f] = left[f] - 1
  <2>1. CASE closed[f]
    BY <2>1
  <2>2. CASE ~closed[f]
    <3>1. [left EXCEPT ![f] = left[f] - 1] \in [Edges -> Nat]
      BY <1>6, <2>2
    <3> QED BY <1>3, <2>2, <3>1
  <2> QED BY <2>1, <2>2
<1>8. ASSUME NEW e \in Edges, ~closed'[e] PROVE EdgeChain(e, at[e], next[e])'
  <2>1. CASE e = f
    BY <1>5, <1>6, <1>7, <1>8, <2>1
  <2>2. CASE e # f
    <3>1. EdgeChain(e, at[e], left[e]) /\ q'[e] = q[e] /\ next[e] = left[e] /\ PushTo(e)' = PushTo(e)
      BY <1>1, <1>4, <1>5, <1>7, <1>8, <2>2 DEF Pushed
    <3> QED BY <1>5, <3>1, ChainSame
  <2> QED BY <2>1, <2>2
<1>9. ASSUME NEW r \in Procs, ~(Ended(r)'), NEW e \in RequiredInputs(r), NEW g \in RequiredInputs(r)
      PROVE  Reach(e, at[e])' = Reach(g, at[g])'
  <2>1. Reach(e, at[e]) = Reach(g, at[g])
    BY <1>1, <1>9, EndedStays
  <2>2. Down(e) = r /\ Down(g) = r
    BY RequiredEdges
  <2>3. \A x : Reads(todo'[r], x) <=> Reads(todo[r], x)
    BY <1>4, <1>5
  <2> QED BY <2>1, <2>2, <2>3, ReachLater DEF Reach
<1>10. \A e \in Edges : closed'[e] \/ EdgeChain(e, at[e], next[e])'
  BY <1>8
<1>11. \A r \in Procs : Ended(r)' \/ \A e, g \in RequiredInputs(r) : Reach(e, at[e])' = Reach(g, at[g])'
  BY <1>9
<1> QED
  BY <1>7, <1>10, <1>11 DEF ChainInv

LEMMA ChainNext ==
  ASSUME Aligned, BaseInv, SyncInv, [AnyNext]_vars PROVE ChainInv'
<1>0. TypeOK /\ ClosedInv /\ ChainInv /\ KindsInv
  BY DEF BaseInv, SyncInv
<1>1. ASSUME NEW p \in Procs, Stops(p), NEW e \in Edges
      PROVE  closed'[e] \/ (q'[e] = q[e] /\ ~closed[e])
  BY <1>0, <1>1, Stopping
<1>2. CASE todo' = todo /\ stamp' = stamp /\ q' = q /\ closed' = closed
  BY <1>0, <1>2, ChainKept
<1>3. ASSUME NEW p \in Procs, ProcNext(p) PROVE ChainInv'
  <2>1. CASE Propagate(p) \/ Step(p)
    <3>1. PICK t \in Kinds, v \in Kinds \cup {"none"} : Starts(p, t, v)
      BY <1>0, <2>1, StartingKinds
    <3>2. /\ pc[p] = "top" /\ ~is_complete[p] /\ q' = q /\ closed' = closed /\ stamp' = StampsAfter(p, t)
          /\ todo' = [todo EXCEPT ![p] = Grabs(p) \o Pushes(p, t)] /\ t \in Types
      BY <3>1 DEF Starts, Begin
    <3>3. ~Ended(p)
      BY <3>2 DEF Ended
    <3> QED BY <1>0, <3>2, <3>3, ChainDecided
  <2>2. CASE StepAndStop(p)
    <3>1. /\ pc[p] = "top" /\ Stops(p) /\ stamp' = StampsAfter(p, "complete")
          /\ todo' = [todo EXCEPT ![p] = Pushes(p, "complete")]
      BY <2>2 DEF StepAndStop, Begin, Stops
    <3>2. Ended(p)'
      BY <1>0, <3>1, Stopping DEF Ended
    <3>3. "complete" \in Types
      BY DEF Types
    <3> QED BY <1>0, <1>1, <3>1, <3>2, <3>3, ChainDecided
  <2>3. CASE StepAfterCompletion(p)
    BY <1>2, <2>3 DEF StepAfterCompletion
  <2>4. CASE Grab(p)
    <3>1. CallMade(p) /\ \E f \in InputSet(p) : Grabbed(p, f)
      BY <2>4, Grabbing
    <3> QED BY <3>1, ChainGrabbed
  <2>5. CASE Push(p)
    <3>1. CallMade(p) /\ \E f \in OutputSet(p) : \E d \in Data : Pushed(p, f, d)
      BY <2>5, Pushing
    <3> QED BY <1>0, <3>1, ChainPushed
  <2>6. CASE EndStep(p)
    <3>1. todo' = todo /\ stamp' = stamp
      BY <2>6 DEF EndStep
    <3>2. CASE verdict[p] = "complete" \/ required_outputs_done(p)
      <4>1. Stops(p)
        BY <2>6, <3>2 DEF EndStep, Stops
      <4> QED BY <1>0, <1>1, <3>1, <4>1, ChainKept
    <3>3. CASE ~(verdict[p] = "complete" \/ required_outputs_done(p))
      BY <1>2, <2>6, <3>1, <3>3 DEF EndStep
    <3> QED BY <3>2, <3>3
  <2> QED BY <1>3, <2>1, <2>2, <2>3, <2>4, <2>5, <2>6 DEF ProcNext
<1>4. CASE UNCHANGED vars
  BY <1>2, <1>4 DEF vars
<1>5. ASSUME NEW p \in Procs, Interruption(p) PROVE ChainInv'
  BY <1>2, <1>5 DEF Interruption
<1> QED
  BY <1>3, <1>4, <1>5 DEF AnyNext

LEMMA SyncInvInit ==
  ASSUME NEW P, InitOf(P) PROVE SyncInv
<1>1. \A e \in Edges : Up(e) \in Procs /\ PortOf(e) \in DOMAIN Outputs[Up(e)]
  BY EdgeEnds, PortOfEdge
<1>2. \A p \in Procs : todo[p] = <<>> /\ verdict[p] = "none"
  BY DEF InitOf
<1>3. \A e \in Edges : PushTo(e) = {} /\ q[e] = <<>> /\ Len(q[e]) = 0 /\ stamp[Up(e)][PortOf(e)] = 0
  BY <1>1, <1>2, NoCalls DEF InitOf, PushTo
<1>4. \A p \in Procs : \A e : ~Reads(todo[p], e)
  BY <1>2, NoCalls
<1>5. KindsInv /\ FitInv
  BY <1>2, <1>3, <1>4 DEF KindsInv, FitInv
<1>6. PICK zero : zero = [e \in Edges |-> 0]
  OBVIOUS
<1>7. zero \in [Edges -> Nat] /\ \A e \in Edges : zero[e] = 0
  BY <1>6
<1>8. ASSUME NEW e \in Edges PROVE EdgeChain(e, zero[e], zero[e])
  <2>1. Inc(e) \in Nat
    BY IncOfEdge
  <2>2. 0 + (0 + 0) * Inc(e) = 0 /\ 0..(0 - 1) = {} /\ 1..0 = {}
    BY <2>1
  <2>3. {c.datum.stamp : c \in PushTo(e)} = {}
    BY <1>3
  <2>4. {zero[e] + (Len(q[e]) + l) * Inc(e) : l \in 0..(zero[e] - 1)} = {}
    BY <1>7, <2>2
  <2> QED BY <1>3, <1>7, <2>2, <2>3, <2>4 DEF EdgeChain
<1>9. ASSUME NEW p \in Procs, NEW e \in RequiredInputs(p) PROVE Reach(e, zero[e]) = 0
  <2>1. Down(e) = p /\ e \in Edges
    BY RequiredEdges
  <2> QED BY <1>4, <1>7, <2>1 DEF Reach
<1>10. ChainInv
  BY <1>7, <1>8, <1>9 DEF ChainInv
<1> QED
  BY <1>5, <1>10 DEF SyncInv

LEMMA SyncInvNext ==
  ASSUME Aligned, BaseInv, SyncInv, [AnyNext]_vars PROVE SyncInv'
<1>1. BaseInv'
  BY BaseNext
<1>2. ChainInv /\ KindsInv /\ FitInv
  BY DEF SyncInv
<1> QED
  BY <1>1, <1>2, ChainNext, KindsNext, FitNext DEF SyncInv

(* The data that meet carry the same stamp, for every topology in which    *)
(* the inputs that meet are read equally often.                            *)
THEOREM StampsMeet ==
  Aligned => /\ Spec => []Synchronized
             /\ SyncSpec => []Synchronized
<1>1. Begins => BaseInv /\ SyncInv
  BY BaseInit, SyncInvInit DEF Begins
<1>2. Aligned /\ (BaseInv /\ SyncInv) /\ [AnyNext]_vars => (BaseInv /\ SyncInv)'
  BY BaseNext, SyncInvNext
<1>3. BaseInv /\ SyncInv => Synchronized
  BY KindsTypes DEF SyncInv, KindsInv, Synchronized
<1>4. SUFFICES ASSUME Aligned PROVE (Spec => []Synchronized) /\ (SyncSpec => []Synchronized)
  OBVIOUS
<1>5. (BaseInv /\ SyncInv) /\ [AnyNext]_vars => (BaseInv /\ SyncInv)'
  BY <1>2, <1>4
<1> QED
  BY <1>1, <1>3, <1>5, SpecSteps, SyncSteps, PTL

-----------------------------------------------------------------------------
(* The readers of a process that ends are told so.                         *)

AllRequired ==
  Edges \subseteq Required /\ \A p \in Procs : \A i \in DOMAIN Outputs[p] : Outputs[p][i].required

CompleteComes(e) == \E c \in PushTo(e) : c.datum.type = "complete"

Told(e) == closed[e] \/ Sent(e, "complete") \/ verdict[Down(e)] = "complete" \/ CompleteComes(e)

ToldInv ==
  /\ \A p \in Procs : verdict[p] = "complete" => pc[p] # "top"
  /\ \A e \in Edges : Ended(Up(e)) => Told(e)

LEMMA SentPlace ==
  ASSUME QueueTypes, NEW e \in Edges, NEW t
  PROVE  Sent(e, t) <=> \E i \in 1..Len(q[e]) : q[e][i].type = t
<1>1. DOMAIN q[e] = 1..Len(q[e])
  BY LenProperties DEF QueueTypes
<1> QED
  BY <1>1 DEF Sent

LEMMA SentLater ==
  ASSUME q' \in [Edges -> Seq(Data)], NEW e \in Edges, NEW t
  PROVE  Sent(e, t)' <=> \E i \in 1..Len(q'[e]) : q'[e][i].type = t
<1>1. DOMAIN q'[e] = 1..Len(q'[e])
  BY LenProperties
<1> QED
  BY <1>1 DEF Sent

LEMMA ToldLater ==
  \A e : Told(e)' <=> closed'[e] \/ Sent(e, "complete")' \/ verdict'[Down(e)] = "complete"
                        \/ \E c \in PushTo(e)' : c.datum.type = "complete"
BY DEF Told, CompleteComes

(* A complete push is decided on for each output edge.                     *)
LEMMA CompleteComesNow ==
  ASSUME Stamps, NEW e \in Edges, PushTo(e)' = NewPushes(Up(e), e, "complete")
  PROVE  Told(e)'
<1>1. Up(e) \in Procs /\ PortOf(e) \in DOMAIN Outputs[Up(e)] /\ "complete" \in Types
  BY EdgeEnds, PortOfEdge DEF Types
<1>2. Times(Up(e), PortOf(e), "complete") = 1
  BY <1>1, TimesNat
<1>3. PushOf(e, "complete", StampAt(Up(e), PortOf(e), 1)) \in NewPushes(Up(e), e, "complete")
  BY <1>2 DEF NewPushes
<1>4. \E c \in PushTo(e)' : c.datum.type = "complete"
  BY <1>1, <1>3, OneComplete
<1> QED
  BY <1>4, ToldLater

LEMMA ToldStays ==
  ASSUME BaseInv, BaseInv', SyncInv, ToldInv, AllRequired, [AnyNext]_vars,
         NEW e \in Edges, Ended(Up(e)), Told(e)
  PROVE  Told(e)'
<1>1. TypeOK /\ QueueTypes /\ ClosedInv /\ FitInv /\ q' \in [Edges -> Seq(Data)]
  BY TypedQueues DEF BaseInv, SyncInv, TypeOK
<1>2. Up(e) \in Procs /\ Down(e) \in Procs /\ e \in RequiredInputs(Down(e))
  BY EdgeEnds DEF RequiredInputs, AllRequired
<1>3. CASE closed[e]
  BY <1>3, ClosedStays, ToldLater
<1>4. CASE UNCHANGED vars
  BY <1>4 DEF vars, Told, Sent, CompleteComes, PushTo, PushesIn, Elems
<1>5. ASSUME NEW p \in Procs, ProcNext(p), ~closed[e] PROVE Told(e)'
  <2>1. ASSUME PushTo(e)' = PushTo(e), q'[e] = q[e], verdict'[Down(e)] = verdict[Down(e)]
        PROVE  Told(e)'
    BY <1>5, <2>1, ToldLater DEF Told, CompleteComes, Sent
  <2>2. CASE \E t \in Types : \E v : Starts(p, t, v)
    <3>0. PICK t \in Types : \E v : Starts(p, t, v)
      BY <2>2
    <3>1. PICK v : Starts(p, t, v)
      BY <3>0
    <3>2. /\ pc[p] = "top" /\ ~is_complete[p] /\ q' = q /\ verdict' = [verdict EXCEPT ![p] = v]
          /\ todo' = [todo EXCEPT ![p] = Grabs(p) \o Pushes(p, t)]
      BY <3>1 DEF Starts, Begin
    <3>3. Up(e) # p
      BY <3>2 DEF Ended
    <3>4. PushTo(e)' = PushTo(e)
      BY <3>2, <3>3, DecidedPushes
    <3>5. CASE Down(e) # p
      BY <1>1, <2>1, <3>2, <3>4, <3>5 DEF TypeOK
    <3>6. CASE Down(e) = p
      <4>1. verdict[Down(e)] # "complete"
        BY <3>2, <3>6 DEF ToldInv
      <4> QED BY <1>5, <3>2, <3>4, <4>1, ToldLater DEF Told, CompleteComes, Sent
    <3> QED BY <3>5, <3>6
  <2>3. CASE StepAndStop(p)
    <3>1. /\ pc[p] = "top" /\ ~is_complete[p] /\ Stops(p) /\ verdict' = [verdict EXCEPT ![p] = "none"]
          /\ todo' = [todo EXCEPT ![p] = Pushes(p, "complete")]
      BY <2>3 DEF StepAndStop, Begin, Stops
    <3>2. Up(e) # p
      BY <3>1 DEF Ended
    <3>3. CASE Down(e) = p
      BY <1>1, <3>1, <3>3, Stopping, ToldLater
    <3>4. CASE Down(e) # p
      <4>1. PushTo(e)' = PushTo(e)
        BY <3>1, <3>2, DecidedPushes DEF Types
      <4>2. q'[e] = q[e] /\ verdict'[Down(e)] = verdict[Down(e)]
        BY <1>1, <1>2, <3>1, <3>4, Stopping DEF TypeOK
      <4> QED BY <2>1, <4>1, <4>2
    <3> QED BY <3>3, <3>4
  <2>4. CASE StepAfterCompletion(p)
    <3>1. /\ is_complete[p] /\ todo' = todo /\ q' = q /\ verdict' = [verdict EXCEPT ![p] = "none"]
      BY <2>4 DEF StepAfterCompletion
    <3>2. Down(e) # p
      BY <1>1, <1>5, <3>1 DEF ClosedInv
    <3>3. PushTo(e)' = PushTo(e)
      BY <3>1 DEF PushTo, PushesIn, Elems
    <3>4. verdict'[Down(e)] = verdict[Down(e)]
      BY <1>1, <1>2, <3>1, <3>2 DEF TypeOK
    <3> QED BY <2>1, <3>1, <3>3, <3>4
  <2>5. CASE Grab(p)
    <3>1. CallMade(p) /\ \E f \in InputSet(p) : Grabbed(p, f)
      BY <2>5, Grabbing
    <3>2. PICK f \in InputSet(p) : Grabbed(p, f)
      BY <3>1
    <3>3. PushTo(e)' = PushTo(e) /\ Reads(todo[p], f) /\ verdict' = verdict
      BY <3>1, <3>2, CallsLeft DEF CallMade
    <3>4. CASE e # f
      BY <2>1, <3>2, <3>3, <3>4 DEF Grabbed
    <3>5. CASE e = f
      <4>1. Len(q[e]) \in Nat \ {0} /\ Taken(e) \in 1..Len(q[e]) /\ Down(e) = p
        BY <1>1, <3>2, <3>5, TakenPlaces DEF Grabbed
      <4>2. CASE Sent(e, "complete")
        <5>1. PICK i \in 1..Len(q[e]) : q[e][i].type = "complete"
          BY <1>1, <4>2, SentPlace
        <5>2. CASE i \in 1..Taken(e)
          <6>1. verdict[p] = "complete"
            BY <1>1, <1>2, <3>3, <3>5, <4>1, <5>1, <5>2 DEF FitInv
          <6> QED BY <3>3, <4>1, <6>1, ToldLater
        <5>3. CASE i \notin 1..Taken(e)
          <6>1. /\ Len(q'[e]) = Len(q[e]) - Taken(e)
                /\ \A j \in 1..Len(q'[e]) : q'[e][j] = q[e][j + Taken(e)]
            BY <3>2, <3>5 DEF Grabbed
          <6>2. i - Taken(e) \in 1..Len(q'[e]) /\ (i - Taken(e)) + Taken(e) = i
            BY <4>1, <5>3, <6>1
          <6>3. q'[e][i - Taken(e)].type = "complete"
            BY <5>1, <6>1, <6>2
          <6>4. Sent(e, "complete")'
            BY <1>1, <6>2, <6>3, SentLater
          <6> QED BY <6>4, ToldLater
        <5> QED BY <5>2, <5>3
      <4>3. CASE ~Sent(e, "complete")
        BY <1>5, <3>3, <4>3, ToldLater DEF Told, CompleteComes
      <4> QED BY <4>2, <4>3
    <3> QED BY <3>4, <3>5
  <2>6. CASE Push(p)
    <3>1. CallMade(p) /\ \E f \in OutputSet(p) : \E d \in Data : Pushed(p, f, d)
      BY <2>6, Pushing
    <3>2. PICK f \in OutputSet(p), d \in Data : Pushed(p, f, d)
      BY <3>1
    <3>a. /\ e # f => PushTo(e)' = PushTo(e)
          /\ PushTo(f) = {Head(todo[p])} \cup PushTo(f)'
      BY <1>1, <1>5, <3>1, <3>2, CallsLeft
    <3>b. Head(todo[p]).datum = d /\ verdict' = verdict
      BY <3>1, <3>2 DEF CallMade, Pushed
    <3>3. /\ e # f => PushTo(e)' = PushTo(e)
          /\ PushTo(f) = {Head(todo[p])} \cup PushTo(f)' /\ Head(todo[p]).datum = d
          /\ verdict' = verdict
      BY <3>a, <3>b
    <3>4. CASE e # f
      BY <2>1, <3>2, <3>3, <3>4 DEF Pushed
    <3>5. CASE e = f
      <4>1. /\ Len(q'[e]) = Len(q[e]) + 1 /\ q'[e][Len(q[e]) + 1] = d
            /\ \A k \in 1..Len(q[e]) : q'[e][k] = q[e][k]
        BY <1>5, <3>2, <3>5 DEF Pushed
      <4>2. Len(q[e]) \in Nat
        BY <1>1, LenProperties DEF QueueTypes
      <4>3. CASE Sent(e, "complete")
        <5>1. PICK i \in 1..Len(q[e]) : q[e][i].type = "complete"
          BY <1>1, <4>3, SentPlace
        <5>2. i \in 1..Len(q'[e]) /\ q'[e][i].type = "complete"
          BY <4>1, <4>2, <5>1
        <5>3. Sent(e, "complete")'
          BY <1>1, <5>2, SentLater
        <5> QED BY <5>3, ToldLater
      <4>4. CASE CompleteComes(e)
        <5>1. PICK c \in PushTo(e) : c.datum.type = "complete"
          BY <4>4 DEF CompleteComes
        <5>2. CASE c \in PushTo(e)'
          BY <5>1, <5>2, ToldLater
        <5>3. CASE c \notin PushTo(e)'
          <6>1. d.type = "complete"
            BY <3>3, <3>5, <5>1, <5>3
          <6>2. Len(q[e]) + 1 \in 1..Len(q'[e]) /\ q'[e][Len(q[e]) + 1].type = "complete"
            BY <4>1, <4>2, <6>1
          <6>3. Sent(e, "complete")'
            BY <1>1, <6>2, SentLater
          <6> QED BY <6>3, ToldLater
        <5> QED BY <5>2, <5>3
      <4>5. CASE verdict[Down(e)] = "complete"
        BY <3>3, <4>5, ToldLater
      <4> QED BY <1>5, <4>3, <4>4, <4>5 DEF Told
    <3> QED BY <3>4, <3>5
  <2>7. CASE EndStep(p)
    <3>1. todo' = todo /\ verdict' = verdict
      BY <2>7 DEF EndStep
    <3>2. PushTo(e)' = PushTo(e)
      BY <3>1 DEF PushTo, PushesIn, Elems
    <3>3. CASE verdict[p] = "complete" \/ required_outputs_done(p)
      <4>1. Stops(p)
        BY <2>7, <3>3 DEF EndStep, Stops
      <4> QED BY <1>1, <2>1, <3>1, <3>2, <4>1, Stopping, ToldLater
    <3>4. CASE ~(verdict[p] = "complete" \/ required_outputs_done(p))
      BY <2>1, <2>7, <3>1, <3>2, <3>4 DEF EndStep
    <3> QED BY <3>3, <3>4
  <2>8. Propagate(p) \/ Step(p) => \E t \in Types : \E v : Starts(p, t, v)
    BY <1>1, StartingKinds, KindsTypes DEF SyncInv
  <2> QED BY <1>5, <2>2, <2>3, <2>4, <2>5, <2>6, <2>7, <2>8 DEF ProcNext
<1>6. ASSUME NEW p \in Procs, Interruption(p) PROVE Told(e)'
  BY <1>6 DEF Interruption, Told, Sent, CompleteComes, PushTo, PushesIn, Elems
<1> QED
  BY <1>3, <1>4, <1>5, <1>6 DEF AnyNext


LEMMA VerdictKept ==
  ASSUME BaseInv, ToldInv, [AnyNext]_vars, NEW p \in Procs, verdict'[p] = "complete"
  PROVE  pc'[p] # "top"
<1>1. TypeOK /\ \A r \in Procs : verdict[r] = "complete" => pc[r] # "top"
  BY DEF BaseInv, ToldInv
<1>2. CASE UNCHANGED vars
  BY <1>1, <1>2 DEF vars
<1>3. ASSUME NEW r \in Procs, ProcNext(r) PROVE pc'[p] # "top"
  <2>1. CASE \E t, v : Starts(r, t, v)
    BY <1>1, <2>1 DEF Starts, Begin, TypeOK
  <2>2. CASE StepAndStop(r)
    BY <1>1, <2>2 DEF StepAndStop, Begin, TypeOK
  <2>3. CASE StepAfterCompletion(r)
    BY <1>1, <2>3 DEF StepAfterCompletion, Begin, TypeOK
  <2>4. CASE Grab(r)
    BY <1>1, <2>4 DEF Grab
  <2>5. CASE Push(r)
    BY <1>1, <2>5 DEF Push
  <2>6. CASE EndStep(r)
    BY <1>1, <2>6 DEF EndStep, TypeOK
  <2> QED BY <1>1, <1>3, <2>1, <2>2, <2>3, <2>4, <2>5, <2>6, Starting DEF ProcNext
<1>4. ASSUME NEW r \in Procs, Interruption(r) PROVE pc'[p] # "top"
  BY <1>1, <1>4 DEF Interruption, TypeOK
<1> QED
  BY <1>2, <1>3, <1>4 DEF AnyNext

(* The step with which a process ends tells its readers.                   *)
LEMMA ToldWhenEnding ==
  ASSUME BaseInv, AllRequired, [AnyNext]_vars, NEW e \in Edges, ~Ended(Up(e)), Ended(Up(e))'
  PROVE  Told(e)'
<1>1. TypeOK /\ Stamps /\ Up(e) \in Procs /\ e \in OutputSet(Up(e)) /\ "complete" \in Types
  BY TypedQueues, EdgeEnds DEF BaseInv, Types
<1>2. ~(UNCHANGED vars)
  BY DEF vars, Ended
<1>4. ASSUME NEW p \in Procs, Interruption(p) PROVE FALSE
  BY <1>1, <1>4 DEF Interruption, Ended, BaseInv, CallsInv, TypeOK
<1>3. ASSUME NEW p \in Procs, ProcNext(p) PROVE Told(e)'
  <2>1. CASE \E t, v : Starts(p, t, v)
    <3>1. Up(e) = p /\ verdict'[p] = "complete"
      BY <1>1, <2>1 DEF Starts, Begin, Ended, TypeOK
    <3>2. ~Step(p)
      BY <1>1, <3>1 DEF Step, TypeOK
    <3>3. ~StepAndStop(p) /\ ~StepAfterCompletion(p) /\ ~Grab(p) /\ ~Push(p) /\ ~EndStep(p)
      BY <1>1, <2>1, <3>1 DEF StepAndStop, StepAfterCompletion, Grab, Push, EndStep, Starts, Begin, TypeOK
    <3>4. Starts(p, check_required_input(p), check_required_input(p))
      BY <1>1, <1>3, <3>2, <3>3, Starting DEF ProcNext
    <3>5. /\ verdict' = [verdict EXCEPT ![p] = check_required_input(p)] /\ pc[p] = "top"
          /\ todo' = [todo EXCEPT ![p] = Grabs(p) \o Pushes(p, check_required_input(p))]
      BY <3>4 DEF Starts, Begin
    <3>6. check_required_input(p) = "complete"
      BY <1>1, <3>1, <3>5 DEF TypeOK
    <3>7. PushTo(e)' = NewPushes(p, e, "complete")
      BY <1>1, <3>1, <3>5, <3>6, DecidedPushes
    <3> QED BY <1>1, <3>1, <3>7, CompleteComesNow
  <2>2. CASE StepAndStop(p)
    <3>1. /\ pc[p] = "top" /\ Stops(p) /\ verdict' = [verdict EXCEPT ![p] = "none"]
          /\ pc' = [pc EXCEPT ![p] = "busy"] /\ todo' = [todo EXCEPT ![p] = Pushes(p, "complete")]
      BY <2>2 DEF StepAndStop, Begin, Stops
    <3>2. Up(e) = p
      BY <1>1, <3>1, Stopping, SMTT(30) DEF Ended, TypeOK
    <3>3. PushTo(e)' = NewPushes(p, e, "complete")
      BY <1>1, <3>1, <3>2, DecidedPushes
    <3> QED BY <1>1, <3>2, <3>3, CompleteComesNow
  <2>3. CASE StepAfterCompletion(p)
    BY <1>1, <2>3 DEF StepAfterCompletion, Begin, Ended, TypeOK
  <2>4. CASE Grab(p)
    BY <2>4 DEF Grab, Ended
  <2>5. CASE Push(p)
    BY <2>5 DEF Push, Ended
  <2>6. CASE EndStep(p)
    <3>1. CASE verdict[p] = "complete" \/ required_outputs_done(p)
      <4>1. Stops(p) /\ verdict' = verdict /\ pc[p] = "busy" /\ \A r \in Procs : r # p => pc'[r] = pc[r]
        BY <1>1, <2>6, <3>1 DEF EndStep, Stops, TypeOK
      <4>2. Up(e) = p /\ verdict[p] # "complete"
        BY <1>1, <4>1, Stopping DEF Ended
      <4>3. OutputsDone(p)
        BY <3>1, <4>2 DEF required_outputs_done
      <4>4. PICK i \in DOMAIN Outputs[p] : e \in PortEdges(Outputs[p][i])
        BY <1>1, <4>2 DEF OutputSet
      <4>5. closed[e]
        BY <4>3, <4>4 DEF OutputsDone, AllRequired
      <4> QED BY <4>5, ClosedStays, ToldLater
    <3>2. CASE ~(verdict[p] = "complete" \/ required_outputs_done(p))
      <4>1. UNCHANGED is_complete /\ verdict' = verdict /\ pc[p] = "busy" /\ pc'[p] # "busy"
            /\ \A r \in Procs : r # p => pc'[r] = pc[r]
        BY <1>1, <2>6, <3>2 DEF EndStep, TypeOK
      <4> QED BY <1>1, <4>1 DEF Ended
    <3> QED BY <3>1, <3>2
  <2> QED BY <1>1, <1>3, <2>1, <2>2, <2>3, <2>4, <2>5, <2>6, Starting DEF ProcNext
<1> QED
  BY <1>2, <1>3, <1>4 DEF AnyNext

LEMMA ToldNext ==
  ASSUME BaseInv, SyncInv, ToldInv, AllRequired, [AnyNext]_vars PROVE ToldInv'
<1>1. BaseInv'
  BY BaseNext
<1>2. ASSUME NEW e \in Edges, Ended(Up(e))' PROVE Told(e)'
  <2>1. CASE Ended(Up(e))
    BY <1>1, <2>1, ToldStays DEF ToldInv
  <2>2. CASE ~Ended(Up(e))
    BY <1>2, <2>2, ToldWhenEnding
  <2> QED BY <2>1, <2>2
<1>3. \A p \in Procs : verdict'[p] = "complete" => pc'[p] # "top"
  BY VerdictKept
<1> QED
  BY <1>2, <1>3 DEF ToldInv

LEMMA ToldInit ==
  ASSUME Begins PROVE ToldInv
<1>1. PICK P : InitOf(P) /\ \A e \in Edges : Up(e) \in P <=> Down(e) \in P
  BY DEF Begins
<1>2. \A p \in Procs : verdict[p] = "none" /\ (is_complete[p] <=> p \notin P)
  BY <1>1 DEF InitOf
<1>3. \A e \in Edges : Ended(Up(e)) => closed[e]
  BY <1>1, <1>2, EdgeEnds DEF Ended, InitOf
<1> QED
  BY <1>2, <1>3 DEF ToldInv, Told

(* A thread that nobody interrupts ends between steps, and its process is  *)
(* complete.                                                               *)
ExitInv == \A p \in Procs : pc[p] = "exited" => is_complete[p] /\ todo[p] = <<>>

LEMMA ExitInit ==
  ASSUME NEW P, InitOf(P) PROVE ExitInv
BY DEF InitOf, ExitInv

LEMMA ExitNext ==
  ASSUME BaseInv, ExitInv, [Next]_vars PROVE ExitInv'
<1>1. TypeOK
  BY DEF BaseInv
<1>2. CASE UNCHANGED vars
  BY <1>2 DEF vars, ExitInv
<1>3. ASSUME NEW p \in Procs, ProcNext(p) PROVE ExitInv'
  <2>1. CASE Propagate(p) \/ Step(p) \/ StepAfterCompletion(p)
    BY <1>1, <2>1 DEF Propagate, Step, StepAfterCompletion, Begin, ExitInv, TypeOK
  <2>2. CASE StepAndStop(p)
    <3>1. /\ Stops(p) /\ pc' = [pc EXCEPT ![p] = "busy"]
          /\ todo' = [todo EXCEPT ![p] = Pushes(p, "complete")]
      BY <2>2 DEF StepAndStop, Begin, Stops
    <3>2. \A r \in Procs : is_complete[r] => is_complete'[r]
      BY <1>1, <3>1, Stopping
    <3> QED BY <1>1, <3>1, <3>2 DEF ExitInv, TypeOK
  <2>3. CASE Grab(p) \/ Push(p)
    <3>1. /\ pc[p] = "busy" /\ pc' = pc /\ is_complete' = is_complete
          /\ todo' = [todo EXCEPT ![p] = Tail(todo[p])]
      BY <2>3 DEF Grab, Push
    <3> QED BY <1>1, <3>1 DEF ExitInv, TypeOK
  <2>4. CASE EndStep(p)
    <3>1. /\ todo[p] = <<>> /\ todo' = todo
          /\ pc' = [pc EXCEPT ![p] = IF is_complete[p] \/ verdict[p] = "complete" THEN "exited" ELSE "top"]
      BY <2>4 DEF EndStep
    <3>2. CASE verdict[p] = "complete" \/ required_outputs_done(p)
      <4>1. Stops(p)
        BY <2>4, <3>2 DEF EndStep, Stops
      <4>2. is_complete'[p] /\ \A r \in Procs : is_complete[r] => is_complete'[r]
        BY <1>1, <4>1, Stopping
      <4> QED BY <1>1, <3>1, <4>2 DEF ExitInv, TypeOK
    <3>3. CASE ~(verdict[p] = "complete" \/ required_outputs_done(p))
      <4>1. is_complete' = is_complete
        BY <2>4, <3>3 DEF EndStep
      <4> QED BY <1>1, <3>1, <3>3, <4>1 DEF ExitInv, TypeOK
    <3> QED BY <3>2, <3>3
  <2> QED BY <1>3, <2>1, <2>2, <2>3, <2>4 DEF ProcNext
<1> QED
  BY <1>2, <1>3 DEF Next, Joined

LEMMA ToldImplies ==
  ASSUME BaseInv, ToldInv, ExitInv PROVE CompletePushed
<1>1. ASSUME NEW p \in Procs, pc[p] = "exited", NEW e \in OutputSet(p)
      PROVE  closed[e] \/ Sent(e, "complete") \/ verdict[Down(e)] = "complete"
  <2>1. e \in Edges /\ Up(e) = p
    BY <1>1, EdgeEnds
  <2>2. is_complete[p] /\ todo[p] = <<>>
    BY <1>1 DEF ExitInv
  <2>3. PushTo(e) = {}
    BY <2>1, <2>2, NoCalls DEF PushTo
  <2>4. Told(e)
    BY <2>1, <2>2 DEF ToldInv, Ended
  <2> QED BY <2>3, <2>4 DEF Told, CompleteComes
<1> QED
  BY <1>1 DEF CompletePushed

(* A process whose thread has ended has told each of its readers so, when  *)
(* no port is optional and the inputs that meet are read equally often.    *)
THEOREM EndIsTold ==
  Aligned /\ AllRequired => /\ Spec => []CompletePushed
                            /\ SyncSpec => []CompletePushed
<1>1. Begins => BaseInv /\ SyncInv /\ ToldInv /\ ExitInv
  BY BaseInit, SyncInvInit, ToldInit, ExitInit DEF Begins
<1>2. Aligned /\ AllRequired /\ (BaseInv /\ SyncInv /\ ToldInv) /\ [AnyNext]_vars
        => (BaseInv /\ SyncInv /\ ToldInv)'
  BY BaseNext, SyncInvNext, ToldNext
<1>3. BaseInv /\ SyncInv /\ ToldInv /\ ExitInv => CompletePushed
  BY ToldImplies
<1>4. SUFFICES ASSUME Aligned, AllRequired PROVE (Spec => []CompletePushed) /\ (SyncSpec => []CompletePushed)
  OBVIOUS
<1>5. (BaseInv /\ SyncInv /\ ToldInv) /\ [AnyNext]_vars => (BaseInv /\ SyncInv /\ ToldInv)'
  BY <1>2, <1>4
<1>6. BaseInv /\ ExitInv /\ [Next]_vars => ExitInv'
  BY ExitNext
<1> QED
  BY <1>1, <1>3, <1>5, <1>6, SpecSteps, SyncSteps, PTL

-----------------------------------------------------------------------------
(* What a process has been handed when its inputs end.                     *)

Freq(e) == Outputs[Up(e)][PortOf(e)].freq

(* A process that may end by itself does so after any number of steps; the *)
(* others end with their inputs, and then after a multiple of size steps.  *)
(* Whole says that such numbers leave nothing over on a required input.    *)
(* When the core frequency of every process that may end by itself is 1,   *)
(* size = Core is of that kind: by DataflowAssumption, with m = 1.         *)
Whole(size) ==
  /\ size \in [Procs -> Nat \ {0}]
  /\ \A p \in Procs : p \in MayStop \/ Inputs[p] = <<>> => size[p] = 1
  /\ \A e \in Edges \cap Required : \E m \in Nat :
       size[Up(e)] * Freq(e) = m * (size[Down(e)] * InFreq[e])

(* The data handed to _step, with those that the step under way will read. *)
Due(e) ==
  processed[e] + (IF verdict[Down(e)] = "none" /\ Reads(todo[Down(e)], e) THEN InFreq[e] ELSE 0)

(* After n steps that computed something.                                  *)
Tally(p, n) ==
  /\ Ended(p) \/ \A i \in DOMAIN Outputs[p] : stamp[p][i] = (n * Outputs[p][i].freq) * Increment(p, i)
  /\ \A e \in RequiredInputs(p) : Due(e) = n * InFreq[e]

TallyInv ==
  \A p \in Procs : verdict[p] \in {"none", "complete"} /\ \E n \in Nat : Tally(p, n)

CompleteAtEnd(e) == Len(q[e]) > 0 /\ q[e][Len(q[e])].type = "complete"

(* Until the reader absorbs the end, the stamps count what it was handed,  *)
(* and what was sent is what it was handed and what waits.                 *)
InPlace(e) ==
  /\ \E a, k \in Nat : a = processed[e] * Inc(e) /\ EdgeChain(e, a, k)
  /\ sent[e] + (IF CompleteAtEnd(e) THEN 1 ELSE 0) = processed[e] + Len(q[e])

PlaceInv ==
  \A e \in Edges \cap Required : closed[e] \/ verdict[Down(e)] = "complete" \/ InPlace(e)

(* The stamp of a complete datum.                                          *)
LastStamp(size, e, s) == \E m \in Nat : s = (m * (size[Up(e)] * Freq(e))) * Inc(e)

LastInv(size) ==
  \A e \in Edges :
    /\ \A i \in 1..Len(q[e]) : q[e][i].type = "complete" => LastStamp(size, e, q[e][i].stamp)
    /\ \A c \in PushTo(e) : c.datum.type = "complete" => LastStamp(size, e, c.datum.stamp)

(* Nothing more comes on an edge, and nothing is left of it.               *)
UsedUp(e) == processed[e] = sent[e] /\ Ended(Up(e)) /\ PushTo(e) = {}

LeftInv ==
  \A p \in Procs : verdict[p] = "complete" => \E e \in RequiredInputs(p) : UsedUp(e)

CountInv(size) == TallyInv /\ PlaceInv /\ LastInv(size) /\ LeftInv

LEMMA DueLater ==
  \A e : Due(e)' = processed'[e] +
           (IF verdict'[Down(e)] = "none" /\ Reads(todo'[Down(e)], e) THEN InFreq[e] ELSE 0)
BY DEF Due, Reads, Elems

LEMMA CancelFactor ==
  ASSUME NEW k \in Nat \ {0}, NEW m \in Nat, NEW n \in Nat, m * k = n * k
  PROVE  m = n
<1>1. ASSUME m < n PROVE FALSE
  BY <1>1, Multiples
<1>2. ASSUME n < m PROVE FALSE
  BY <1>2, Multiples
<1> QED
  BY <1>1, <1>2

(* A remainder that is less than a step's data, of whole numbers of steps. *)
LEMMA NoRemainder ==
  ASSUME NEW n \in Nat, NEW f \in Nat \ {0}, NEW r \in Nat, r < f, NEW k \in Nat, n * f + r = k * f
  PROVE  r = 0 /\ n = k
<1>1. n * f \in Nat /\ k * f \in Nat /\ (n + 1) * f = n * f + f /\ n + 1 \in Nat
  OBVIOUS
<1>2. ASSUME k < n PROVE FALSE
  BY <1>1, <1>2, Multiples
<1>3. ASSUME n + 1 < k PROVE FALSE
  <2>1. (n + 1) * f < k * f
    BY <1>1, <1>3, Multiples
  <2> QED BY <1>1, <2>1
<1>4. ASSUME n + 1 = k PROVE FALSE
  BY <1>1, <1>4
<1>5. n = k
  BY <1>2, <1>3, <1>4
<1> QED
  BY <1>1, <1>5

(* Without other control data, a step reads real data or the end.          *)
LEMMA PlainStart ==
  ASSUME SourceKinds = {}, BaseInv, ChainInv, KindsInv, NEW p \in Procs
  PROVE  /\ Propagate(p) => Starts(p, "complete", "complete")
         /\ Step(p) => Starts(p, "data", "none")
<1>1. ASSUME Propagate(p) PROVE Starts(p, "complete", "complete")
  <2>1. Starts(p, check_required_input(p), check_required_input(p)) /\ check_required_input(p) # "none"
    BY <1>1, Starting DEF Propagate, BaseInv
  <2>2. check_required_input(p) \in Kinds \cup {"none"}
    BY <1>1, Judging DEF Propagate, Begin
  <2>3. check_required_input(p) # "data"
    BY DEF check_required_input
  <2>4. check_required_input(p) = "complete"
    BY <2>1, <2>2, <2>3 DEF Kinds
  <2> QED BY <2>1, <2>4
<1>2. ASSUME Step(p) PROVE Starts(p, "data", "none")
  <2>1. PICK t \in {"data"} \cup SourceKinds : Starts(p, t, "none")
    BY <1>2, Starting DEF BaseInv
  <2> QED BY <2>1
<1> QED
  BY <1>1, <1>2

(* The step that reads the end has been handed all that was sent on the    *)
(* input that ends, and a whole number of times what its size says.        *)
LEMMA EndingStep ==
  ASSUME NEW size, Whole(size), BaseInv, CompleteInv, ChainInv, KindsInv, PlaceInv, LastInv(size),
         NEW p \in Procs, pc[p] = "top", ~is_complete[p], \A e \in RequiredInputs(p) : Available(e),
         check_required_input(p) = "complete", NEW n \in Nat, Tally(p, n)
  PROVE  /\ \E m \in Nat : n = m * size[p]
         /\ \E e \in RequiredInputs(p) : UsedUp(e)
<1>1. QueueTypes /\ InStep(p) /\ TypeOK /\ todo[p] = <<>> /\ verdict[p] # "complete"
  BY AtTheHeads, TypedQueues DEF BaseInv, CallsInv
<1>2. \E e \in RequiredInputs(p) : \E i \in 1..Taken(e) : q[e][i].type = "complete"
  <2>1. \E e \in RequiredInputs(p) : \E i \in 1..Taken(e) :
          LET m == q[e][i].type
          IN  /\ check_required_input(p) = IF m = "data" THEN "none" ELSE m
              /\ \A f \in RequiredInputs(p) : \A j \in 1..Taken(f) : Rank[q[f][j].type] <= Rank[m]
    BY <1>1, CheckedInputs
  <2> QED BY <2>1
<1>3. PICK e \in RequiredInputs(p) : \E i \in 1..Taken(e) : q[e][i].type = "complete"
  BY <1>2
<1>4. PICK i \in 1..Taken(e) : q[e][i].type = "complete"
  BY <1>3
<1>5. e \in Edges /\ Down(e) = p /\ e \in Required /\ Available(e)
  BY RequiredEdges DEF RequiredInputs
<1>6. /\ Len(q[e]) \in Nat \ {0} /\ Taken(e) \in 1..Len(q[e]) /\ InFreq[e] \in Nat \ {0}
      /\ (Taken(e) = 1 \/ Taken(e) = InFreq[e])
  BY <1>1, <1>5, TakenPlaces, DataflowAssumption
<1>7. i \in 1..Len(q[e]) /\ i - 1 \in Nat /\ i - 1 < InFreq[e]
  BY <1>6
<1>8. i = Len(q[e]) /\ Ended(Up(e)) /\ PushTo(e) = {}
  BY <1>4, <1>5, <1>7 DEF CompleteInv
<1>9. ~closed[e]
  BY <1>5, <1>6, <1>1 DEF BaseInv, ClosedInv, Available
<1>10. InPlace(e)
  BY <1>1, <1>5, <1>9 DEF PlaceInv
<1>11. PICK a \in Nat, k \in Nat : a = processed[e] * Inc(e) /\ EdgeChain(e, a, k)
  BY <1>10 DEF InPlace
<1>12. q[e][i].stamp = a + (i - 1) * Inc(e)
  BY <1>7, <1>11 DEF EdgeChain
<1>13. PICK m \in Nat : q[e][i].stamp = (m * (size[Up(e)] * Freq(e))) * Inc(e)
  BY <1>4, <1>5, <1>7 DEF LastInv, LastStamp
<1>14. PICK l \in Nat : size[Up(e)] * Freq(e) = l * (size[p] * InFreq[e])
  BY <1>5 DEF Whole
<1>15. processed[e] = n * InFreq[e]
  <2>1. Due(e) = n * InFreq[e]
    BY DEF Tally
  <2>2. ~Reads(todo[p], e)
    BY <1>1, NoCalls
  <2>3. processed[e] \in Nat
    BY <1>1, <1>5 DEF TypeOK
  <2> QED BY <1>5, <2>1, <2>2, <2>3 DEF Due
<1>16. size[p] \in Nat \ {0} /\ Inc(e) \in Nat \ {0}
  BY <1>5, IncOfEdge DEF Whole
<1>17. PICK f \in Nat \ {0}, d \in Nat \ {0}, s \in Nat \ {0}, r \in Nat :
         f = InFreq[e] /\ d = Inc(e) /\ s = size[p] /\ r = i - 1
  BY <1>6, <1>7, <1>16
<1>18. PICK K \in Nat : K = (m * l) * s
  BY <1>17
<1>19. (n * f + r) * d = (K * f) * d
  <2>1. (n * f) * d + r * d = (m * (l * (s * f))) * d
    BY <1>11, <1>12, <1>13, <1>14, <1>15, <1>17
  <2>2. m * (l * (s * f)) = ((m * l) * s) * f
    BY <1>17, SMT
  <2>3. (n * f + r) * d = (n * f) * d + r * d
    BY <1>17, SMT
  <2> QED BY <1>18, <2>1, <2>2, <2>3
<1>20. n * f + r = K * f
  <2>1. n * f + r \in Nat /\ K * f \in Nat
    BY <1>17
  <2> QED BY <1>17, <1>19, <2>1, CancelFactor
<1>21. r = 0 /\ n = K
  <2>1. r < f
    BY <1>7, <1>17
  <2> QED BY <1>17, <1>20, <2>1, NoRemainder
<1>22. processed[e] = sent[e]
  <2>1. i = 1 /\ Len(q[e]) = 1 /\ CompleteAtEnd(e)
    BY <1>4, <1>6, <1>7, <1>8, <1>17, <1>21 DEF CompleteAtEnd
  <2>2. sent[e] + 1 = processed[e] + 1
    BY <1>10, <2>1 DEF InPlace
  <2>3. sent[e] \in Nat /\ processed[e] \in Nat
    BY <1>1, <1>5 DEF TypeOK
  <2> QED BY <2>2, <2>3
<1>23. n = (m * l) * size[p] /\ m * l \in Nat
  BY <1>17, <1>18, <1>21
<1> QED
  BY <1>8, <1>22, <1>23 DEF UsedUp

LEMMA TallyDecided ==
  ASSUME BaseInv, TallyInv, [AnyNext]_vars, NEW p \in Procs, NEW t, NEW v, Starts(p, t, v),
         <<t, v>> \in {<<"data", "none">>, <<"complete", "complete">>}
  PROVE  TallyInv'
<1>1. /\ pc[p] = "top" /\ ~is_complete[p] /\ verdict' = [verdict EXCEPT ![p] = v]
      /\ todo' = [todo EXCEPT ![p] = Grabs(p) \o Pushes(p, t)] /\ t \in Types
      /\ stamp' = StampsAfter(p, t) /\ processed' = processed /\ pc' = [pc EXCEPT ![p] = "busy"]
  BY DEF Starts, Begin
<1>2. Stamps /\ TypeOK /\ todo[p] = <<>> /\ verdict[p] # "complete" /\ ~Ended(p)
  BY <1>1, TypedQueues DEF BaseInv, CallsInv, Ended
<1>3. /\ todo'[p] = Grabs(p) \o Pushes(p, t) /\ \A r \in Procs : r # p => todo'[r] = todo[r]
      /\ verdict'[p] = v /\ \A r \in Procs : r # p => verdict'[r] = verdict[r]
      /\ pc'[p] = "busy"
  BY <1>1, <1>2 DEF TypeOK
<1>4. ASSUME NEW r \in Procs, r # p
      PROVE  verdict'[r] \in {"none", "complete"} /\ \E n \in Nat : Tally(r, n)'
  <2>1. PICK n \in Nat : Tally(r, n)
    BY DEF TallyInv
  <2>2. stamp'[r] = stamp[r]
    BY <1>1, <1>2, <1>4, StampsAdvance
  <2>3. \A e \in RequiredInputs(r) : Due(e)' = Due(e)
    BY <1>1, <1>3, <1>4, RequiredEdges, DueLater DEF Due
  <2>4. Ended(r) => Ended(r)'
    BY EndedStays
  <2>5. Tally(r, n)'
    BY <2>1, <2>2, <2>3, <2>4 DEF Tally, RequiredInputs, Increment
  <2> QED BY <1>3, <1>4, <2>5 DEF TallyInv
<1>5. PICK n \in Nat : Tally(p, n)
  BY DEF TallyInv
<1>6. \A e \in RequiredInputs(p) : /\ processed[e] = n * InFreq[e] /\ processed[e] \in Nat /\ InFreq[e] \in Nat
                                   /\ Down(e) = p /\ e \in InputSet(p)
  <2> TAKE e \in RequiredInputs(p)
  <2>1. e \in Edges /\ Down(e) = p /\ e \in InputSet(p) /\ InFreq[e] \in Nat
    BY RequiredEdges, DataflowAssumption
  <2>2. ~Reads(todo[p], e) /\ processed[e] \in Nat
    BY <1>2, <2>1, NoCalls DEF TypeOK
  <2> QED BY <1>5, <2>1, <2>2 DEF Tally, Due
<1>7. CASE t = "complete" /\ v = "complete"
  <2>1. Ended(p)'
    BY <1>3, <1>7 DEF Ended
  <2>2. \A e \in RequiredInputs(p) : Due(e)' = n * InFreq[e]
    BY <1>1, <1>3, <1>6, <1>7, DueLater
  <2>3. Tally(p, n)'
    BY <2>1, <2>2 DEF Tally, RequiredInputs
  <2> QED BY <1>3, <1>4, <1>7, <2>3 DEF TallyInv
<1>8. CASE t = "data" /\ v = "none"
  <2>1. \A e \in RequiredInputs(p) : Due(e)' = (n + 1) * InFreq[e]
    <3> TAKE e \in RequiredInputs(p)
    <3>1. Reads(todo'[p], e)
      BY <1>1, <1>2, <1>3, <1>6, StartedPushes
    <3>2. Due(e)' = n * InFreq[e] + InFreq[e]
      BY <1>1, <1>3, <1>6, <1>8, <3>1, DueLater
    <3>3. (n + 1) * InFreq[e] = n * InFreq[e] + InFreq[e]
      BY <1>6
    <3> QED BY <3>2, <3>3
  <2>2. \A i \in DOMAIN Outputs[p] : stamp'[p][i] = ((n + 1) * Outputs[p][i].freq) * Increment(p, i)
    <3> TAKE i \in DOMAIN Outputs[p]
    <3>1. stamp[p][i] = (n * Outputs[p][i].freq) * Increment(p, i)
      BY <1>2, <1>5 DEF Tally
    <3>2. Times(p, i, t) = Outputs[p][i].freq
      BY <1>8 DEF Times, Rank
    <3>3. stamp'[p][i] = (n * Outputs[p][i].freq) * Increment(p, i) + Outputs[p][i].freq * Increment(p, i)
      BY <1>1, <1>2, <3>1, <3>2, StampsAdvance
    <3>4. PICK f \in Nat, d \in Nat : f = Outputs[p][i].freq /\ d = Increment(p, i)
      BY OutputPorts, IncrementNat
    <3>5. (n * f) * d + f * d = ((n + 1) * f) * d
      BY SMT
    <3> QED BY <3>3, <3>4, <3>5
  <2>3. Tally(p, n + 1)'
    BY <2>1, <2>2 DEF Tally, RequiredInputs, Increment
  <2> QED BY <1>3, <1>4, <1>8, <2>3 DEF TallyInv
<1> QED
  BY <1>7, <1>8

LEMMA PlaceDecided ==
  ASSUME BaseInv, PlaceInv, NEW p \in Procs, NEW t \in Types, pc[p] = "top",
         todo' = [todo EXCEPT ![p] = Grabs(p) \o Pushes(p, t)] \/ todo' = [todo EXCEPT ![p] = Pushes(p, t)],
         stamp' = StampsAfter(p, t), processed' = processed, sent' = sent,
         \A e \in Edges : closed'[e] \/ (q'[e] = q[e] /\ ~closed[e]),
         \A r \in Procs : verdict[r] = "complete" => verdict'[r] = "complete"
  PROVE  PlaceInv'
<1>1. Stamps /\ QueueTypes
  BY TypedQueues DEF BaseInv
<1>2. /\ \A e \in Edges : Up(e) # p => PushTo(e)' = PushTo(e)
      /\ \A e \in Edges : Up(e) = p => PushTo(e) = {} /\ PushTo(e)' = NewPushes(Up(e), e, t)
  BY DecidedPushes
<1>3. ASSUME NEW e \in Edges \cap Required, ~closed'[e], verdict'[Down(e)] # "complete" PROVE InPlace(e)'
  <2>1. q'[e] = q[e] /\ ~closed[e]
    BY <1>3
  <2>2. InPlace(e)
    BY <1>3, <2>1, EdgeEnds DEF PlaceInv
  <2>3. PICK a \in Nat, k \in Nat : a = processed[e] * Inc(e) /\ EdgeChain(e, a, k)
    BY <2>2 DEF InPlace
  <2>4. \E l \in Nat : EdgeChain(e, a, l)'
    <3>1. CASE Up(e) = p
      <4>1. EdgeChain(e, a, Times(Up(e), PortOf(e), t))'
        BY <1>1, <1>2, <2>1, <2>3, <3>1, ChainStart
      <4>2. Times(Up(e), PortOf(e), t) \in Nat
        BY EdgeEnds, PortOfEdge, TimesNat
      <4> QED BY <4>1, <4>2
    <3>2. CASE Up(e) # p
      <4>1. PushTo(e)' = PushTo(e) /\ stamp'[Up(e)] = stamp[Up(e)]
        BY <1>1, <1>2, <3>2, EdgeEnds, StampsAdvance
      <4> QED BY <2>1, <2>3, <4>1, ChainSame
    <3> QED BY <3>1, <3>2
  <2>5. a = processed'[e] * Inc(e)
    BY <2>3
  <2>6. CompleteAtEnd(e)' <=> CompleteAtEnd(e)
    BY <2>1 DEF CompleteAtEnd
  <2>7. sent'[e] + (IF CompleteAtEnd(e)' THEN 1 ELSE 0) = processed'[e] + Len(q'[e])
    BY <2>1, <2>2, <2>6 DEF InPlace
  <2> QED BY <2>4, <2>5, <2>7 DEF InPlace, Inc
<1> QED
  BY <1>3 DEF PlaceInv

LEMMA LastDecided ==
  ASSUME NEW size, Whole(size), BaseInv, LastInv(size), NEW p \in Procs, NEW t \in Types, pc[p] = "top",
         todo' = [todo EXCEPT ![p] = Grabs(p) \o Pushes(p, t)] \/ todo' = [todo EXCEPT ![p] = Pushes(p, t)],
         NEW n \in Nat, Tally(p, n), ~Ended(p), t = "complete" => \E m \in Nat : n = m * size[p],
         \A e \in Edges : q'[e] = q[e] \/ q'[e] = <<>>
  PROVE  LastInv(size)'
<1>1. /\ \A e \in Edges : Up(e) # p => PushTo(e)' = PushTo(e)
      /\ \A e \in Edges : Up(e) = p => PushTo(e) = {} /\ PushTo(e)' = NewPushes(Up(e), e, t)
  BY DecidedPushes
<1>2. Stamps
  BY TypedQueues DEF BaseInv
<1>3. ASSUME NEW e \in Edges, NEW c \in PushTo(e)', c.datum.type = "complete"
      PROVE  LastStamp(size, e, c.datum.stamp)
  <2>1. CASE Up(e) # p
    BY <1>1, <1>3, <2>1 DEF LastInv
  <2>2. CASE Up(e) = p
    <3>1. c \in NewPushes(p, e, t)
      BY <1>1, <1>3, <2>2
    <3>2. t = "complete"
      BY <1>2, <1>3, <2>2, <3>1, OneComplete
    <3>3. PortOf(e) \in DOMAIN Outputs[p] /\ Times(p, PortOf(e), t) = 1
      BY <2>2, <3>2, EdgeEnds, PortOfEdge, TimesNat
    <3>4. c = PushOf(e, t, StampAt(p, PortOf(e), 1))
      BY <3>1, <3>3 DEF NewPushes
    <3>5. stamp[p][PortOf(e)] \in Nat /\ Increment(p, PortOf(e)) \in Nat
      BY <1>2, <3>3, IncrementNat DEF Stamps
    <3>6. c.datum.stamp = stamp[p][PortOf(e)]
      <4>1. c.datum.stamp = StampAt(p, PortOf(e), 1)
        BY <3>4 DEF PushOf
      <4> QED BY <3>5, <4>1 DEF StampAt
    <3>7. stamp[p][PortOf(e)] = (n * Freq(e)) * Inc(e)
      BY <2>2, <3>3, IncOfEdge DEF Tally, Freq
    <3>8. PICK m \in Nat : n = m * size[p]
      BY <3>2
    <3>9. PICK s \in Nat, f \in Nat : s = size[p] /\ f = Freq(e)
      BY <2>2, <3>3, OutputPorts DEF Whole, Freq
    <3>10. (m * s) * f = m * (s * f)
      BY SMT
    <3>11. n * Freq(e) = m * (size[Up(e)] * Freq(e))
      BY <2>2, <3>8, <3>9, <3>10
    <3> QED BY <3>6, <3>7, <3>11 DEF LastStamp
  <2> QED BY <2>1, <2>2
<1>4. ASSUME NEW e \in Edges, NEW i \in 1..Len(q'[e]), q'[e][i].type = "complete"
      PROVE  LastStamp(size, e, q'[e][i].stamp)
  <2>1. q'[e] = q[e]
    <3>1. ASSUME q'[e] = <<>> PROVE FALSE
      BY <1>4, <3>1
    <3> QED BY <3>1
  <2> QED BY <1>4, <2>1 DEF LastInv
<1> QED
  BY <1>3, <1>4 DEF LastInv, LastStamp, Freq, Inc

LEMMA LeftDecided ==
  ASSUME BaseInv, [AnyNext]_vars, LeftInv, NEW p \in Procs, NEW t \in Types, pc[p] = "top", ~Ended(p),
         todo' = [todo EXCEPT ![p] = Grabs(p) \o Pushes(p, t)] \/ todo' = [todo EXCEPT ![p] = Pushes(p, t)],
         processed' = processed, sent' = sent,
         \A r \in Procs : verdict'[r] = "complete" =>
           verdict[r] = "complete" \/ \E e \in RequiredInputs(r) : UsedUp(e)
  PROVE  LeftInv'
<1>1. \A e \in Edges : Up(e) # p => PushTo(e)' = PushTo(e)
  BY DecidedPushes
<1>2. ASSUME NEW r \in Procs, verdict'[r] = "complete" PROVE \E e \in RequiredInputs(r) : UsedUp(e)'
  <2>1. PICK e \in RequiredInputs(r) : UsedUp(e)
    BY <1>2 DEF LeftInv
  <2>2. e \in Edges /\ Up(e) \in Procs /\ Up(e) # p
    BY <2>1, RequiredEdges, EdgeEnds DEF UsedUp
  <2>3. Ended(Up(e))' /\ PushTo(e)' = {}
    BY <1>1, <2>1, <2>2, EndedStays DEF UsedUp
  <2>4. processed'[e] = sent'[e]
    BY <2>1 DEF UsedUp
  <2> QED BY <2>3, <2>4 DEF UsedUp
<1> QED
  BY <1>2 DEF LeftInv, RequiredInputs

(* A step that makes no call and decides on none.                          *)
LEMMA CountKept ==
  ASSUME NEW size, BaseInv, CountInv(size), [AnyNext]_vars, todo' = todo, stamp' = stamp,
         processed' = processed, sent' = sent,
         \A e \in Edges : closed'[e] \/ (q'[e] = q[e] /\ ~closed[e]),
         \A e \in Edges : q'[e] = q[e] \/ q'[e] = <<>>,
         \A r \in Procs : \/ verdict'[r] = verdict[r]
                          \/ todo[r] = <<>> /\ verdict[r] # "complete" /\ verdict'[r] = "none"
  PROVE  CountInv(size)'
<1>1. TallyInv /\ PlaceInv /\ LastInv(size) /\ LeftInv
  BY DEF CountInv
<1>2. \A e \in Edges : PushTo(e)' = PushTo(e)
  BY DEF PushTo, PushesIn, Elems
<1>3. TallyInv'
  <2> SUFFICES ASSUME NEW r \in Procs
               PROVE  verdict'[r] \in {"none", "complete"} /\ \E n \in Nat : Tally(r, n)'
    BY DEF TallyInv
  <2>1. verdict[r] \in {"none", "complete"}
    BY <1>1 DEF TallyInv
  <2>2. PICK n \in Nat : Tally(r, n)
    BY <1>1 DEF TallyInv
  <2>3. Ended(r) => Ended(r)'
    BY EndedStays
  <2>4. \A e \in RequiredInputs(r) : Due(e)' = Due(e)
    BY NoCalls, RequiredEdges, DueLater DEF Due
  <2>5. Tally(r, n)'
    BY <2>2, <2>3, <2>4 DEF Tally, RequiredInputs, Increment
  <2> QED BY <2>1, <2>5
<1>4. PlaceInv'
  <2> SUFFICES ASSUME NEW e \in Edges \cap Required, ~closed'[e], verdict'[Down(e)] # "complete"
               PROVE  InPlace(e)'
    BY DEF PlaceInv
  <2>1. q'[e] = q[e] /\ ~closed[e] /\ Down(e) \in Procs
    BY EdgeEnds
  <2>2. InPlace(e)
    BY <1>1, <2>1 DEF PlaceInv
  <2>3. PICK a \in Nat, k \in Nat : a = processed[e] * Inc(e) /\ EdgeChain(e, a, k)
    BY <2>2 DEF InPlace
  <2>4. EdgeChain(e, a, k)'
    BY <1>2, <2>1, <2>3, ChainSame
  <2>5. a = processed'[e] * Inc(e)
    BY <2>3
  <2>6. CompleteAtEnd(e)' <=> CompleteAtEnd(e)
    BY <2>1 DEF CompleteAtEnd
  <2>7. sent'[e] + (IF CompleteAtEnd(e)' THEN 1 ELSE 0) = processed'[e] + Len(q'[e])
    BY <2>1, <2>2, <2>6 DEF InPlace
  <2> QED BY <2>4, <2>5, <2>7 DEF InPlace, Inc
<1>5. LastInv(size)'
  <2>1. ASSUME NEW e \in Edges, NEW i \in 1..Len(q'[e]), q'[e][i].type = "complete"
        PROVE  LastStamp(size, e, q'[e][i].stamp)
    <3>1. q'[e] = q[e]
      <4>1. ASSUME q'[e] = <<>> PROVE FALSE
        BY <2>1, <4>1
      <4> QED BY <4>1
    <3> QED BY <1>1, <2>1, <3>1 DEF LastInv
  <2>2. \A e \in Edges : \A c \in PushTo(e)' : c.datum.type = "complete" => LastStamp(size, e, c.datum.stamp)
    BY <1>1, <1>2 DEF LastInv
  <2> QED BY <2>1, <2>2 DEF LastInv, LastStamp, Freq, Inc
<1>6. LeftInv'
  <2> SUFFICES ASSUME NEW r \in Procs, verdict'[r] = "complete"
               PROVE  \E e \in RequiredInputs(r) : UsedUp(e)'
    BY DEF LeftInv, RequiredInputs
  <2>1. PICK e \in RequiredInputs(r) : UsedUp(e)
    BY <1>1 DEF LeftInv
  <2>2. e \in Edges /\ Up(e) \in Procs
    BY RequiredEdges, EdgeEnds
  <2>3. Ended(Up(e))' /\ PushTo(e)' = {}
    BY <1>2, <2>1, <2>2, EndedStays DEF UsedUp
  <2> QED BY <2>1, <2>3 DEF UsedUp
<1> QED
  BY <1>3, <1>4, <1>5, <1>6 DEF CountInv

(* What is read from an edge counts, unless it is the end that is absorbed.*)
LEMMA GrabCounts ==
  ASSUME BaseInv, NEW p \in Procs, Grab(p), NEW f \in InputSet(p), Grabbed(p, f)
  PROVE  /\ \A e \in Edges : e # f => processed'[e] = processed[e]
         /\ processed'[f] = IF verdict[p] = "none" THEN processed[f] + Taken(f) ELSE processed[f]
<1>1. Head(todo[p]).edge = f /\ f \in Edges
  BY DEF Grabbed
<1>2. processed' = [processed EXCEPT ![f] = IF verdict[p] = "none" THEN processed[f] + Taken(f) ELSE processed[f]]
  BY <1>1 DEF Grab
<1>3. processed \in [Edges -> Nat]
  BY DEF BaseInv, TypeOK
<1> QED
  BY <1>1, <1>2, <1>3

LEMMA PushCounts ==
  ASSUME BaseInv, NEW p \in Procs, Push(p), NEW f \in OutputSet(p), NEW d \in Data, Pushed(p, f, d)
  PROVE  /\ \A e \in Edges : e # f => sent'[e] = sent[e]
         /\ ~closed[f] => sent'[f] = IF d.type = "data" THEN sent[f] + 1 ELSE sent[f]
<1>1. Head(todo[p]).edge = f /\ Head(todo[p]).datum = d /\ f \in Edges
  BY DEF Pushed
<1>2. IF closed[f] THEN sent' = sent
      ELSE sent' = [sent EXCEPT ![f] = IF d.type = "data" THEN sent[f] + 1 ELSE sent[f]]
  BY <1>1 DEF Push
<1>3. sent \in [Edges -> Nat]
  BY DEF BaseInv, TypeOK
<1> QED
  BY <1>1, <1>2, <1>3

(* What a step of a process that goes on takes from an edge: real data.    *)
LEMMA TakesData ==
  ASSUME SourceKinds = {}, BaseInv, KindsInv, FitInv, NEW p \in Procs, NEW f \in RequiredInputs(p),
         Reads(todo[p], f), verdict[p] = "none"
  PROVE  /\ Available(f) /\ Taken(f) = InFreq[f]
         /\ \A i \in 1..Taken(f) : q[f][i].type = "data"
<1>1. f \in Edges /\ QueueTypes
  BY RequiredEdges, TypedQueues DEF BaseInv
<1>2. Available(f) /\ \A i \in 1..Taken(f) : q[f][i].type # "complete"
  BY DEF FitInv
<1>3. /\ Taken(f) \in 1..Len(q[f]) /\ Len(q[f]) \in Nat /\ Head(q[f]) = q[f][1]
      /\ (Rank[Head(q[f]).type] < Rank["flush"] => Taken(f) = InFreq[f])
  BY <1>1, <1>2, TakenPlaces
<1>4. \A i \in 1..Taken(f) : q[f][i].type = "data"
  BY <1>1, <1>2, <1>3 DEF KindsInv, Kinds
<1>5. Rank[Head(q[f]).type] < Rank["flush"]
  BY <1>3, <1>4 DEF Rank
<1> QED
  BY <1>2, <1>3, <1>4, <1>5

LEMMA CountGrab ==
  ASSUME NEW size, SourceKinds = {}, BaseInv, KindsInv, FitInv, CountInv(size), [AnyNext]_vars,
         NEW p \in Procs, Grab(p)
  PROVE  CountInv(size)'
<1>1. TallyInv /\ PlaceInv /\ LastInv(size) /\ LeftInv /\ TypeOK /\ QueueTypes
  BY TypedQueues DEF CountInv, BaseInv
<1>2. CallMade(p) /\ \E f \in InputSet(p) : Grabbed(p, f)
  BY Grabbing
<1>3. PICK f \in InputSet(p) : Grabbed(p, f)
  BY <1>2
<1>4. /\ \A e \in Edges : PushTo(e)' = PushTo(e)
      /\ ~Reads(todo'[p], f) /\ Reads(todo[p], f)
      /\ \A e : e # f => (Reads(todo'[p], e) <=> Reads(todo[p], e))
  BY <1>2, <1>3, CallsLeft
<1>5. /\ \A e \in Edges : e # f => processed'[e] = processed[e]
      /\ processed'[f] = IF verdict[p] = "none" THEN processed[f] + Taken(f) ELSE processed[f]
  BY <1>3, GrabCounts
<1>6. /\ stamp' = stamp /\ closed' = closed /\ verdict' = verdict /\ sent' = sent
      /\ \A r \in Procs : r # p => todo'[r] = todo[r]
  BY <1>2, <1>3 DEF CallMade, Grabbed
<1>7. f \in Edges /\ Down(f) = p /\ Available(f) /\ \A e \in Edges : e # f => q'[e] = q[e]
  BY <1>3 DEF Grabbed
<1>8. f \in Required => f \in RequiredInputs(p)
  BY DEF RequiredInputs
<1>9. f \in Required /\ verdict[p] = "none" =>
        Taken(f) = InFreq[f] /\ \A i \in 1..Taken(f) : q[f][i].type = "data"
  BY <1>1, <1>4, <1>8, TakesData
<1>10. processed[f] \in Nat /\ InFreq[f] \in Nat
  BY <1>1, <1>7, DataflowAssumption DEF TypeOK
<1>11. TallyInv'
  <2> SUFFICES ASSUME NEW r \in Procs
               PROVE  verdict'[r] \in {"none", "complete"} /\ \E n \in Nat : Tally(r, n)'
    BY DEF TallyInv
  <2>1. PICK n \in Nat : Tally(r, n)
    BY <1>1 DEF TallyInv
  <2>2. Ended(r) => Ended(r)'
    BY EndedStays
  <2>3. ASSUME NEW e \in RequiredInputs(r) PROVE Due(e)' = Due(e)
    <3>1. Down(e) = r /\ e \in Edges /\ e \in Required
      BY RequiredEdges DEF RequiredInputs
    <3>2. CASE e = f
      <4>1. r = p
        BY <1>7, <3>1, <3>2
      <4>2. CASE verdict[p] = "none"
        BY <1>4, <1>5, <1>6, <1>7, <1>9, <1>10, <3>1, <3>2, <4>1, <4>2, DueLater DEF Due
      <4>3. CASE verdict[p] # "none"
        BY <1>5, <1>6, <1>7, <3>2, <4>3, DueLater DEF Due
      <4> QED BY <4>2, <4>3
    <3>3. CASE e # f
      <4>1. Reads(todo'[r], e) <=> Reads(todo[r], e)
        BY <1>4, <1>6, <3>3
      <4> QED BY <1>5, <1>6, <3>1, <3>3, <4>1, DueLater DEF Due
    <3> QED BY <3>2, <3>3
  <2>4. Tally(r, n)'
    BY <1>6, <2>1, <2>2, <2>3 DEF Tally, RequiredInputs, Increment
  <2> QED BY <1>1, <1>6, <2>4 DEF TallyInv
<1>12. PlaceInv'
  <2> SUFFICES ASSUME NEW e \in Edges \cap Required, ~closed'[e], verdict'[Down(e)] # "complete"
               PROVE  InPlace(e)'
    BY DEF PlaceInv
  <2>1. InPlace(e)
    BY <1>1, <1>6 DEF PlaceInv
  <2>2. PICK a \in Nat, k \in Nat : a = processed[e] * Inc(e) /\ EdgeChain(e, a, k)
    BY <2>1 DEF InPlace
  <2>3. CASE e # f
    <3>1. EdgeChain(e, a, k)'
      BY <1>4, <1>6, <1>7, <2>2, <2>3, ChainSame
    <3>2. a = processed'[e] * Inc(e)
      BY <1>5, <2>2, <2>3
    <3>3. CompleteAtEnd(e)' <=> CompleteAtEnd(e)
      BY <1>7, <2>3 DEF CompleteAtEnd
    <3>4. sent'[e] + (IF CompleteAtEnd(e)' THEN 1 ELSE 0) = processed'[e] + Len(q'[e])
      BY <1>5, <1>6, <1>7, <2>1, <2>3, <3>3 DEF InPlace
    <3> QED BY <3>1, <3>2, <3>4 DEF InPlace, Inc
  <2>4. CASE e = f
    <3>1. verdict[p] = "none"
      BY <1>1, <1>6, <1>7, <2>4 DEF TallyInv
    <3>2. /\ \A i \in 1..Taken(f) : q[f][i].type = "data"
          /\ processed'[f] = processed[f] + Taken(f)
      BY <1>5, <1>9, <2>4, <3>1
    <3>3. /\ Taken(f) \in 1..Len(q[f]) /\ Len(q[f]) \in Nat
      BY <1>1, <1>7, TakenPlaces
    <3>4. PICK T \in Nat : T = Taken(f)
      BY <3>3
    <3>5. /\ T <= Len(q[f]) /\ Len(q'[f]) = Len(q[f]) - T
          /\ \A i \in 1..Len(q'[f]) : i + T \in 1..Len(q[f]) /\ q'[f][i] = q[f][i + T]
      BY <1>3, <3>3, <3>4 DEF Grabbed
    <3>6. EdgeChain(f, a + T * Inc(f), k)' /\ a + T * Inc(f) \in Nat
      BY <1>1, <1>4, <1>6, <1>7, <2>2, <2>4, <3>5, ChainGrab
    <3>7. a + T * Inc(f) = processed'[f] * Inc(f)
      <4>1. PICK d \in Nat : d = Inc(f)
        BY <1>7, IncOfEdge
      <4>2. processed[f] * d + T * d = (processed[f] + T) * d
        BY <1>10, SMT
      <4> QED BY <2>2, <2>4, <3>2, <3>4, <4>1, <4>2
    <3>8. CompleteAtEnd(f)' <=> CompleteAtEnd(f)
      <4>1. CASE Len(q'[f]) = 0
        <5>1. Len(q[f]) = T /\ q[f][Len(q[f])].type = "data"
          BY <3>2, <3>3, <3>4, <3>5, <4>1
        <5> QED BY <4>1, <5>1 DEF CompleteAtEnd
      <4>2. CASE Len(q'[f]) # 0
        <5>1. Len(q'[f]) \in 1..Len(q'[f]) /\ Len(q'[f]) + T = Len(q[f]) /\ Len(q[f]) > 0
          BY <3>3, <3>5, <4>2
        <5>2. q'[f][Len(q'[f])] = q[f][Len(q[f])] /\ Len(q'[f]) > 0
          BY <3>5, <5>1
        <5> QED BY <5>1, <5>2 DEF CompleteAtEnd
      <4> QED BY <4>1, <4>2
    <3>9. sent'[f] + (IF CompleteAtEnd(f)' THEN 1 ELSE 0) = processed'[f] + Len(q'[f])
      <4>1. sent[f] + (IF CompleteAtEnd(f) THEN 1 ELSE 0) = processed[f] + Len(q[f])
        BY <2>1, <2>4 DEF InPlace
      <4> QED BY <1>6, <1>10, <3>2, <3>3, <3>4, <3>5, <3>8, <4>1
    <3>10. \E b \in Nat, l \in Nat : b = processed'[f] * Inc(f) /\ EdgeChain(f, b, l)'
      BY <3>6, <3>7
    <3> QED BY <2>4, <3>9, <3>10 DEF InPlace, Inc
  <2> QED BY <2>3, <2>4
<1>13. LastInv(size)'
  <2>1. ASSUME NEW e \in Edges, NEW i \in 1..Len(q'[e]), q'[e][i].type = "complete"
        PROVE  LastStamp(size, e, q'[e][i].stamp)
    <3>1. CASE e # f
      BY <1>1, <1>7, <2>1, <3>1 DEF LastInv
    <3>2. CASE e = f
      <4>1. i + Taken(f) \in 1..Len(q[f]) /\ q'[f][i] = q[f][i + Taken(f)]
        BY <1>3, <2>1, <3>2 DEF Grabbed
      <4> QED BY <1>1, <2>1, <3>2, <4>1 DEF LastInv
    <3> QED BY <3>1, <3>2
  <2>2. \A e \in Edges : \A c \in PushTo(e)' : c.datum.type = "complete" => LastStamp(size, e, c.datum.stamp)
    BY <1>1, <1>4 DEF LastInv
  <2> QED BY <2>1, <2>2 DEF LastInv, LastStamp, Freq, Inc
<1>14. LeftInv'
  <2> SUFFICES ASSUME NEW r \in Procs, verdict'[r] = "complete"
               PROVE  \E e \in RequiredInputs(r) : UsedUp(e)'
    BY DEF LeftInv, RequiredInputs
  <2>1. PICK e \in RequiredInputs(r) : UsedUp(e)
    BY <1>1, <1>6 DEF LeftInv
  <2>2. e \in Edges /\ Down(e) = r /\ Up(e) \in Procs
    BY RequiredEdges, EdgeEnds
  <2>3. Ended(Up(e))' /\ PushTo(e)' = {}
    BY <1>4, <2>1, <2>2, EndedStays DEF UsedUp
  <2>4. processed'[e] = processed[e]
    BY <1>5, <1>6, <1>7, <2>2
  <2> QED BY <1>6, <2>1, <2>3, <2>4 DEF UsedUp
<1> QED
  BY <1>11, <1>12, <1>13, <1>14 DEF CountInv

LEMMA CountPush ==
  ASSUME NEW size, SourceKinds = {}, BaseInv, CompleteInv, KindsInv, CountInv(size), [AnyNext]_vars,
         NEW p \in Procs, Push(p)
  PROVE  CountInv(size)'
<1>1. TallyInv /\ PlaceInv /\ LastInv(size) /\ LeftInv /\ TypeOK /\ QueueTypes
  BY TypedQueues DEF CountInv, BaseInv
<1>2. CallMade(p) /\ \E f \in OutputSet(p) : \E d \in Data : Pushed(p, f, d)
  BY Pushing
<1>3. PICK f \in OutputSet(p), d \in Data : Pushed(p, f, d)
  BY <1>2
<1>4. PICK h : h = Head(todo[p])
  OBVIOUS
<1>5. /\ \A e \in Edges : e # f => PushTo(e)' = PushTo(e)
      /\ h \in PushTo(f) /\ PushTo(f) = {h} \cup PushTo(f)' /\ h.datum = d
      /\ \A c \in PushTo(f)' : d.stamp < c.datum.stamp
      /\ \A e : Reads(todo'[p], e) <=> Reads(todo[p], e)
  <2>1. /\ \A e \in Edges : e # f => PushTo(e)' = PushTo(e)
        /\ h \in PushTo(f) /\ PushTo(f) = {h} \cup PushTo(f)'
        /\ \A c \in PushTo(f)' : d.stamp < c.datum.stamp
        /\ \A e : Reads(todo'[p], e) <=> Reads(todo[p], e)
    BY <1>2, <1>3, <1>4, CallsLeft
  <2>2. h.datum = d
    BY <1>3, <1>4 DEF Pushed
  <2> QED BY <2>1, <2>2
<1>6. /\ \A e \in Edges : e # f => sent'[e] = sent[e]
      /\ ~closed[f] => sent'[f] = IF d.type = "data" THEN sent[f] + 1 ELSE sent[f]
  BY <1>3, PushCounts
<1>7. /\ stamp' = stamp /\ closed' = closed /\ verdict' = verdict /\ processed' = processed
      /\ \A r \in Procs : r # p => todo'[r] = todo[r]
  BY <1>2, <1>3 DEF CallMade, Pushed
<1>8. /\ f \in Edges /\ \A e \in Edges : e # f => q'[e] = q[e]
      /\ closed[f] => q'[f] = q[f]
      /\ ~closed[f] => /\ Len(q'[f]) = Len(q[f]) + 1 /\ q'[f][Len(q[f]) + 1] = d
                       /\ \A i \in 1..Len(q[f]) : q'[f][i] = q[f][i]
      /\ Len(q[f]) \in Nat
  BY <1>1, <1>3, LenProperties DEF Pushed, QueueTypes
<1>9. d.type \in {"data", "complete"}
  BY <1>5, <1>8 DEF KindsInv, Kinds
<1>10. TallyInv'
  <2> SUFFICES ASSUME NEW r \in Procs
               PROVE  verdict'[r] \in {"none", "complete"} /\ \E n \in Nat : Tally(r, n)'
    BY DEF TallyInv
  <2>1. PICK n \in Nat : Tally(r, n)
    BY <1>1 DEF TallyInv
  <2>2. Ended(r) => Ended(r)'
    BY EndedStays
  <2>3. \A e : Reads(todo'[r], e) <=> Reads(todo[r], e)
    BY <1>5, <1>7
  <2>4. \A e \in RequiredInputs(r) : Due(e)' = Due(e)
    BY <1>7, <2>3, RequiredEdges, DueLater DEF Due
  <2>5. Tally(r, n)'
    BY <1>7, <2>1, <2>2, <2>4 DEF Tally, RequiredInputs, Increment
  <2> QED BY <1>1, <1>7, <2>5 DEF TallyInv
<1>11. PlaceInv'
  <2> SUFFICES ASSUME NEW e \in Edges \cap Required, ~closed'[e], verdict'[Down(e)] # "complete"
               PROVE  InPlace(e)'
    BY DEF PlaceInv
  <2>1. InPlace(e) /\ ~closed[e]
    BY <1>1, <1>7 DEF PlaceInv
  <2>2. PICK a \in Nat, k \in Nat : a = processed[e] * Inc(e) /\ EdgeChain(e, a, k)
    BY <2>1 DEF InPlace
  <2>3. a = processed'[e] * Inc(e)
    BY <1>7, <2>2
  <2>4. CASE e # f
    <3>1. EdgeChain(e, a, k)'
      BY <1>5, <1>7, <1>8, <2>2, <2>4, ChainSame
    <3>2. CompleteAtEnd(e)' <=> CompleteAtEnd(e)
      BY <1>8, <2>4 DEF CompleteAtEnd
    <3>3. sent'[e] + (IF CompleteAtEnd(e)' THEN 1 ELSE 0) = processed'[e] + Len(q'[e])
      BY <1>6, <1>7, <1>8, <2>1, <2>4, <3>2 DEF InPlace
    <3> QED BY <2>3, <3>1, <3>3 DEF InPlace, Inc
  <2>5. CASE e = f
    <3>1. k - 1 \in Nat /\ EdgeChain(f, a, k - 1)'
      BY <1>1, <1>5, <1>7, <1>8, <2>1, <2>2, <2>5, ChainPush
    <3>2. ~CompleteAtEnd(f)
      <4>1. ASSUME CompleteAtEnd(f) PROVE FALSE
        <5>1. Len(q[f]) \in 1..Len(q[f]) /\ q[f][Len(q[f])].type = "complete"
          BY <1>8, <4>1 DEF CompleteAtEnd
        <5>2. PushTo(f) = {}
          BY <1>8, <5>1 DEF CompleteInv
        <5> QED BY <1>5, <5>2
      <4> QED BY <4>1
    <3>3. CompleteAtEnd(f)' <=> d.type = "complete"
      BY <1>8, <2>1, <2>5 DEF CompleteAtEnd
    <3>4. sent[f] \in Nat /\ processed[f] \in Nat /\ sent[f] = processed[f] + Len(q[f])
      BY <1>1, <1>8, <2>1, <2>5, <3>2 DEF InPlace, TypeOK
    <3>5. sent'[f] + (IF CompleteAtEnd(f)' THEN 1 ELSE 0) = processed'[f] + Len(q'[f])
      BY <1>6, <1>7, <1>8, <1>9, <2>1, <2>5, <3>3, <3>4
    <3> QED BY <2>3, <2>5, <3>1, <3>5 DEF InPlace, Inc
  <2> QED BY <2>4, <2>5
<1>12. LastInv(size)'
  <2>1. ASSUME NEW e \in Edges, NEW i \in 1..Len(q'[e]), q'[e][i].type = "complete"
        PROVE  LastStamp(size, e, q'[e][i].stamp)
    <3>1. CASE e # f \/ closed[e]
      BY <1>1, <1>8, <2>1, <3>1 DEF LastInv
    <3>2. CASE e = f /\ ~closed[e] /\ i \in 1..Len(q[e])
      BY <1>1, <1>8, <2>1, <3>2 DEF LastInv
    <3>3. CASE e = f /\ ~closed[e] /\ i = Len(q[e]) + 1
      BY <1>1, <1>5, <1>8, <2>1, <3>3 DEF LastInv
    <3> QED BY <1>8, <2>1, <3>1, <3>2, <3>3
  <2>2. \A e \in Edges : \A c \in PushTo(e)' : c.datum.type = "complete" => LastStamp(size, e, c.datum.stamp)
    BY <1>1, <1>5 DEF LastInv
  <2> QED BY <2>1, <2>2 DEF LastInv, LastStamp, Freq, Inc
<1>13. LeftInv'
  <2> SUFFICES ASSUME NEW r \in Procs, verdict'[r] = "complete"
               PROVE  \E e \in RequiredInputs(r) : UsedUp(e)'
    BY DEF LeftInv, RequiredInputs
  <2>1. PICK e \in RequiredInputs(r) : UsedUp(e)
    BY <1>1, <1>7 DEF LeftInv
  <2>2. e \in Edges /\ Up(e) \in Procs /\ e # f
    BY <1>5, <2>1, RequiredEdges, EdgeEnds DEF UsedUp
  <2>3. Ended(Up(e))' /\ PushTo(e)' = {}
    BY <1>5, <2>1, <2>2, EndedStays DEF UsedUp
  <2>4. sent'[e] = sent[e]
    BY <1>6, <2>2
  <2> QED BY <1>7, <2>1, <2>3, <2>4 DEF UsedUp
<1> QED
  BY <1>10, <1>11, <1>12, <1>13 DEF CountInv

LEMMA CountNext ==
  ASSUME NEW size, Whole(size), SourceKinds = {}, BaseInv, CompleteInv, SyncInv, CountInv(size), [AnyNext]_vars
  PROVE  CountInv(size)'
<1>1. /\ TypeOK /\ ClosedInv /\ ChainInv /\ KindsInv /\ FitInv /\ TallyInv /\ PlaceInv /\ LastInv(size) /\ LeftInv
      /\ \A r \in Procs : pc[r] = "top" => todo[r] = <<>> /\ verdict[r] # "complete"
  BY DEF BaseInv, CallsInv, SyncInv, CountInv
<1>2. ASSUME NEW p \in Procs, Stops(p), NEW e \in Edges
      PROVE  (closed'[e] \/ (q'[e] = q[e] /\ ~closed[e])) /\ (q'[e] = q[e] \/ q'[e] = <<>>)
  BY <1>1, <1>2, Stopping
<1>4. CASE UNCHANGED <<todo, stamp, processed, sent, closed, q, verdict>>
  BY <1>4, CountKept
<1>5. ASSUME NEW p \in Procs, NEW t, NEW v, Starts(p, t, v),
             <<t, v>> \in {<<"data", "none">>, <<"complete", "complete">>}
      PROVE  CountInv(size)'
  <2>1. /\ pc[p] = "top" /\ ~is_complete[p] /\ \A e \in RequiredInputs(p) : Available(e)
        /\ check_required_input(p) = v /\ t \in Types
        /\ verdict' = [verdict EXCEPT ![p] = v]
        /\ todo' = [todo EXCEPT ![p] = Grabs(p) \o Pushes(p, t)]
        /\ stamp' = StampsAfter(p, t)
        /\ UNCHANGED <<q, closed, is_complete, sent, processed>>
    BY <1>5 DEF Starts, Begin
  <2>2. PICK n \in Nat : Tally(p, n)
    BY <1>1 DEF TallyInv
  <2>3. ~Ended(p)
    BY <2>1 DEF Ended
  <2>4. v = "complete" => /\ \E m \in Nat : n = m * size[p]
                          /\ \E e \in RequiredInputs(p) : UsedUp(e)
    BY <1>1, <2>1, <2>2, EndingStep
  <2>5. \A r \in Procs : r # p => verdict'[r] = verdict[r]
    BY <1>1, <2>1 DEF TypeOK
  <2>6. verdict'[p] = v
    BY <1>1, <2>1 DEF TypeOK
  <2>7. TallyInv'
    BY <1>1, <1>5, TallyDecided
  <2>8. \A e \in Edges : closed'[e] \/ (q'[e] = q[e] /\ ~closed[e])
    BY <2>1
  <2>9. PlaceInv'
    <3>1. \A r \in Procs : verdict[r] = "complete" => verdict'[r] = "complete"
      BY <1>1, <2>1, <2>5
    <3> QED BY <1>1, <2>1, <2>8, <3>1, PlaceDecided
  <2>10. LastInv(size)'
    <3>1. t = "complete" => \E m \in Nat : n = m * size[p]
      BY <1>5, <2>4
    <3> QED BY <1>1, <2>1, <2>2, <2>3, <3>1, LastDecided
  <2>11. LeftInv'
    <3>1. \A r \in Procs : verdict'[r] = "complete" =>
            verdict[r] = "complete" \/ \E e \in RequiredInputs(r) : UsedUp(e)
      BY <2>4, <2>5, <2>6
    <3> QED BY <1>1, <2>1, <2>3, <3>1, LeftDecided
  <2> QED BY <2>7, <2>9, <2>10, <2>11 DEF CountInv
<1>6. ASSUME NEW p \in Procs, StepAndStop(p) PROVE CountInv(size)'
  <2>1. /\ pc[p] = "top" /\ ~is_complete[p] /\ Stops(p) /\ (p \in MayStop \/ Inputs[p] = <<>>)
        /\ verdict' = [verdict EXCEPT ![p] = "none"]
        /\ todo' = [todo EXCEPT ![p] = Pushes(p, "complete")]
        /\ stamp' = StampsAfter(p, "complete")
        /\ UNCHANGED <<steps, sent, processed, wasted>>
    BY <1>6 DEF StepAndStop, Begin, Stops
  <2>2. PICK n \in Nat : Tally(p, n)
    BY <1>1 DEF TallyInv
  <2>3. ~Ended(p) /\ Ended(p)' /\ "complete" \in Types /\ Stamps /\ todo[p] = <<>>
    BY <1>1, <2>1, Stopping, TypedQueues DEF Ended, Types
  <2>4. /\ \A r \in Procs : r # p => verdict'[r] = verdict[r] /\ todo'[r] = todo[r]
        /\ verdict'[p] = "none" /\ todo'[p] = Pushes(p, "complete")
    BY <1>1, <2>1 DEF TypeOK
  <2>5. \A e : ~Reads(todo'[p], e) /\ ~Reads(todo[p], e)
    BY <2>3, <2>4, StartedPushes, NoCalls
  <2>6. TallyInv'
    <3> SUFFICES ASSUME NEW r \in Procs
                 PROVE  verdict'[r] \in {"none", "complete"} /\ \E l \in Nat : Tally(r, l)'
      BY DEF TallyInv
    <3>1. PICK l \in Nat : Tally(r, l)
      BY <1>1 DEF TallyInv
    <3>2. \A e \in RequiredInputs(r) : Due(e)' = Due(e)
      <4> TAKE e \in RequiredInputs(r)
      <4>1. Down(e) = r
        BY RequiredEdges
      <4> QED BY <2>1, <2>4, <2>5, <4>1, DueLater DEF Due
    <3>3. Ended(r)' \/ (~Ended(r) /\ stamp'[r] = stamp[r])
      BY <2>1, <2>3, EndedStays, StampsAdvance
    <3>4. Tally(r, l)'
      BY <3>1, <3>2, <3>3 DEF Tally, RequiredInputs, Increment
    <3> QED BY <1>1, <2>4, <3>4 DEF TallyInv
  <2>7. PlaceInv'
    <3>1. \A r \in Procs : verdict[r] = "complete" => verdict'[r] = "complete"
      BY <1>1, <2>1, <2>4
    <3> QED BY <1>1, <1>2, <2>1, <2>3, <3>1, PlaceDecided
  <2>8. LastInv(size)'
    <3>1. n = n * size[p]
      BY <2>1 DEF Whole
    <3> QED BY <1>1, <1>2, <2>1, <2>2, <2>3, <3>1, LastDecided
  <2>9. LeftInv'
    <3>1. \A r \in Procs : verdict'[r] = "complete" => verdict[r] = "complete"
      BY <2>4
    <3> QED BY <1>1, <2>1, <2>3, <3>1, LeftDecided
  <2> QED BY <2>6, <2>7, <2>8, <2>9 DEF CountInv
<1>7. ASSUME NEW p \in Procs, ProcNext(p) PROVE CountInv(size)'
  <2>1. CASE Propagate(p)
    BY <1>1, <1>5, <2>1, PlainStart
  <2>2. CASE Step(p)
    BY <1>1, <1>5, <2>2, PlainStart
  <2>3. CASE StepAndStop(p)
    BY <1>6, <2>3
  <2>4. CASE StepAfterCompletion(p)
    <3>1. /\ UNCHANGED <<todo, stamp, processed, sent, closed, q>>
          /\ pc[p] = "top" /\ verdict' = [verdict EXCEPT ![p] = "none"]
      BY <2>4 DEF StepAfterCompletion, Begin
    <3>2. \A r \in Procs : \/ verdict'[r] = verdict[r]
                           \/ todo[r] = <<>> /\ verdict[r] # "complete" /\ verdict'[r] = "none"
      BY <1>1, <3>1 DEF TypeOK
    <3> QED BY <3>1, <3>2, CountKept
  <2>5. CASE Grab(p)
    BY <1>1, <2>5, CountGrab
  <2>6. CASE Push(p)
    BY <1>1, <2>6, CountPush
  <2>7. CASE EndStep(p)
    <3>1. UNCHANGED <<todo, verdict, stamp, sent, processed>>
      BY <2>7 DEF EndStep
    <3>2. CASE verdict[p] = "complete" \/ required_outputs_done(p)
      <4>1. Stops(p)
        BY <2>7, <3>2 DEF EndStep, Stops
      <4> QED BY <1>2, <3>1, <4>1, CountKept
    <3>3. CASE ~(verdict[p] = "complete" \/ required_outputs_done(p))
      BY <1>4, <2>7, <3>1, <3>3 DEF EndStep
    <3> QED BY <3>2, <3>3
  <2> QED BY <1>7, <2>1, <2>2, <2>3, <2>4, <2>5, <2>6, <2>7 DEF ProcNext
<1>8. ASSUME NEW p \in Procs, Interruption(p) PROVE CountInv(size)'
  BY <1>4, <1>8 DEF Interruption
<1>9. CASE UNCHANGED vars
  BY <1>4, <1>9 DEF vars
<1> QED
  BY <1>7, <1>8, <1>9 DEF AnyNext

LEMMA CountInit ==
  ASSUME NEW size, NEW P, InitOf(P) PROVE CountInv(size)
<1>1. /\ \A p \in Procs : todo[p] = <<>> /\ verdict[p] = "none"
      /\ \A p \in Procs : \A i \in DOMAIN Outputs[p] : stamp[p][i] = 0
      /\ \A e \in Edges : q[e] = <<>> /\ sent[e] = 0 /\ processed[e] = 0
  BY DEF InitOf
<1>2. \A e \in Edges : /\ Up(e) \in Procs /\ PortOf(e) \in DOMAIN Outputs[Up(e)]
                       /\ PushTo(e) = {} /\ Len(q[e]) = 0 /\ Inc(e) \in Nat
  BY <1>1, EdgeEnds, PortOfEdge, IncOfEdge, NoCalls DEF PushTo
<1>3. TallyInv
  <2> SUFFICES ASSUME NEW p \in Procs PROVE Tally(p, 0)
    BY <1>1 DEF TallyInv
  <2>1. \A i \in DOMAIN Outputs[p] : stamp[p][i] = (0 * Outputs[p][i].freq) * Increment(p, i)
    <3> TAKE i \in DOMAIN Outputs[p]
    <3>1. PICK f \in Nat, d \in Nat : f = Outputs[p][i].freq /\ d = Increment(p, i)
      BY OutputPorts, IncrementNat
    <3>2. (0 * f) * d = 0
      OBVIOUS
    <3> QED BY <1>1, <3>1, <3>2
  <2>2. \A e \in RequiredInputs(p) : Due(e) = 0 * InFreq[e]
    <3> TAKE e \in RequiredInputs(p)
    <3>1. e \in Edges /\ Down(e) = p /\ InFreq[e] \in Nat
      BY RequiredEdges, DataflowAssumption
    <3>2. ~Reads(todo[p], e)
      BY <1>1, NoCalls
    <3> QED BY <1>1, <3>1, <3>2 DEF Due
  <2> QED BY <2>1, <2>2 DEF Tally
<1>4. ASSUME NEW e \in Edges PROVE InPlace(e)
  <2>1. PICK d \in Nat : d = Inc(e)
    BY <1>2
  <2>2. 0 + (0 + 0) * d = 0 /\ 0..(0 - 1) = {} /\ 1..0 = {} /\ 0 * d = 0
    BY SMT
  <2>3. stamp[Up(e)][PortOf(e)] = 0
    BY <1>1, <1>2
  <2>4. EdgeChain(e, 0, 0)
    <3>1. {c.datum.stamp : c \in PushTo(e)} = {}
      BY <1>2
    <3>2. {0 + (Len(q[e]) + l) * Inc(e) : l \in 0..(0 - 1)} = {}
      BY <2>2
    <3> QED BY <1>2, <2>1, <2>2, <2>3, <3>1, <3>2 DEF EdgeChain
  <2>5. ~CompleteAtEnd(e)
    BY <1>2 DEF CompleteAtEnd
  <2>6. processed[e] * Inc(e) = 0
    BY <1>1, <2>1, <2>2
  <2> QED BY <1>1, <1>2, <2>4, <2>5, <2>6 DEF InPlace
<1>5. PlaceInv
  BY <1>4 DEF PlaceInv
<1>6. LastInv(size)
  BY <1>2 DEF LastInv
<1>7. LeftInv
  BY <1>1 DEF LeftInv
<1> QED
  BY <1>3, <1>5, <1>6, <1>7 DEF CountInv

LEMMA CountImplies ==
  ASSUME NEW size, BaseInv, CountInv(size) PROVE NothingLeftBehind
<1>1. TallyInv /\ LeftInv /\ TypeOK
  BY DEF BaseInv, CountInv
<1>2. ASSUME NEW p \in Procs, verdict[p] = "complete"
      PROVE  /\ \E e \in RequiredInputs(p) : processed[e] = sent[e]
             /\ \A e, f \in RequiredInputs(p) : processed[e] * InFreq[f] = processed[f] * InFreq[e]
  <2>1. PICK n \in Nat : Tally(p, n)
    BY <1>1 DEF TallyInv
  <2>2. ASSUME NEW e \in RequiredInputs(p)
        PROVE  processed[e] = n * InFreq[e] /\ InFreq[e] \in Nat
    <3>1. e \in Edges /\ Down(e) = p
      BY RequiredEdges
    <3>2. processed[e] \in Nat /\ InFreq[e] \in Nat
      BY <1>1, <3>1, DataflowAssumption DEF TypeOK
    <3>3. Due(e) = processed[e]
      BY <1>2, <3>1, <3>2 DEF Due
    <3> QED BY <2>1, <3>2, <3>3 DEF Tally
  <2>3. ASSUME NEW e \in RequiredInputs(p), NEW f \in RequiredInputs(p)
        PROVE  processed[e] * InFreq[f] = processed[f] * InFreq[e]
    <3>1. PICK a \in Nat, b \in Nat : a = InFreq[e] /\ b = InFreq[f]
      BY <2>2
    <3>2. (n * a) * b = (n * b) * a
      BY SMT
    <3> QED BY <2>2, <3>1, <3>2
  <2> QED BY <1>1, <1>2, <2>3 DEF LeftInv, UsedUp
<1> QED
  BY <1>2 DEF NothingLeftBehind

(* A process that ends because its inputs do has been handed everything    *)
(* that was sent on the input that ended, and as many steps' data from the *)
(* others: when the inputs that meet are read equally often, the sources   *)
(* push nothing but data, and no source stops in the middle of what its    *)
(* readers take at a time.                                                 *)
THEOREM AllIsProcessed ==
  Aligned /\ SourceKinds = {} /\ (\E size : Whole(size)) =>
    /\ Spec => []NothingLeftBehind
    /\ SyncSpec => []NothingLeftBehind
<1> SUFFICES ASSUME Aligned, SourceKinds = {}, NEW size, Whole(size)
             PROVE  (Spec => []NothingLeftBehind) /\ (SyncSpec => []NothingLeftBehind)
  OBVIOUS
<1> DEFINE Inv == BaseInv /\ CompleteInv /\ SyncInv /\ CountInv(size)
<1>1. Begins => Inv
  BY BaseInit, CompleteInit, SyncInvInit, CountInit DEF Begins
<1>2. Inv /\ [AnyNext]_vars => Inv'
  BY BaseNext, CompleteNext, SyncInvNext, CountNext
<1>3. Inv => NothingLeftBehind
  BY CountImplies
<1> HIDE DEF Inv
<1> QED
  BY <1>1, <1>2, <1>3, SpecSteps, SyncSteps, PTL

-----------------------------------------------------------------------------
(* The one thread of sync_scheduler.                                       *)

Stands(s, p)      == \E i \in 1..Len(s) : s[i] = p
Precedes(s, p, r) == \E i, j \in 1..Len(s) : i < j /\ s[i] = p /\ s[j] = r
Distinct(s)       == \A i, j \in 1..Len(s) : s[i] = s[j] => i = j

LEMMA HeadFirst ==
  ASSUME NEW S, NEW s \in Seq(S), s # <<>>, Distinct(s)
  PROVE  /\ Head(s) \in S /\ Stands(s, Head(s))
         /\ \A r : ~Precedes(s, r, Head(s))
         /\ \A r : r # Head(s) /\ Stands(s, r) => Precedes(s, Head(s), r)
<1>1. Len(s) \in Nat /\ Len(s) > 0 /\ Head(s) = s[1] /\ Head(s) \in S /\ 1 \in 1..Len(s)
  OBVIOUS
<1>2. ASSUME NEW r, Precedes(s, r, Head(s)) PROVE FALSE
  BY <1>1, <1>2 DEF Precedes, Distinct
<1>3. ASSUME NEW r, r # Head(s), Stands(s, r) PROVE Precedes(s, Head(s), r)
  <2>1. PICK i \in 1..Len(s) : s[i] = r
    BY <1>3 DEF Stands
  <2>2. 1 < i
    BY <1>1, <1>3, <2>1
  <2> QED BY <1>1, <2>1, <2>2 DEF Precedes
<1> QED
  BY <1>1, <1>2, <1>3 DEF Stands

(* The head leaves the queue.                                              *)
LEMMA HeadLeaves ==
  ASSUME NEW S, NEW s \in Seq(S), s # <<>>, Distinct(s)
  PROVE  LET p == Head(s)
             t == Tail(s)
         IN  /\ t \in Seq(S) /\ Distinct(t) /\ ~Stands(t, p)
             /\ \A r : r # p => (Stands(t, r) <=> Stands(s, r))
             /\ \A r, u : r # p /\ u # p => (Precedes(t, r, u) <=> Precedes(s, r, u))
<1> DEFINE p == Head(s)
           t == Tail(s)
           n == Len(s)
<1>1. n \in Nat \ {0} /\ p = s[1] /\ t \in Seq(S) /\ Len(t) = n - 1
  OBVIOUS
<1>2. \A i \in 1..(n - 1) : t[i] = s[i + 1] /\ i + 1 \in 1..n
  BY <1>1
<1>3. \A i \in 2..n : t[i - 1] = s[i] /\ i - 1 \in 1..(n - 1)
  BY <1>1
<1> HIDE DEF t, n, p
<1>4. Distinct(t)
  BY <1>1, <1>2 DEF Distinct, n
<1>5. ~Stands(t, p)
  BY <1>1, <1>2 DEF Stands, Distinct, n
<1>6. ASSUME NEW r, r # p PROVE Stands(t, r) <=> Stands(s, r)
  <2>1. ASSUME NEW i \in 1..n, s[i] = r PROVE i \in 2..n
    BY <1>1, <1>6, <2>1
  <2>2. Stands(s, r) => Stands(t, r)
    BY <1>1, <1>3, <2>1 DEF Stands, n
  <2>3. Stands(t, r) => Stands(s, r)
    BY <1>1, <1>2 DEF Stands, n
  <2> QED BY <2>2, <2>3
<1>7. ASSUME NEW r, NEW u, r # p, u # p PROVE Precedes(t, r, u) <=> Precedes(s, r, u)
  <2>1. ASSUME Precedes(t, r, u) PROVE Precedes(s, r, u)
    <3>1. PICK i, j \in 1..(n - 1) : i < j /\ t[i] = r /\ t[j] = u
      BY <1>1, <2>1 DEF Precedes
    <3>2. i + 1 \in 1..n /\ j + 1 \in 1..n /\ i + 1 < j + 1 /\ s[i + 1] = r /\ s[j + 1] = u
      BY <1>2, <3>1
    <3> QED BY <3>2 DEF Precedes, n
  <2>2. ASSUME Precedes(s, r, u) PROVE Precedes(t, r, u)
    <3>1. PICK i, j \in 1..n : i < j /\ s[i] = r /\ s[j] = u
      BY <2>2 DEF Precedes, n
    <3>2. i \in 2..n /\ j \in 2..n
      BY <1>1, <1>7, <3>1
    <3>3. i - 1 \in 1..(n - 1) /\ j - 1 \in 1..(n - 1) /\ i - 1 < j - 1 /\ t[i - 1] = r /\ t[j - 1] = u
      BY <1>3, <3>1, <3>2
    <3> QED BY <1>1, <3>3 DEF Precedes
  <2> QED BY <2>1, <2>2
<1> QED
  BY <1>1, <1>4, <1>5, <1>6, <1>7 DEF p, t

(* What joins the queue stands behind all others.                          *)
LEMMA JoinsBehind ==
  ASSUME NEW S, NEW t \in Seq(S), Distinct(t), NEW p \in S, ~Stands(t, p)
  PROVE  LET w == Append(t, p)
         IN  /\ w \in Seq(S) /\ Distinct(w) /\ w # <<>> /\ Stands(w, p)
             /\ \A r : r # p => (Stands(w, r) <=> Stands(t, r)) /\ (Stands(t, r) => Precedes(w, r, p))
             /\ \A r : ~Precedes(w, p, r)
             /\ \A r, u : r # p /\ u # p => (Precedes(w, r, u) <=> Precedes(t, r, u))
<1> DEFINE w == Append(t, p)
           n == Len(t)
<1>1. n \in Nat /\ w \in Seq(S) /\ Len(w) = n + 1 /\ w[n + 1] = p /\ w # <<>>
  OBVIOUS
<1>2. \A i \in 1..n : w[i] = t[i] /\ w[i] # p /\ i \in 1..(n + 1)
  BY <1>1 DEF Stands
<1> HIDE DEF w, n
<1>3. \A i \in 1..(n + 1) : i \in 1..n \/ i = n + 1
  BY <1>1
<1>4. Distinct(w)
  BY <1>1, <1>2, <1>3 DEF Distinct, n
<1>5. Stands(w, p) /\ n + 1 \in 1..(n + 1)
  BY <1>1 DEF Stands
<1>6. ASSUME NEW r, r # p
      PROVE  (Stands(w, r) <=> Stands(t, r)) /\ (Stands(t, r) => Precedes(w, r, p))
  <2>1. Stands(w, r) => Stands(t, r)
    BY <1>1, <1>2, <1>3, <1>6 DEF Stands, n
  <2>2. ASSUME Stands(t, r) PROVE Stands(w, r) /\ Precedes(w, r, p)
    <3>1. PICK i \in 1..n : t[i] = r
      BY <2>2 DEF Stands, n
    <3>2. w[i] = r /\ i \in 1..Len(w) /\ n + 1 \in 1..Len(w) /\ i < n + 1
      BY <1>1, <1>2, <3>1
    <3> QED BY <1>1, <3>2 DEF Stands, Precedes
  <2> QED BY <2>1, <2>2
<1>7. ASSUME NEW r, Precedes(w, p, r) PROVE FALSE
  <2>1. PICK i, j \in 1..(n + 1) : i < j /\ w[i] = p /\ w[j] = r
    BY <1>1, <1>7 DEF Precedes
  <2>2. i \in 1..n
    BY <1>1, <2>1
  <2> QED BY <1>2, <2>1, <2>2
<1>8. ASSUME NEW r, NEW u, r # p, u # p PROVE Precedes(w, r, u) <=> Precedes(t, r, u)
  <2>1. ASSUME Precedes(w, r, u) PROVE Precedes(t, r, u)
    <3>1. PICK i, j \in 1..(n + 1) : i < j /\ w[i] = r /\ w[j] = u
      BY <1>1, <2>1 DEF Precedes
    <3>2. i \in 1..n /\ j \in 1..n
      BY <1>1, <1>3, <1>8, <3>1
    <3> QED BY <1>2, <3>1, <3>2 DEF Precedes, n
  <2>2. ASSUME Precedes(t, r, u) PROVE Precedes(w, r, u)
    <3>1. PICK i, j \in 1..n : i < j /\ t[i] = r /\ t[j] = u
      BY <2>2 DEF Precedes, n
    <3> QED BY <1>1, <1>2, <3>1 DEF Precedes
  <2> QED BY <2>1, <2>2
<1> QED
  BY <1>1, <1>4, <1>5, <1>6, <1>7, <1>8 DEF w

(* The queue holds the processes that go on, and only its head is inside a *)
(* step.                                                                   *)
LineInv ==
  /\ processes \in Seq(Procs) /\ Distinct(processes)
  /\ \A p \in Procs : Stands(processes, p) <=> pc[p] # "exited"
  /\ \A p \in Procs : pc[p] = "busy" => p = Head(processes)

(* The edge holds a part of what one step pushes there; the rest comes.    *)
Filling(e) ==
  \E t \in Types : \E a, k \in Nat :
    /\ EdgeChain(e, a, k) /\ Len(q[e]) + k = Times(Up(e), PortOf(e), t)
    /\ \A i \in 1..Len(q[e]) : q[e][i].type = t
    /\ \A c \in PushTo(e) : c.datum.type = t

(* While the sender is next, the edge is empty; from its turn to that of   *)
(* the reader it holds what one step pushes and one step reads.            *)
Turns(e) ==
  /\ Up(e) # Down(e) /\ Freq(e) = InFreq[e]
  /\ IF Precedes(processes, Up(e), Down(e))
     THEN IF pc[Up(e)] = "busy" THEN Filling(e) ELSE q[e] = <<>>
     ELSE IF pc[Down(e)] = "busy" /\ ~Reads(todo[Down(e)], e) THEN q[e] = <<>> ELSE Filling(e)

TurnInv == type = "sync" => LineInv /\ \A e \in Edges : closed[e] \/ Turns(e)

(* A step leaves the other processes where they are.                       *)
LEMMA OthersKeep ==
  ASSUME TypeOK, NEW p \in Procs, ProcNext(p)
  PROVE  \A r \in Procs : r # p =>
           /\ pc'[r] = pc[r] /\ todo'[r] = todo[r] /\ verdict'[r] = verdict[r]
           /\ stamp'[r] = stamp[r] /\ is_complete'[r] = is_complete[r]
<1>1. /\ DOMAIN pc = Procs /\ DOMAIN todo = Procs /\ DOMAIN verdict = Procs
      /\ DOMAIN stamp = Procs /\ DOMAIN is_complete = Procs
  BY DEF TypeOK
<1>2. CASE Propagate(p)
  BY <1>1, <1>2, Zenon DEF Propagate, Begin, StampsAfter
<1>3. CASE Step(p)
  BY <1>1, <1>3 DEF Step, Begin, StampsAfter
<1>4. CASE StepAndStop(p)
  BY <1>1, <1>4 DEF StepAndStop, Begin, StampsAfter
<1>5. CASE StepAfterCompletion(p)
  BY <1>1, <1>5 DEF StepAfterCompletion, Begin
<1>6. CASE Grab(p) \/ Push(p)
  BY <1>1, <1>6 DEF Grab, Push
<1>7. CASE EndStep(p)
  BY <1>1, <1>7 DEF EndStep
<1> QED
  BY <1>2, <1>3, <1>4, <1>5, <1>6, <1>7 DEF ProcNext

LEMMA LineInit ==
  ASSUME SyncInit, type = "sync" PROVE LineInv
<1>1. PICK P \in Pipelines : InitOf(P) /\ processes \in {order \in Orders(P) : Sorted(order)}
  BY DEF SyncInit
<1>2. P \subseteq Procs /\ IsFiniteSet(P) /\ Cardinality(P) \in Nat
  BY <1>1, PipelinesAssumption, FS_CardinalityType
<1> DEFINE n == Cardinality(P)
<1>3. processes \in [1..n -> P] /\ \A i, j \in 1..n : processes[i] = processes[j] => i = j
  BY <1>1 DEF Orders
<1>4. processes \in Seq(Procs) /\ Len(processes) = n /\ n \in Nat
  BY <1>2, <1>3
<1> HIDE DEF n
<1>5. \A p \in P : \E i \in 1..n : processes[i] = p
  <2>1. IsFiniteSet(1..n) /\ Cardinality(1..n) = n
    BY <1>4, FS_Interval
  <2>2. processes \in Injection(1..n, P)
    BY <1>3 DEF Injection, IsInjective
  <2>3. processes \in Surjection(1..n, P)
    BY <1>2, <2>1, <2>2, FS_Injection DEF n
  <2> QED BY <2>3 DEF Surjection
<1>6. \A p \in Procs : Stands(processes, p) <=> pc[p] # "exited"
  BY <1>1, <1>3, <1>4, <1>5 DEF Stands, InitOf
<1>7. \A p \in Procs : pc[p] # "busy"
  BY <1>1 DEF InitOf
<1> QED
  BY <1>3, <1>4, <1>6, <1>7 DEF LineInv, Distinct

LEMMA TurnInit ==
  ASSUME SyncInit, type = "sync" PROVE TurnInv
<1>1. PICK P \in Pipelines :
        InitOf(P) /\ EvenlyStepped(P) /\ processes \in {order \in Orders(P) : Sorted(order)}
  BY DEF SyncInit
<1>2. LineInv
  BY LineInit
<1>3. DOMAIN processes = 1..Len(processes)
  BY <1>2 DEF LineInv
<1>4. ASSUME NEW e \in Edges, ~closed[e] PROVE Turns(e)
  <2>1. Down(e) \in P /\ Up(e) \in P /\ Down(e) \in Procs /\ Up(e) \in Procs
    BY <1>1, <1>4, PipelinesAssumption, EdgeEnds DEF InitOf
  <2>2. pc[Up(e)] = "top" /\ pc[Down(e)] = "top" /\ q[e] = <<>>
    BY <1>1, <2>1 DEF InitOf
  <2>3. PICK i, j \in 1..Len(processes) : processes[i] = Up(e) /\ processes[j] = Down(e)
    BY <1>2, <2>1, <2>2 DEF LineInv, Stands
  <2>4. i < j
    BY <1>1, <1>3, <2>3 DEF Sorted
  <2>5. Up(e) # Down(e)
    <3>1. ASSUME Up(e) = Down(e) PROVE FALSE
      <4>1. j < i
        BY <1>1, <1>3, <2>3, <3>1 DEF Sorted
      <4> QED BY <2>4, <4>1
    <3> QED BY <3>1
  <2>6. Freq(e) = InFreq[e]
    <3>1. /\ PortOf(e) \in DOMAIN Outputs[Up(e)] /\ e \in PortEdges(Outputs[Up(e)][PortOf(e)])
          /\ Freq(e) \in Nat
      BY <2>1, EdgeEnds, PortOfEdge, OutputPorts DEF Freq
    <3>2. Core[Up(e)] * Freq(e) = Core[Down(e)] * InFreq[e] /\ Core[Up(e)] = Core[Down(e)]
      BY <1>1, <2>1, <3>1, DataflowAssumption DEF EvenlyStepped, Freq
    <3>3. PICK c \in Nat \ {0} : c = Core[Up(e)]
      BY <2>1, TopologyAssumption
    <3>4. PICK m \in Nat, n \in Nat : m = Freq(e) /\ n = InFreq[e]
      BY <3>1, DataflowAssumption
    <3>5. m * c = n * c
      BY <3>2, <3>3, <3>4
    <3> QED BY <3>3, <3>4, <3>5, CancelFactor
  <2>7. Precedes(processes, Up(e), Down(e))
    BY <2>3, <2>4 DEF Precedes
  <2> QED BY <2>2, <2>5, <2>6, <2>7 DEF Turns
<1> QED
  BY <1>2, <1>4 DEF TurnInv

(* With no push to come, the edge holds what its reader takes at once.     *)
LEMMA Filled ==
  ASSUME BaseInv, NEW e \in Edges, Filling(e), todo[Up(e)] = <<>>, Freq(e) = InFreq[e]
  PROVE  Available(e) /\ Taken(e) = Len(q[e])
<1>1. PushTo(e) = {}
  BY NoCalls DEF PushTo
<1>2. PICK t \in Types, a \in Nat, k \in Nat :
        /\ EdgeChain(e, a, k) /\ Len(q[e]) + k = Times(Up(e), PortOf(e), t)
        /\ \A i \in 1..Len(q[e]) : q[e][i].type = t
  BY DEF Filling
<1>3. k = 0
  <2>1. {a + (Len(q[e]) + l) * Inc(e) : l \in 0..(k - 1)} = {}
    BY <1>1, <1>2 DEF EdgeChain
  <2>2. 0 \notin 0..(k - 1)
    BY <2>1
  <2> QED BY <2>2
<1>4. q[e] \in Seq(Data) /\ Len(q[e]) \in Nat
  BY DEF BaseInv, TypeOK
<1>5. Len(q[e]) = IF Rank[t] >= Rank["flush"] THEN 1 ELSE InFreq[e]
  BY <1>2, <1>3, <1>4 DEF Times, Freq
<1>6. Len(q[e]) > 0
  BY <1>4, <1>5, IncOfEdge
<1>7. Head(q[e]).type = t /\ q[e] # <<>>
  BY <1>2, <1>4, <1>6
<1> QED
  BY <1>4, <1>5, <1>7 DEF Available, Taken

(* With a push to come, there is room for it.                              *)
LEMMA RoomLeft ==
  ASSUME BaseInv, NEW e \in Edges, Filling(e), PushTo(e) # {}, Freq(e) = InFreq[e]
  PROVE  Capacity[e] = 0 \/ Len(q[e]) < Capacity[e]
<1>1. PICK t \in Types, a \in Nat, k \in Nat :
        EdgeChain(e, a, k) /\ Len(q[e]) + k = Times(Up(e), PortOf(e), t)
  BY DEF Filling
<1>2. k # 0
  <2>1. PICK l \in 0..(k - 1) : TRUE
    BY <1>1 DEF EdgeChain
  <2> QED BY <2>1
<1>3. Len(q[e]) \in Nat
  BY DEF BaseInv, TypeOK
<1>4. Times(Up(e), PortOf(e), t) <= InFreq[e] /\ InFreq[e] \in Nat \ {0}
  BY IncOfEdge DEF Times, Freq
<1>5. Capacity[e] \in Nat /\ (Capacity[e] > 0 => InFreq[e] <= Capacity[e])
  BY DataflowAssumption
<1> QED
  BY <1>1, <1>2, <1>3, <1>4, <1>5

(* Where a process is that is not the head of the queue.                   *)
LEMMA WaitsItsTurn ==
  ASSUME BaseInv, ExitInv, LineInv, NEW r \in Procs, r # Head(processes)
  PROVE  /\ pc[r] # "busy" /\ todo[r] = <<>>
         /\ ~is_complete[r] => pc[r] = "top" /\ Stands(processes, r)
         /\ ~Stands(processes, r) => is_complete[r]
<1>1. pc[r] \in {"top", "busy", "exited"}
  BY DEF BaseInv, TypeOK
<1>2. pc[r] # "busy" /\ (Stands(processes, r) <=> pc[r] # "exited")
  BY DEF LineInv
<1>3. pc[r] = "top" => todo[r] = <<>>
  BY DEF BaseInv, CallsInv
<1>4. pc[r] = "exited" => is_complete[r] /\ todo[r] = <<>>
  BY DEF ExitInv
<1> QED
  BY <1>1, <1>2, <1>3, <1>4

(* An edge that the head reads.                                            *)
LEMMA HeadReads ==
  ASSUME BaseInv, ExitInv, LineInv, processes # <<>>, NEW e \in Edges, Down(e) = Head(processes),
         Turns(e)
  PROVE  /\ todo[Up(e)] = <<>> /\ PushTo(e) = {} /\ pc[Up(e)] # "busy"
         /\ IF pc[Down(e)] = "busy" /\ ~Reads(todo[Down(e)], e) THEN q[e] = <<>>
            ELSE Filling(e) /\ Available(e) /\ Taken(e) = Len(q[e])
<1>1. Up(e) \in Procs /\ Up(e) # Head(processes) /\ Freq(e) = InFreq[e]
  BY EdgeEnds DEF Turns
<1>2. todo[Up(e)] = <<>> /\ pc[Up(e)] # "busy"
  BY <1>1, WaitsItsTurn
<1>3. ~Precedes(processes, Up(e), Down(e))
  BY HeadFirst DEF LineInv
<1>4. IF pc[Down(e)] = "busy" /\ ~Reads(todo[Down(e)], e) THEN q[e] = <<>> ELSE Filling(e)
  BY <1>3 DEF Turns
<1>5. Filling(e) => Available(e) /\ Taken(e) = Len(q[e])
  BY <1>1, <1>2, Filled
<1> QED
  BY <1>2, <1>4, <1>5, NoCalls DEF PushTo

(* An edge that the head writes to.                                        *)
LEMMA HeadWrites ==
  ASSUME BaseInv, ExitInv, LineInv, processes # <<>>, NEW e \in Edges, Up(e) = Head(processes),
         ~closed[e], Turns(e)
  PROVE  /\ Down(e) # Up(e) /\ Stands(processes, Down(e)) /\ pc[Down(e)] = "top"
         /\ IF pc[Up(e)] = "busy" THEN Filling(e) ELSE q[e] = <<>>
<1>1. Down(e) \in Procs /\ Down(e) # Head(processes)
  BY EdgeEnds DEF Turns
<1>2. ~is_complete[Down(e)]
  BY DEF BaseInv, ClosedInv
<1>3. Stands(processes, Down(e)) /\ pc[Down(e)] = "top"
  BY <1>1, <1>2, WaitsItsTurn
<1>4. Precedes(processes, Up(e), Down(e))
  BY <1>1, <1>3, HeadFirst DEF LineInv
<1> QED
  BY <1>1, <1>3, <1>4 DEF Turns

LEMMA TurnImplies ==
  ASSUME AllRequired, BaseInv, SyncInv, ExitInv, TurnInv PROVE TurnNeverBlocks
<1> SUFFICES ASSUME type = "sync", processes # <<>> PROVE TurnNeverBlocks
  BY DEF TurnNeverBlocks
<1> DEFINE p == Head(processes)
<1>1. LineInv /\ p \in Procs /\ \A e \in Edges : closed[e] \/ Turns(e)
  BY HeadFirst DEF TurnInv, LineInv
<1>2. ASSUME pc[p] = "top", ~is_complete[p], NEW e \in RequiredInputs(p) PROVE Available(e)
  <2>1. e \in Edges /\ Down(e) = p
    BY <1>1, RequiredEdges
  <2>2. ~closed[e]
    BY <1>2, <2>1 DEF BaseInv, ClosedInv
  <2> QED BY <1>1, <1>2, <2>1, <2>2, HeadReads
<1> DEFINE c == Head(todo[p])
<1>3. ASSUME pc[p] = "busy", todo[p] # <<>>, c.op = "grab" PROVE Available(c.edge)
  <2>1. c \in Calls(p) /\ c \in Elems(todo[p])
    BY <1>1, <1>3, NextCall DEF BaseInv, TypeOK, CallsInv
  <2>2. c.edge \in RequiredInputs(p)
    <3>1. c.edge \in InputSet(p)
      BY <1>3, <2>1 DEF Calls
    <3> QED BY <1>1, <3>1, EdgeEnds DEF AllRequired, RequiredInputs
  <2>3. Reads(todo[p], c.edge)
    BY <1>3, <2>1 DEF Reads
  <2> QED BY <1>1, <2>2, <2>3 DEF SyncInv, FitInv
<1>4. ASSUME pc[p] = "busy", todo[p] # <<>>, c.op # "grab", ~closed[c.edge]
      PROVE  Capacity[c.edge] = 0 \/ Len(q[c.edge]) < Capacity[c.edge]
  <2>1. c \in Calls(p) /\ c \in Elems(todo[p])
    BY <1>1, <1>4, NextCall DEF BaseInv, TypeOK, CallsInv
  <2>2. c.op = "push" /\ c.edge \in OutputSet(p)
    BY <1>4, <2>1 DEF Calls
  <2>3. c.edge \in Edges /\ Up(c.edge) = p
    BY <1>1, <2>2, EdgeEnds
  <2>4. PushTo(c.edge) # {}
    BY <2>1, <2>2, <2>3 DEF PushTo, PushesIn
  <2>5. Filling(c.edge) /\ Freq(c.edge) = InFreq[c.edge]
    BY <1>1, <1>4, <2>3, HeadWrites DEF Turns
  <2> QED BY <2>3, <2>4, <2>5, RoomLeft
<1> QED
  BY <1>2, <1>3, <1>4 DEF TurnNeverBlocks

LEMMA TurnsLater ==
  \A e : Turns(e)' <=>
    /\ Up(e) # Down(e) /\ Freq(e) = InFreq[e]
    /\ IF Precedes(processes', Up(e), Down(e))
       THEN IF pc'[Up(e)] = "busy" THEN Filling(e)' ELSE q'[e] = <<>>
       ELSE IF pc'[Down(e)] = "busy" /\ ~Reads(todo'[Down(e)], e) THEN q'[e] = <<>> ELSE Filling(e)'
BY DEF Turns, Precedes, Reads, Elems

LEMMA FillingKept ==
  ASSUME NEW e, Filling(e), q'[e] = q[e], PushTo(e)' = PushTo(e), stamp'[Up(e)] = stamp[Up(e)]
  PROVE  Filling(e)'
<1>1. PICK t \in Types, a \in Nat, k \in Nat :
        /\ EdgeChain(e, a, k) /\ Len(q[e]) + k = Times(Up(e), PortOf(e), t)
        /\ \A i \in 1..Len(q[e]) : q[e][i].type = t
        /\ \A c \in PushTo(e) : c.datum.type = t
  BY DEF Filling
<1>2. EdgeChain(e, a, k)'
  BY <1>1, ChainSame
<1>3. /\ Len(q'[e]) + k = Times(Up(e), PortOf(e), t)
      /\ \A i \in 1..Len(q'[e]) : q'[e][i].type = t
      /\ \A c \in PushTo(e)' : c.datum.type = t
  BY <1>1
<1> QED
  BY <1>2, <1>3 DEF Filling

(* The queue after a turn.                                                 *)
LEMMA LineNext ==
  ASSUME BaseInv, LineInv, NEW p \in Procs, Turn(p)
  PROVE  /\ LineInv' /\ processes # <<>> /\ p = Head(processes) /\ pc'[p] \in {"busy", "top", "exited"}
         /\ \A r, u : r # p /\ u # p => (Precedes(processes', r, u) <=> Precedes(processes, r, u))
         /\ pc'[p] = "busy" => processes' = processes
         /\ pc'[p] # "busy" => \A r : ~Precedes(processes', p, r)
         /\ pc'[p] = "top" => \A r : r # p /\ Stands(processes, r) => Precedes(processes', r, p)
<1>1. /\ processes # <<>> /\ p = Head(processes) /\ ProcNext(p)
      /\ processes \in Seq(Procs) /\ Distinct(processes)
      /\ pc'[p] = "busy" => processes' = processes
      /\ pc'[p] = "top" => processes' = Append(Tail(processes), p)
      /\ pc'[p] = "exited" => processes' = Tail(processes)
  BY DEF Turn, LineInv
<1>2. BaseInv'
  BY <1>1, BaseNext DEF AnyNext
<1>3. pc'[p] \in {"busy", "top", "exited"}
  BY <1>2 DEF BaseInv, TypeOK
<1>4. \A r \in Procs : r # p => pc'[r] = pc[r]
  BY <1>1, OthersKeep DEF BaseInv
<1>5. /\ \A r \in Procs : Stands(processes, r) <=> pc[r] # "exited"
      /\ \A r \in Procs : pc[r] = "busy" => r = p
  BY <1>1 DEF LineInv
<1>6. CASE pc'[p] = "busy"
  <2>1. processes' = processes /\ Stands(processes, p)
    BY <1>1, <1>6, HeadFirst
  <2>2. \A r \in Procs : Stands(processes', r) <=> pc'[r] # "exited"
    BY <1>4, <1>5, <1>6, <2>1
  <2>3. LineInv'
    BY <1>1, <1>4, <1>5, <2>1, <2>2 DEF LineInv, Stands, Distinct
  <2> QED BY <1>1, <1>3, <1>6, <2>1, <2>3
<1> DEFINE t == Tail(processes)
<1>7. /\ t \in Seq(Procs) /\ Distinct(t) /\ ~Stands(t, p)
      /\ \A r : r # p => (Stands(t, r) <=> Stands(processes, r))
      /\ \A r, u : r # p /\ u # p => (Precedes(t, r, u) <=> Precedes(processes, r, u))
  BY <1>1, HeadLeaves
<1> HIDE DEF t
<1>8. CASE pc'[p] = "exited"
  <2>1. processes' = t
    BY <1>1, <1>8 DEF t
  <2>2. \A r \in Procs : Stands(processes', r) <=> pc'[r] # "exited"
    BY <1>4, <1>5, <1>7, <1>8, <2>1
  <2>3. \A r \in Procs : pc'[r] # "busy"
    BY <1>4, <1>5, <1>8
  <2>4. LineInv'
    BY <1>7, <2>1, <2>2, <2>3 DEF LineInv, Stands, Distinct
  <2>5. \A r : ~Precedes(processes', p, r)
    BY <1>7, <2>1 DEF Precedes, Stands
  <2> QED BY <1>1, <1>3, <1>7, <1>8, <2>1, <2>4, <2>5
<1>9. CASE pc'[p] = "top"
  <2> DEFINE w == Append(t, p)
  <2>1. processes' = w
    BY <1>1, <1>9 DEF t
  <2>2. /\ w \in Seq(Procs) /\ Distinct(w) /\ Stands(w, p)
        /\ \A r : r # p => (Stands(w, r) <=> Stands(t, r)) /\ (Stands(t, r) => Precedes(w, r, p))
        /\ \A r : ~Precedes(w, p, r)
        /\ \A r, u : r # p /\ u # p => (Precedes(w, r, u) <=> Precedes(t, r, u))
    BY <1>7, JoinsBehind
  <2> HIDE DEF w
  <2>3. \A r \in Procs : Stands(processes', r) <=> pc'[r] # "exited"
    BY <1>4, <1>5, <1>7, <1>9, <2>1, <2>2
  <2>4. \A r \in Procs : pc'[r] # "busy"
    BY <1>4, <1>5, <1>9
  <2>5. LineInv'
    BY <2>1, <2>2, <2>3, <2>4 DEF LineInv, Stands, Distinct
  <2> QED BY <1>1, <1>3, <1>7, <1>9, <2>1, <2>2, <2>5
<1> QED
  BY <1>3, <1>6, <1>8, <1>9

(* What a step does to the edges of its process, and that it does nothing  *)
(* to others.                                                              *)
LEMMA EdgesOfStep ==
  ASSUME BaseInv, NEW p \in Procs, ProcNext(p), NEW e \in Edges, Down(e) # p, ~Push(p) \/ Up(e) # p
  PROVE  q'[e] = q[e]
<1>1. TypeOK
  BY DEF BaseInv
<1>2. CASE Stops(p)
  BY <1>1, <1>2, Stopping
<1>3. CASE Grab(p)
  BY <1>3, Grabbing, EdgeEnds DEF Grabbed
<1>4. CASE Push(p)
  BY <1>4, Pushing, EdgeEnds DEF Pushed
<1>5. CASE Propagate(p) \/ Step(p) \/ StepAfterCompletion(p)
  BY <1>5 DEF Propagate, Step, StepAfterCompletion
<1>6. StepAndStop(p) => Stops(p)
  BY DEF StepAndStop, Stops
<1>7. EndStep(p) => Stops(p) \/ q' = q
  BY DEF EndStep, Stops
<1> QED
  BY <1>2, <1>3, <1>4, <1>5, <1>6, <1>7 DEF ProcNext

LEMMA TurnOfOthers ==
  ASSUME BaseInv, LineInv, NEW p \in Procs, Turn(p), NEW e \in Edges,
         Up(e) # p, Down(e) # p, Turns(e)
  PROVE  Turns(e)'
<1>1. ProcNext(p) /\ Up(e) \in Procs /\ Down(e) \in Procs
  BY EdgeEnds DEF Turn
<1>2. q'[e] = q[e]
  BY <1>1, EdgesOfStep
<1>3. /\ pc'[Up(e)] = pc[Up(e)] /\ todo'[Up(e)] = todo[Up(e)] /\ stamp'[Up(e)] = stamp[Up(e)]
      /\ pc'[Down(e)] = pc[Down(e)] /\ todo'[Down(e)] = todo[Down(e)]
  BY <1>1, OthersKeep DEF BaseInv
<1>4. PushTo(e)' = PushTo(e)
  BY <1>3 DEF PushTo, PushesIn, Elems
<1>5. Filling(e) => Filling(e)'
  BY <1>2, <1>3, <1>4, FillingKept
<1>6. Precedes(processes', Up(e), Down(e)) <=> Precedes(processes, Up(e), Down(e))
  BY LineNext
<1> QED
  BY <1>2, <1>3, <1>5, <1>6, TurnsLater DEF Turns

LEMMA TurnOfInput ==
  ASSUME AllRequired, BaseInv, ToldInv, ExitInv, LineInv, NEW p \in Procs, Turn(p), NEW e \in Edges,
         Down(e) = p, ~closed[e], ~closed'[e], Turns(e)
  PROVE  Turns(e)'
<1>1. /\ ProcNext(p) /\ processes # <<>> /\ p = Head(processes)
      /\ Up(e) \in Procs /\ e \in InputSet(p) /\ Up(e) # p /\ Freq(e) = InFreq[e]
  BY LineNext, EdgeEnds DEF Turn, Turns
<1>2. /\ todo[Up(e)] = <<>> /\ PushTo(e) = {} /\ pc[Up(e)] # "busy"
      /\ IF pc[p] = "busy" /\ ~Reads(todo[p], e) THEN q[e] = <<>>
         ELSE Filling(e) /\ Available(e) /\ Taken(e) = Len(q[e])
  BY <1>1, HeadReads
<1>3. pc'[Up(e)] = pc[Up(e)] /\ todo'[Up(e)] = todo[Up(e)] /\ stamp'[Up(e)] = stamp[Up(e)]
  BY <1>1, OthersKeep DEF BaseInv
<1>4. PushTo(e)' = PushTo(e)
  BY <1>3 DEF PushTo, PushesIn, Elems
<1>5. Filling(e) /\ q'[e] = q[e] => Filling(e)'
  BY <1>3, <1>4, FillingKept
<1>6. ~Stops(p) /\ ~is_complete[p] /\ TypeOK /\ CallsInv
  BY Stopping DEF BaseInv, ClosedInv
<1>7. pc'[p] = "busy" => ~Precedes(processes', Up(e), p)
  <2>1. ~Precedes(processes, Up(e), p)
    BY <1>1, HeadFirst DEF LineInv
  <2>2. pc'[p] = "busy" => processes' = processes
    BY LineNext
  <2> QED BY <2>1, <2>2
<1>8. ASSUME NEW t, NEW v, Starts(p, t, v) PROVE Turns(e)'
  <2>1. /\ pc[p] = "top" /\ pc' = [pc EXCEPT ![p] = "busy"] /\ q' = q /\ t \in Types
        /\ todo' = [todo EXCEPT ![p] = Grabs(p) \o Pushes(p, t)]
    BY <1>8 DEF Starts, Begin
  <2>2. pc'[p] = "busy" /\ todo'[p] = Grabs(p) \o Pushes(p, t)
    BY <1>6, <2>1 DEF TypeOK
  <2>3. Reads(todo'[p], e)
    BY <1>1, <1>6, <2>1, <2>2, StartedPushes, TypedQueues
  <2> QED BY <1>1, <1>2, <1>5, <1>7, <2>1, <2>2, <2>3, TurnsLater
<1>9. ~StepAndStop(p) /\ ~StepAfterCompletion(p)
  BY <1>6 DEF StepAndStop, StepAfterCompletion, Stops
<1>10. CASE Grab(p)
  <2>1. PICK f \in InputSet(p) : Grabbed(p, f) /\ CallMade(p)
    BY <1>10, Grabbing
  <2>2. pc' = pc /\ pc[p] = "busy" /\ f \in Edges
    BY <2>1 DEF CallMade, Grabbed
  <2>3. /\ ~Reads(todo'[p], f) /\ Reads(todo[p], f)
        /\ e # f => (Reads(todo'[p], e) <=> Reads(todo[p], e))
    BY <2>1, CallsLeft
  <2>4. CASE e = f
    <3>1. q[e] \in Seq(Data) /\ q'[e] \in Seq(Data) /\ Len(q'[e]) = Len(q[e]) - Taken(e)
      BY <1>6, <2>1, <2>4 DEF Grabbed, TypeOK
    <3>2. Taken(e) = Len(q[e])
      BY <1>2, <2>3, <2>4
    <3>3. q'[e] = <<>>
      BY <3>1, <3>2
    <3> QED BY <1>1, <1>7, <2>2, <2>3, <2>4, <3>3, TurnsLater
  <2>5. CASE e # f
    <3>1. q'[e] = q[e]
      BY <2>1, <2>5 DEF Grabbed
    <3> QED BY <1>1, <1>2, <1>5, <1>7, <2>2, <2>3, <2>5, <3>1, TurnsLater
  <2> QED BY <2>4, <2>5
<1>11. CASE Push(p)
  <2>1. PICK f \in OutputSet(p), d \in Data : Pushed(p, f, d) /\ CallMade(p)
    BY <1>11, Pushing
  <2>2. pc' = pc /\ pc[p] = "busy" /\ q'[e] = q[e]
    BY <1>1, <2>1 DEF CallMade, Pushed
  <2>3. Reads(todo'[p], e) <=> Reads(todo[p], e)
    BY <2>1, CallsLeft
  <2> QED BY <1>1, <1>2, <1>5, <1>7, <2>2, <2>3, TurnsLater
<1>12. CASE EndStep(p)
  <2>1. /\ pc[p] = "busy" /\ todo[p] = <<>> /\ q' = q /\ verdict[p] # "complete" /\ pc' = [pc EXCEPT ![p] = "top"]
    BY <1>6, <1>12 DEF EndStep, Stops
  <2>2. pc'[p] = "top" /\ q'[e] = <<>>
    BY <1>2, <1>6, <2>1, NoCalls DEF TypeOK
  <2>3. Stands(processes, Up(e))
    <3>1. SUFFICES ASSUME ~Stands(processes, Up(e)) PROVE FALSE
      OBVIOUS
    <3>2. is_complete[Up(e)]
      BY <1>1, <3>1, WaitsItsTurn
    <3>3. Told(e)
      BY <3>2 DEF ToldInv, Ended
    <3>4. ~Sent(e, "complete")
      BY <1>6, <2>1, <2>2, SentPlace, TypedQueues
    <3> QED BY <1>2, <2>1, <3>3, <3>4 DEF Told, CompleteComes
  <2>4. Precedes(processes', Up(e), p)
    BY <1>1, <2>2, <2>3, LineNext
  <2> QED BY <1>1, <1>2, <1>3, <2>2, <2>4, TurnsLater
<1> QED
  BY <1>1, <1>6, <1>8, <1>9, <1>10, <1>11, <1>12, Starting DEF ProcNext

(* The calls that a turn begins with fill an empty edge.                   *)
LEMMA FillingBegins ==
  ASSUME BaseInv, SyncInv, NEW e \in Edges, NEW t \in Types, ~closed[e], q[e] = <<>>, q'[e] = q[e],
         PushTo(e) = {}, PushTo(e)' = NewPushes(Up(e), e, t), stamp' = StampsAfter(Up(e), t)
  PROVE  Filling(e)'
<1>1. Stamps /\ QueueTypes
  BY TypedQueues DEF BaseInv
<1>2. PICK a \in Nat, k \in Nat : EdgeChain(e, a, k)
  BY DEF SyncInv, ChainInv
<1> DEFINE n == Times(Up(e), PortOf(e), t)
<1>3. n \in Nat
  BY EdgeEnds, PortOfEdge, TimesNat
<1>4. EdgeChain(e, a, n)'
  BY <1>1, <1>2, ChainStart
<1>5. Len(q'[e]) + n = n /\ \A i \in 1..Len(q'[e]) : FALSE
  BY <1>3
<1>6. \A c \in PushTo(e)' : c.datum.type = t
  BY <1>1, OneComplete
<1> HIDE DEF n
<1>7. \E b, m \in Nat :
        /\ EdgeChain(e, b, m)' /\ Len(q'[e]) + m = n
        /\ \A i \in 1..Len(q'[e]) : q'[e][i].type = t
        /\ \A c \in PushTo(e)' : c.datum.type = t
  BY <1>3, <1>4, <1>5, <1>6
<1> QED
  BY <1>7 DEF Filling, n

LEMMA FillingGoesOn ==
  ASSUME BaseInv, NEW p \in Procs, CallMade(p), NEW e \in OutputSet(p), NEW d \in Data,
         Pushed(p, e, d), ~closed[e], Filling(e)
  PROVE  Filling(e)'
<1>1. PICK t \in Types, a \in Nat, k \in Nat :
        /\ EdgeChain(e, a, k) /\ Len(q[e]) + k = Times(Up(e), PortOf(e), t)
        /\ \A i \in 1..Len(q[e]) : q[e][i].type = t
        /\ \A c \in PushTo(e) : c.datum.type = t
  BY DEF Filling
<1> DEFINE h == Head(todo[p])
<1>2. /\ e \in Edges /\ Up(e) = p /\ h.datum = d
      /\ Len(q'[e]) = Len(q[e]) + 1 /\ q'[e][Len(q[e]) + 1] = d
      /\ \A i \in 1..Len(q[e]) : q'[e][i] = q[e][i]
      /\ stamp' = stamp
  BY DEF Pushed, CallMade
<1>3. h \in PushTo(e) /\ PushTo(e) = {h} \cup PushTo(e)' /\ \A c \in PushTo(e)' : d.stamp < c.datum.stamp
  BY <1>2, CallsLeft
<1> HIDE DEF h
<1>4. QueueTypes /\ Len(q[e]) \in Nat
  BY <1>2, TypedQueues DEF BaseInv, TypeOK
<1>5. k - 1 \in Nat /\ EdgeChain(e, a, k - 1)'
  BY <1>1, <1>2, <1>3, <1>4, ChainPush
<1>6. Len(q'[e]) + (k - 1) = Times(Up(e), PortOf(e), t)
  BY <1>1, <1>2, <1>4, <1>5
<1>7. ASSUME NEW i \in 1..Len(q'[e]) PROVE q'[e][i].type = t
  <2>1. i \in 1..Len(q[e]) \/ i = Len(q[e]) + 1
    BY <1>2, <1>4
  <2>2. d.type = t
    BY <1>1, <1>2, <1>3
  <2> QED BY <1>1, <1>2, <2>1, <2>2
<1>8. \A c \in PushTo(e)' : c.datum.type = t
  BY <1>1, <1>3
<1> QED
  BY <1>5, <1>6, <1>7, <1>8 DEF Filling

LEMMA TurnOfOutput ==
  ASSUME BaseInv, SyncInv, ToldInv, ExitInv, LineInv, NEW p \in Procs, Turn(p), NEW e \in Edges,
         Up(e) = p, ~closed[e], Turns(e)
  PROVE  Turns(e)'
<1>1. /\ ProcNext(p) /\ processes # <<>> /\ p = Head(processes)
      /\ Down(e) \in Procs /\ e \in OutputSet(p) /\ Down(e) # p /\ Freq(e) = InFreq[e]
  BY LineNext, EdgeEnds DEF Turn, Turns
<1>2. /\ Stands(processes, Down(e)) /\ pc[Down(e)] = "top"
      /\ IF pc[p] = "busy" THEN Filling(e) ELSE q[e] = <<>>
  BY <1>1, HeadWrites
<1>3. pc'[Down(e)] = "top"
  BY <1>1, <1>2, OthersKeep DEF BaseInv
<1>4. TypeOK /\ CallsInv
  BY DEF BaseInv
<1>5. pc'[p] = "busy" => Precedes(processes', p, Down(e))
  <2>1. Precedes(processes, p, Down(e))
    BY <1>1, <1>2, HeadFirst DEF LineInv
  <2>2. pc'[p] = "busy" => processes' = processes
    BY LineNext
  <2> QED BY <2>1, <2>2
<1>6. ~Push(p) => q'[e] = q[e]
  BY <1>1, EdgesOfStep
<1>7. ASSUME NEW t \in Types, pc[p] = "top", pc'[p] = "busy", ~Push(p), stamp' = StampsAfter(p, t),
             todo' = [todo EXCEPT ![p] = Grabs(p) \o Pushes(p, t)] \/ todo' = [todo EXCEPT ![p] = Pushes(p, t)]
      PROVE  Turns(e)'
  <2>1. PushTo(e) = {} /\ PushTo(e)' = NewPushes(p, e, t)
    BY <1>7, DecidedPushes
  <2>2. Filling(e)'
    BY <1>2, <1>6, <1>7, <2>1, FillingBegins
  <2> QED BY <1>1, <1>5, <1>7, <2>2, TurnsLater
<1>8. pc[p] = "top" => ~Push(p)
  BY DEF Push
<1>9. ASSUME NEW t, NEW v, Starts(p, t, v) PROVE Turns(e)'
  <2>1. /\ pc[p] = "top" /\ pc' = [pc EXCEPT ![p] = "busy"] /\ t \in Types /\ stamp' = StampsAfter(p, t)
        /\ todo' = [todo EXCEPT ![p] = Grabs(p) \o Pushes(p, t)]
    BY <1>9 DEF Starts, Begin
  <2>2. pc'[p] = "busy"
    BY <1>4, <2>1 DEF TypeOK
  <2> QED BY <1>7, <1>8, <2>1, <2>2
<1>10. CASE StepAndStop(p)
  <2>1. /\ pc[p] = "top" /\ pc' = [pc EXCEPT ![p] = "busy"] /\ stamp' = StampsAfter(p, "complete")
        /\ todo' = [todo EXCEPT ![p] = Pushes(p, "complete")]
    BY <1>10 DEF StepAndStop, Begin
  <2>2. pc'[p] = "busy" /\ "complete" \in Types
    BY <1>4, <2>1 DEF TypeOK, Types
  <2> QED BY <1>7, <1>8, <2>1, <2>2
<1>11. ~StepAfterCompletion(p)
  <2>1. SUFFICES ASSUME StepAfterCompletion(p) PROVE FALSE
    OBVIOUS
  <2>2. pc[p] = "top" /\ is_complete[p]
    BY <2>1 DEF StepAfterCompletion, Begin
  <2>3. Told(e)
    BY <2>2 DEF ToldInv, Ended
  <2>4. ~Sent(e, "complete")
    BY <1>2, <1>4, <2>2, SentPlace, TypedQueues
  <2>5. ~CompleteComes(e)
    BY <1>4, <2>2, NoCalls DEF CallsInv, PushTo, CompleteComes
  <2>6. verdict[Down(e)] # "complete"
    BY <1>1, <1>2, <1>4 DEF CallsInv
  <2> QED BY <2>3, <2>4, <2>5, <2>6 DEF Told
<1>12. CASE Grab(p)
  <2>1. PICK f \in InputSet(p) : Grabbed(p, f) /\ CallMade(p)
    BY <1>12, Grabbing
  <2>2. pc' = pc /\ pc[p] = "busy" /\ stamp' = stamp /\ PushTo(e)' = PushTo(e)
    BY <2>1, CallsLeft DEF CallMade
  <2>3. q'[e] = q[e]
    BY <1>1, <2>1, EdgeEnds DEF Grabbed
  <2>4. Filling(e)'
    BY <1>2, <2>2, <2>3, FillingKept
  <2> QED BY <1>1, <1>5, <2>2, <2>4, TurnsLater
<1>13. CASE Push(p)
  <2>1. PICK f \in OutputSet(p), d \in Data : Pushed(p, f, d) /\ CallMade(p)
    BY <1>13, Pushing
  <2>2. pc' = pc /\ pc[p] = "busy" /\ stamp' = stamp
    BY <2>1 DEF CallMade
  <2>3. CASE e = f
    BY <1>1, <1>2, <1>5, <2>1, <2>2, <2>3, FillingGoesOn, TurnsLater
  <2>4. CASE e # f
    <3>1. q'[e] = q[e] /\ PushTo(e)' = PushTo(e)
      BY <2>1, <2>4, CallsLeft DEF Pushed
    <3>2. Filling(e)'
      BY <1>2, <2>2, <3>1, FillingKept
    <3> QED BY <1>1, <1>5, <2>2, <3>2, TurnsLater
  <2> QED BY <2>3, <2>4
<1>14. CASE EndStep(p)
  <2>1. /\ pc[p] = "busy" /\ todo[p] = <<>> /\ todo' = todo /\ stamp' = stamp /\ ~Push(p)
        /\ pc' = [pc EXCEPT ![p] = IF is_complete[p] \/ verdict[p] = "complete" THEN "exited" ELSE "top"]
    BY <1>14 DEF EndStep, Push
  <2>2. pc'[p] # "busy"
    BY <1>4, <2>1 DEF TypeOK
  <2>3. q'[e] = q[e] /\ PushTo(e)' = PushTo(e)
    BY <1>6, <2>1 DEF PushTo, PushesIn, Elems
  <2>4. Filling(e)'
    BY <1>2, <2>1, <2>3, FillingKept
  <2>5. ~Precedes(processes', p, Down(e))
    BY <2>2, LineNext
  <2> QED BY <1>1, <1>3, <2>4, <2>5, TurnsLater
<1> QED
  BY <1>1, <1>4, <1>9, <1>10, <1>11, <1>12, <1>13, <1>14, Starting DEF ProcNext

LEMMA TurnNext ==
  ASSUME AllRequired, BaseInv, SyncInv, ToldInv, ExitInv, TurnInv, [SyncNext]_allVars
  PROVE  TurnInv'
<1> SUFFICES ASSUME type' = "sync" PROVE LineInv' /\ \A e \in Edges : closed'[e] \/ Turns(e)'
  BY DEF TurnInv
<1>1. CASE UNCHANGED allVars
  <2>1. /\ type = "sync" /\ processes' = processes /\ pc' = pc /\ q' = q /\ todo' = todo
        /\ stamp' = stamp /\ closed' = closed
    BY <1>1 DEF allVars, vars
  <2>2. LineInv /\ \A e \in Edges : closed[e] \/ Turns(e)
    BY <2>1 DEF TurnInv
  <2>3. LineInv'
    BY <2>1, <2>2 DEF LineInv, Distinct, Stands
  <2>4. ASSUME NEW e \in Edges, Turns(e) PROVE Turns(e)'
    <3>1. PushTo(e)' = PushTo(e)
      BY <2>1 DEF PushTo, PushesIn, Elems
    <3>2. Filling(e) => Filling(e)'
      BY <2>1, <3>1, FillingKept
    <3> QED BY <2>1, <2>4, <3>2, TurnsLater DEF Turns
  <2> QED BY <2>1, <2>2, <2>3, <2>4
<1>2. CASE \E p \in Procs : Turn(p)
  <2>1. PICK p \in Procs : Turn(p)
    BY <1>2
  <2>2. ProcNext(p) /\ LineInv /\ \A e \in Edges : closed[e] \/ Turns(e)
    BY <2>1 DEF Turn, TurnInv
  <2>3. [AnyNext]_vars
    BY <2>2 DEF AnyNext
  <2>4. ASSUME NEW e \in Edges, ~closed'[e] PROVE Turns(e)'
    <3>1. ~closed[e] /\ Turns(e)
      BY <2>2, <2>3, <2>4, ClosedStays
    <3>2. CASE Down(e) = p
      BY <2>1, <2>2, <2>4, <3>1, <3>2, TurnOfInput
    <3>3. CASE Up(e) = p
      BY <2>1, <2>2, <2>4, <3>1, <3>3, TurnOfOutput
    <3>4. CASE Up(e) # p /\ Down(e) # p
      BY <2>1, <2>2, <3>1, <3>4, TurnOfOthers
    <3> QED BY <3>2, <3>3, <3>4
  <2> QED BY <2>1, <2>2, <2>4, LineNext
<1>3. ~(\E p \in Procs : OwnThread(p))
  BY DEF OwnThread
<1>4. Joined /\ UNCHANGED <<type, processes>> => UNCHANGED allVars
  BY DEF Joined, allVars
<1> QED
  BY <1>1, <1>2, <1>3, <1>4 DEF SyncNext

(* The one thread of sync_scheduler never waits, in any pipeline whose     *)
(* core frequencies are equal: without optional ports, and with inputs     *)
(* that are read equally often, a process that ends has told its readers   *)
(* so before it is their turn.                                             *)
THEOREM NeverBlocks ==
  Aligned /\ AllRequired => (SyncSpec => []TurnNeverBlocks)
<1> SUFFICES ASSUME Aligned, AllRequired PROVE SyncSpec => []TurnNeverBlocks
  OBVIOUS
<1> DEFINE Inv == BaseInv /\ SyncInv /\ ToldInv /\ ExitInv
<1>1. Begins => Inv
  BY BaseInit, SyncInvInit, ToldInit, ExitInit DEF Begins
<1>2. Inv /\ [AnyNext]_vars /\ [Next]_vars => Inv'
  BY BaseNext, SyncInvNext, ToldNext, ExitNext
<1>3. SyncInit => TurnInv
  BY TurnInit DEF TurnInv
<1>4. Inv /\ TurnInv /\ [SyncNext]_allVars => TurnInv'
  BY TurnNext
<1>5. Inv /\ TurnInv => TurnNeverBlocks
  BY TurnImplies
<1>6. SyncSpec => SyncInit /\ [][SyncNext]_allVars
  BY PTL DEF SyncSpec
<1> HIDE DEF Inv
<1> QED
  BY <1>1, <1>2, <1>3, <1>4, <1>5, <1>6, SyncSteps, PTL
=============================================================================
