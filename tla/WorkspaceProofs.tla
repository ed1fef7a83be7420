--------------------------- MODULE WorkspaceProofs ---------------------------
(* That the converged results a session has are those of its networks as    *)
(* they stand, for every number of networks and variants and every capacity. *)
EXTENDS Workspace, TTLCacheTheorems

-----------------------------------------------------------------------------
(* Network objects *)

\* What it is to be a network, variants and all.
LEMMA NetworkLemma ==
    ASSUME NEW net
    PROVE  net \in Networks
           <=> /\ net = [working |-> net.working, flows |-> net.flows]
               /\ Initial \in DOMAIN net.flows
               /\ DOMAIN net.flows \subseteq Variants
               /\ net.flows \in [DOMAIN net.flows -> Flows]
               /\ net.working \in DOMAIN net.flows \cup {NoVariant}
  <1>1. ASSUME net \in Networks
        PROVE  /\ net = [working |-> net.working, flows |-> net.flows]
               /\ Initial \in DOMAIN net.flows
               /\ DOMAIN net.flows \subseteq Variants
               /\ net.flows \in [DOMAIN net.flows -> Flows]
               /\ net.working \in DOMAIN net.flows \cup {NoVariant}
    <2>1. PICK S \in {T \in SUBSET Variants : Initial \in T} :
             net \in [working : S \cup {NoVariant}, flows : [S -> Flows]]
      BY <1>1 DEF Networks
    <2>2. DOMAIN net.flows = S
      BY <2>1
    <2> QED
      BY <2>1, <2>2
  <1>2. ASSUME net = [working |-> net.working, flows |-> net.flows],
               Initial \in DOMAIN net.flows,
               DOMAIN net.flows \subseteq Variants,
               net.flows \in [DOMAIN net.flows -> Flows],
               net.working \in DOMAIN net.flows \cup {NoVariant}
        PROVE  net \in Networks
    <2> DEFINE S == DOMAIN net.flows
    <2>1. S \in {T \in SUBSET Variants : Initial \in T}
      BY <1>2
    <2>2. net \in [working : S \cup {NoVariant}, flows : [S -> Flows]]
      BY <1>2
    <2> QED
      BY <2>1, <2>2 DEF Networks
  <1> QED
    BY <1>1, <1>2

\* A working variant that is set is one the network has.
LEMMA IsSetLemma ==
    ASSUME NEW net \in Networks
    PROVE  IsSet(net) <=> net.working \in DOMAIN net.flows
  BY NetworkLemma, NoVariantAssumption DEF IsSet

\* A network that is just created or loaded.
LEMMA NewNetworkLemma ==
    ASSUME NEW f \in {"none", "old"}
    PROVE  [working |-> Initial, flows |-> [v \in {Initial} |-> f]] \in Networks
  <1> DEFINE net == [working |-> Initial, flows |-> [v \in {Initial} |-> f]]
  <1>1. /\ DOMAIN net.flows = {Initial}
        /\ net.flows \in [{Initial} -> Flows]
        /\ net.working = Initial
        /\ net = [working |-> net.working, flows |-> net.flows]
    BY DEF Flows
  <1> QED
    BY <1>1, NetworkLemma, InitialAssumption

\* Solving a network gives its working variant the flows of the solution.
LEMMA SolvedLemma ==
    ASSUME NEW net \in Networks, IsSet(net), NEW f \in Flows
    PROVE  /\ Solved(net, f) \in Networks
           /\ IsSet(Solved(net, f))
           /\ Solved(net, f).flows[Solved(net, f).working] = f
  <1> DEFINE d == Solved(net, f)
  <1>1. /\ d.working = net.working
        /\ d.flows = [net.flows EXCEPT ![net.working] = f]
        /\ d = [working |-> d.working, flows |-> d.flows]
    BY NetworkLemma DEF Solved
  <1> HIDE DEF d
  <1>2. /\ net.working \in DOMAIN net.flows
        /\ net.flows \in [DOMAIN net.flows -> Flows]
    BY NetworkLemma, IsSetLemma
  <1>3. DOMAIN d.flows = DOMAIN net.flows /\ d.flows \in [DOMAIN d.flows -> Flows]
    BY <1>1, <1>2
  <1>4. d \in Networks
    BY <1>1, <1>2, <1>3, NetworkLemma
  <1> QED
    BY <1>1, <1>2, <1>4 DEF d, IsSet

\* Changing an element leaves a network.
LEMMA ChangedLemma ==
    ASSUME NEW net \in Networks, IsSet(net)
    PROVE  Changed(net) \in Networks
  <1> DEFINE f == IF net.flows[net.working] = "none" THEN "none" ELSE "old"
  <1>1. Changed(net) = Solved(net, f)
    BY NetworkLemma DEF Changed, Solved
  <1>2. f \in Flows
    BY DEF Flows
  <1> QED
    BY <1>1, <1>2, SolvedLemma

\* Cloning leaves the working variant and its flows alone.
LEMMA ClonedLemma ==
    ASSUME NEW net \in Networks, NEW v \in Variants, NEW base \in DOMAIN net.flows,
           v \notin DOMAIN net.flows
    PROVE  /\ Cloned(net, base, v) \in Networks
           /\ Cloned(net, base, v).working = net.working
           /\ IsSet(net) => Cloned(net, base, v).flows[net.working]
                            = net.flows[net.working]
  <1> DEFINE d == Cloned(net, base, v)
             S == DOMAIN net.flows \cup {v}
  <1>1. /\ d.working = net.working
        /\ d.flows = [w \in S |-> IF w = v THEN net.flows[base] ELSE net.flows[w]]
        /\ d = [working |-> d.working, flows |-> d.flows]
    BY NetworkLemma DEF Cloned
  <1> HIDE DEF d
  <1>2. /\ net.flows \in [DOMAIN net.flows -> Flows]
        /\ Initial \in DOMAIN net.flows
        /\ DOMAIN net.flows \subseteq Variants
        /\ net.working \in DOMAIN net.flows \cup {NoVariant}
    BY NetworkLemma
  <1>3. DOMAIN d.flows = S /\ d.flows \in [S -> Flows]
    BY <1>1, <1>2
  <1>4. d \in Networks
    BY <1>1, <1>2, <1>3, NetworkLemma
  <1>5. IsSet(net) => d.flows[net.working] = net.flows[net.working]
    BY <1>1, IsSetLemma
  <1> QED
    BY <1>1, <1>4, <1>5 DEF d

\* Another variant can be made the working one.
LEMMA SwitchedLemma ==
    ASSUME NEW net \in Networks, NEW v \in DOMAIN net.flows
    PROVE  [net EXCEPT !.working = v] \in Networks
  <1> DEFINE d == [net EXCEPT !.working = v]
  <1>1. /\ d.working = v /\ d.flows = net.flows
        /\ d = [working |-> d.working, flows |-> d.flows]
    BY NetworkLemma
  <1> HIDE DEF d
  <1>2. d \in Networks
    BY <1>1, NetworkLemma
  <1> QED
    BY <1>2 DEF d

\* Removing a variant that is not the working one leaves the working one alone.
LEMMA WithoutLemma ==
    ASSUME NEW net \in Networks, NEW v, v # Initial, NEW fallback
    PROVE  /\ WithoutVariant(net, v, fallback) \in Networks
           /\ net.working # v
              => /\ WithoutVariant(net, v, fallback).working = net.working
                 /\ IsSet(net) => WithoutVariant(net, v, fallback).flows[net.working]
                                  = net.flows[net.working]
  <1> DEFINE d == WithoutVariant(net, v, fallback)
             S == DOMAIN net.flows \ {v}
  <1>1. /\ d.working = IF net.working # v THEN net.working
                       ELSE IF fallback \in S THEN fallback
                       ELSE NoVariant
        /\ d.flows = [w \in S |-> net.flows[w]]
        /\ d = [working |-> d.working, flows |-> d.flows]
    BY DEF WithoutVariant
  <1> HIDE DEF d
  <1>2. /\ net.flows \in [DOMAIN net.flows -> Flows]
        /\ Initial \in DOMAIN net.flows
        /\ DOMAIN net.flows \subseteq Variants
        /\ net.working \in DOMAIN net.flows \cup {NoVariant}
    BY NetworkLemma
  <1>3. DOMAIN d.flows = S /\ d.flows \in [S -> Flows]
    BY <1>1, <1>2
  <1>4. d.working \in S \cup {NoVariant}
    BY <1>1, <1>2
  <1>5. d \in Networks
    BY <1>1, <1>2, <1>3, <1>4, NetworkLemma
  <1>6. net.working # v /\ IsSet(net) => d.flows[net.working] = net.flows[net.working]
    BY <1>1, IsSetLemma
  <1> QED
    BY <1>1, <1>5, <1>6 DEF d

-----------------------------------------------------------------------------
(* What a step leaves alone *)

\* A result the session has for network k, unless it is excused, is of a loaded
\* network and, when it converged, holds of it.  The first part is what makes
\* the property inductive: a network loaded later under the id of one that is
\* gone does not inherit a result that nobody excuses.
Fine(k) ==
    k \in Live(loadflow) /\ k \notin excused
    => k \in Loaded /\ (loadflow.val[k] # "failed" => Holds(k))

AllFine == \A k \in Nets : Fine(k)

NetKept(k) == k \in Loaded => k \in Live(networks') /\ networks'.val[k] = networks.val[k]

ResultKept(k) ==
    k \in Live(loadflow') => k \in Live(loadflow) /\ loadflow'.val[k] = loadflow.val[k]

ExcuseKept(k) == k \in excused => k \in excused'

\* What a step leaves alone stays fine.
LEMMA KeptLemma ==
    ASSUME NEW k, Fine(k), NetKept(k), ResultKept(k), ExcuseKept(k)
    PROVE  Fine(k)'
  BY DEF Fine, NetKept, ResultKept, ExcuseKept, Loaded, Holds, IsSet

\* A result that is dropped, or excused, is fine.
LEMMA GoneLemma ==
    ASSUME NEW k, k \notin Live(loadflow') \/ k \in excused'
    PROVE  Fine(k)'
  BY DEF Fine

\* Nothing happens to the results.
LEMMA SameResults ==
    ASSUME TypeOK, UNCHANGED <<loadflow, excused>>
    PROVE  /\ IsCache(loadflow', Nets, Outcomes) /\ excused' \subseteq Nets
           /\ \A k : ResultKept(k) /\ ExcuseKept(k)
  BY DEF TypeOK, ResultKept, ExcuseKept

\* Resolving a network changes none.
LEMMA ReadLemma ==
    ASSUME TypeOK, NEW n, Read(n)
    PROVE  /\ IsCache(networks', Nets, Networks)
           /\ Live(networks') = Loaded
           /\ \A k : NetKept(k)
  <1>1. /\ IsCache(networks', Nets, Networks)
        /\ networks'.val = networks.val
        /\ Live(networks') = Live(networks)
    BY GetLemma DEF TypeOK, Read
  <1> QED
    BY <1>1 DEF NetKept, Loaded

\* A tool that works on one network changes no other.
LEMMA UpdateLemma ==
    ASSUME TypeOK, NEW n, NEW net \in Networks, Update(n, net)
    PROVE  /\ IsCache(networks', Nets, Networks)
           /\ n \in Live(networks')
           /\ networks'.val[n] = net
           /\ \A k : k # n => NetKept(k)
  <1> DEFINE g == Get(networks, n)
             d == [val |-> [g.val EXCEPT ![n] = net], left |-> g.left, lru |-> g.lru]
  <1>1. /\ IsCache(g, Nets, Networks)
        /\ g.val = networks.val
        /\ g.left = networks.left
        /\ Keys(g) = Keys(networks)
    BY GetLemma DEF TypeOK
  <1>2. networks' = [g EXCEPT !.val[n] = net] /\ n \in Loaded
    BY DEF Update
  <1> HIDE DEF g
  <1>3. g = [val |-> g.val, left |-> g.left, lru |-> g.lru]
    BY <1>1 DEF IsCache
  <1>4. networks' = d
    BY <1>2, <1>3
  <1>5. n \in Keys(g) /\ g.val \in [Keys(g) -> Networks]
    BY <1>1, <1>2 DEF Loaded, Live, IsCache
  <1>6. /\ d.val = [g.val EXCEPT ![n] = net] /\ d.left = g.left /\ d.lru = g.lru
        /\ d = [val |-> d.val, left |-> d.left, lru |-> d.lru]
    OBVIOUS
  <1> HIDE DEF d
  <1>7. /\ d.val[n] = net /\ \A k \in Keys(g) : k # n => d.val[k] = g.val[k]
        /\ Keys(d) = Keys(g)
        /\ d.val \in [Keys(g) -> Networks]
    BY <1>5, <1>6 DEF Keys
  <1>8. IsCache(d, Nets, Networks)
    BY <1>1, <1>6, <1>7 DEF IsCache
  <1>9. Live(d) = Loaded
    BY <1>1, <1>6, <1>7 DEF Live, Loaded
  <1> QED
    BY <1>1, <1>2, <1>4, <1>7, <1>8, <1>9 DEF NetKept, Loaded, Live

\* Dropping a network's result changes no other.
LEMMA InvalidateLemma ==
    ASSUME TypeOK, NEW n, InvalidateLoadflow(n)
    PROVE  /\ IsCache(loadflow', Nets, Outcomes) /\ excused' \subseteq Nets
           /\ n \notin Live(loadflow')
           /\ \A k : ResultKept(k) /\ (k # n => ExcuseKept(k))
  <1>1. IsCache(loadflow, Nets, Outcomes) /\ excused \subseteq Nets
    BY DEF TypeOK
  <1>2. /\ excused' \subseteq Nets
        /\ \A k : k # n => ExcuseKept(k)
    BY <1>1 DEF InvalidateLoadflow, ExcuseKept
  <1>3. CASE n \notin Live(loadflow)
    BY <1>1, <1>2, <1>3 DEF InvalidateLoadflow, ResultKept
  <1>4. CASE n \in Live(loadflow)
    <2>1. loadflow' = Remove(loadflow, n)
      BY <1>4 DEF InvalidateLoadflow
    <2>2. /\ IsCache(loadflow', Nets, Outcomes)
          /\ Live(loadflow') = Live(loadflow) \ {n}
          /\ \A k \in Live(loadflow) \ {n} : loadflow'.val[k] = loadflow.val[k]
      BY <1>1, <2>1, RemoveLemma
    <2> QED
      BY <1>2, <2>2 DEF ResultKept
  <1> QED
    BY <1>3, <1>4

\* Recording a network's result changes no other.
LEMMA RecordLemma ==
    ASSUME TypeOK, NEW n \in Nets, NEW outcome \in Outcomes, RecordLoadflow(n, outcome)
    PROVE  /\ IsCache(loadflow', Nets, Outcomes) /\ excused' \subseteq Nets
           /\ loadflow'.val[n] = outcome
           /\ \A k : k # n => ResultKept(k) /\ ExcuseKept(k)
  <1>1. IsCache(loadflow, Nets, Outcomes) /\ excused \subseteq Nets
    BY DEF TypeOK
  <1>2. loadflow' = Put(loadflow, n, outcome) /\ excused' = excused \ {n}
    BY DEF RecordLoadflow
  <1>3. IsCache(loadflow', Nets, Outcomes) /\ loadflow'.val[n] = outcome
    BY <1>1, <1>2, PutLemma, PutNewEntryLemma
  <1>4. ASSUME NEW k, k # n, k \in Live(loadflow')
        PROVE  k \in Live(loadflow) /\ loadflow'.val[k] = loadflow.val[k]
    <2>1. k \in Keys(loadflow')
      BY <1>4 DEF Live
    <2> QED
      BY <1>1, <1>2, <1>4, <2>1, PutOldEntryLemma
  <1> QED
    BY <1>1, <1>2, <1>3, <1>4 DEF ResultKept, ExcuseKept

\* Looking a network's result up changes none.
LEMMA LookUpLemma ==
    ASSUME TypeOK, NEW n, loadflow' = Get(loadflow, n), UNCHANGED excused
    PROVE  /\ IsCache(loadflow', Nets, Outcomes) /\ excused' \subseteq Nets
           /\ \A k : ResultKept(k) /\ ExcuseKept(k)
  <1>1. /\ IsCache(loadflow', Nets, Outcomes)
        /\ loadflow'.val = loadflow.val
        /\ Live(loadflow') = Live(loadflow)
    BY GetLemma DEF TypeOK
  <1> QED
    BY <1>1 DEF TypeOK, ResultKept, ExcuseKept

\* A copy holds the live entries, as they are.
LEMMA CopiedLemma ==
    ASSUME NEW c, NEW K, NEW V, NEW order, IsCache(c, K, V), ScanOrder(c, order)
    PROVE  /\ IsCache(Copied(c, order), K, V)
           /\ Live(Copied(c, order)) = Live(c)
           /\ \A k \in Live(c) : Copied(c, order).val[k] = c.val[k]
  <1> DEFINE d == Copied(c, order)
  <1>1. /\ d.val = [k \in Live(c) |-> c.val[k]]
        /\ d.left = [k \in Live(c) |-> TTL]
        /\ d.lru = order
        /\ d = [val |-> d.val, left |-> d.left, lru |-> d.lru]
    BY DEF Copied
  <1> HIDE DEF d
  <1>2. Keys(d) = Live(c) /\ Live(c) \subseteq Keys(c)
    BY <1>1 DEF Keys, Live
  <1>3. Live(d) = Live(c)
    BY <1>1, <1>2, TTLAssumption DEF Live
  <1>4. d.val \in [Keys(d) -> V] /\ d.left \in [Keys(d) -> 0 .. TTL]
    BY <1>1, <1>2, TTLAssumption DEF IsCache
  <1>5. d.lru \subseteq Keys(d) \X Keys(d)
    BY <1>1, <1>2 DEF ScanOrder, TotalOrder
  <1>6. IsCache(d, K, V)
    BY <1>1, <1>2, <1>4, <1>5 DEF IsCache
  <1> QED
    BY <1>1, <1>3, <1>6 DEF d

-----------------------------------------------------------------------------
(* The actions *)

Good == TypeOK /\ AllFine

\* A step on network n: the caches have their types, the other networks and
\* results are kept, and n's own result is fine.
StepOn(n) ==
    /\ IsCache(networks', Nets, Networks)
    /\ IsCache(loadflow', Nets, Outcomes)
    /\ excused' \subseteq Nets
    /\ \A k : k # n => NetKept(k) /\ ResultKept(k) /\ ExcuseKept(k)
    /\ Fine(n)'

\* A step on one network keeps everything good.
LEMMA StepOnLemma ==
    ASSUME Good, NEW n \in Nets, StepOn(n),
           security' \subseteq Nets, current' \in Nets \cup {NoNet}
    PROVE  Good'
  <1>1. TypeOK'
    BY DEF StepOn, TypeOK
  <1>2. ASSUME NEW k \in Nets PROVE Fine(k)'
    BY <1>2, KeptLemma DEF StepOn, Good, AllFine
  <1> QED
    BY <1>1, <1>2 DEF Good, AllFine

\* A step that keeps every network and every result keeps everything good.
LEMMA KeepsAllLemma ==
    ASSUME Good, IsCache(networks', Nets, Networks), IsCache(loadflow', Nets, Outcomes),
           excused' \subseteq Nets,
           \A k : NetKept(k) /\ ResultKept(k) /\ ExcuseKept(k),
           security' \subseteq Nets, current' \in Nets \cup {NoNet}
    PROVE  Good'
  <1>1. TypeOK'
    BY DEF TypeOK
  <1>2. ASSUME NEW k \in Nets PROVE Fine(k)'
    BY <1>2, KeptLemma DEF Good, AllFine
  <1> QED
    BY <1>1, <1>2 DEF Good, AllFine

\* The session and its fork have what the source had.
LEMMA ForkGood == Good /\ (Fork \/ ForkedFrom \/ ListNetworks) => Good'
  <1> SUFFICES ASSUME Good, Fork \/ ForkedFrom \/ ListNetworks
               PROVE  Good'
    OBVIOUS
  <1>1. /\ IsCache(networks, Nets, Networks)
        /\ IsCache(loadflow, Nets, Outcomes)
        /\ excused' = excused /\ excused \subseteq Nets
        /\ security' = security /\ security \subseteq Nets
        /\ current \in Nets \cup {NoNet} /\ current' = current
    BY DEF Good, TypeOK, Fork, ForkedFrom, ListNetworks
  <1>2. \A k : ExcuseKept(k)
    BY <1>1 DEF ExcuseKept
  <1>3. IsCache(networks', Nets, Networks) /\ \A k : NetKept(k)
    <2>1. PICK order : /\ ScanOrder(networks, order)
                       /\ \/ networks' = Copied(networks, order)
                          \/ networks' = Scan(networks, order)
      BY DEF Fork, ForkedFrom, ListNetworks
    <2>2. CASE networks' = Copied(networks, order)
      BY <1>1, <2>1, <2>2, CopiedLemma DEF NetKept, Loaded
    <2>3. CASE networks' = Scan(networks, order)
      BY <1>1, <2>1, <2>3, ScanLemma DEF NetKept, Loaded
    <2> QED
      BY <2>1, <2>2, <2>3
  <1>4. IsCache(loadflow', Nets, Outcomes) /\ \A k : ResultKept(k)
    <2>1. CASE ListNetworks
      BY <1>1, <2>1 DEF ListNetworks, ResultKept
    <2>2. CASE Fork
      <3>1. PICK order : ScanOrder(loadflow, order) /\ loadflow' = Copied(loadflow, order)
        BY <2>2 DEF Fork
      <3> QED
        BY <1>1, <3>1, CopiedLemma DEF ResultKept
    <2>3. CASE ForkedFrom
      <3>1. PICK order : ScanOrder(loadflow, order) /\ loadflow' = Scan(loadflow, order)
        BY <2>3 DEF ForkedFrom
      <3> QED
        BY <1>1, <3>1, ScanLemma DEF ResultKept
    <2> QED
      BY <2>1, <2>2, <2>3
  <1> QED
    BY <1>1, <1>2, <1>3, <1>4, KeepsAllLemma

\* Storing a network: those it replaces or evicts are excused, and one stored
\* under a fresh id has no result.
LEMMA RegisterGood ==
    ASSUME Good, NEW n \in Nets, NEW net \in Networks, NEW set_as_current \in BOOLEAN,
           RegisterNetwork(n, net, set_as_current)
    PROVE  Good'
  <1>1. /\ IsCache(networks, Nets, Networks)
        /\ IsCache(loadflow, Nets, Outcomes)
        /\ excused \subseteq Nets
        /\ security \subseteq Nets
        /\ current \in Nets \cup {NoNet}
    BY DEF Good, TypeOK
  <1>2. /\ networks' = Put(networks, n, net)
        /\ excused' = excused \cup (Loaded \cap {n}) \cup (Loaded \ Live(networks'))
        /\ loadflow' = loadflow /\ security' = security
        /\ current' = IF set_as_current THEN n ELSE current
    BY DEF RegisterNetwork
  <1>3. /\ IsCache(networks', Nets, Networks)
        /\ Live(networks') = Keys(networks')
        /\ \A k \in Keys(networks') : k # n => networks'.val[k] = networks.val[k]
    BY <1>1, <1>2, PutLemma, PutIsLiveLemma, PutOldEntryLemma
  <1>4. Loaded \subseteq Nets
    BY <1>1 DEF Loaded, Live, IsCache
  <1>5. TypeOK'
    BY <1>1, <1>2, <1>3, <1>4 DEF TypeOK
  <1>6. ASSUME NEW k \in Nets PROVE Fine(k)'
    <2>1. CASE k \in excused'
      BY <2>1, GoneLemma
    <2>2. CASE k \notin excused' /\ k \in Loaded
      <3>1. k # n /\ k \in Live(networks') /\ k \notin excused
        BY <1>2, <2>2
      <3>2. NetKept(k)
        BY <1>3, <3>1 DEF NetKept
      <3> QED
        BY <1>2, <3>1, <3>2, <1>6, KeptLemma DEF Good, AllFine, ResultKept, ExcuseKept
    <2>3. CASE k \notin excused' /\ k \notin Loaded
      <3>1. k \notin Live(loadflow)
        BY <1>2, <1>6, <2>3 DEF Good, AllFine, Fine
      <3> QED
        BY <1>2, <3>1, GoneLemma
    <2> QED
      BY <2>1, <2>2, <2>3
  <1> QED
    BY <1>5, <1>6 DEF Good, AllFine

\* The tools that create and load networks.
LEMMA LoadGood ==
    ASSUME Good, NEW n \in Nets, NEW set_as_current \in BOOLEAN,
           CreateIeeeNetwork(n, set_as_current) \/ LoadNetwork(n, set_as_current)
    PROVE  Good'
  <1>1. PICK net \in Networks : RegisterNetwork(n, net, set_as_current)
    BY NewNetworkLemma DEF CreateIeeeNetwork, LoadNetwork, NewNetworks
  <1> QED
    BY <1>1, RegisterGood

\* Removing a network drops its result, and changes no other network.
LEMMA RemoveGood == ASSUME Good, NEW n \in Nets, RemoveNetwork(n) PROVE Good'
  <1> DEFINE rest == Remove(networks, n)
  <1>1. /\ TypeOK
        /\ IsCache(networks, Nets, Networks)
        /\ security' = security /\ security \subseteq Nets
        /\ current \in Nets \cup {NoNet}
    BY DEF Good, TypeOK, RemoveNetwork
  <1>2. /\ IsCache(loadflow', Nets, Outcomes) /\ excused' \subseteq Nets
        /\ n \notin Live(loadflow')
        /\ \A k : ResultKept(k) /\ (k # n => ExcuseKept(k))
    BY <1>1, InvalidateLemma DEF RemoveNetwork
  <1>3. /\ IsCache(rest, Nets, Networks)
        /\ Live(rest) = Loaded \ {n}
        /\ \A k \in Loaded \ {n} : rest.val[k] = networks.val[k]
    <2>0. rest = Remove(networks, n)
      OBVIOUS
    <2> HIDE DEF rest
    <2>1. /\ IsCache(rest, Nets, Networks)
          /\ Live(rest) = Live(networks) \ {n}
          /\ \A k \in Live(networks) \ {n} : rest.val[k] = networks.val[k]
      BY <1>1, <2>0, RemoveLemma
    <2> QED
      BY <2>1 DEF Loaded
  <1>4. /\ \/ networks' = rest
           \/ \E k \in Live(rest) : networks' = Get(rest, k)
        /\ current' \in Nets \cup {NoNet}
    <2>1. Live(rest) \subseteq Nets
      BY <1>3 DEF IsCache, Live
    <2> HIDE DEF rest
    <2> QED
      BY <1>1, <2>1 DEF RemoveNetwork, rest
  <1> HIDE DEF rest
  <1>5. /\ IsCache(networks', Nets, Networks)
        /\ networks'.val = rest.val
        /\ Live(networks') = Live(rest)
    BY <1>3, <1>4, GetLemma
  <1>6. \A k : k # n => NetKept(k)
    BY <1>3, <1>5 DEF NetKept
  <1>7. Fine(n)'
    BY <1>2, GoneLemma
  <1>8. StepOn(n)
    BY <1>2, <1>5, <1>6, <1>7 DEF StepOn
  <1> QED
    BY <1>1, <1>4, <1>8, StepOnLemma

\* A tool that resolves a network and keeps every result.
LEMMA ReadStep ==
    ASSUME Good, NEW n \in Nets, Read(n), UNCHANGED <<loadflow, excused>>
    PROVE  StepOn(n)
  <1>1. TypeOK /\ Fine(n)
    BY DEF Good, AllFine
  <1>2. /\ IsCache(networks', Nets, Networks)
        /\ \A k : NetKept(k)
    BY <1>1, ReadLemma
  <1>3. /\ IsCache(loadflow', Nets, Outcomes) /\ excused' \subseteq Nets
        /\ \A k : ResultKept(k) /\ ExcuseKept(k)
    BY <1>1, SameResults
  <1> QED
    BY <1>1, <1>2, <1>3, KeptLemma DEF StepOn

\* A tool that leaves network n as net and keeps every result: n's own must be
\* fine for net.
LEMMA UpdateStep ==
    ASSUME Good, NEW n \in Nets, NEW net \in Networks, Update(n, net),
           UNCHANGED loadflow, excused' \in {excused, excused \cup {n}},
           \/ n \in excused' \/ n \notin Live(loadflow)
           \/ loadflow.val[n] = "failed"
           \/ Holds(n) => IsSet(net) /\ net.flows[net.working] = loadflow.val[n]
    PROVE  StepOn(n)
  <1>1. TypeOK /\ Fine(n) /\ excused \subseteq Nets /\ IsCache(loadflow, Nets, Outcomes)
    BY DEF Good, AllFine, TypeOK
  <1>2. /\ IsCache(networks', Nets, Networks)
        /\ n \in Live(networks')
        /\ networks'.val[n] = net
        /\ \A k : k # n => NetKept(k)
    BY <1>1, UpdateLemma
  <1>3. \A k : ResultKept(k) /\ ExcuseKept(k)
    BY DEF ResultKept, ExcuseKept
  <1>4. excused' \subseteq Nets /\ IsCache(loadflow', Nets, Outcomes)
    BY <1>1
  <1>5. Fine(n)'
    BY <1>1, <1>2 DEF Fine, Holds, Loaded, IsSet
  <1> QED
    BY <1>2, <1>3, <1>4, <1>5 DEF StepOn

\* A tool that drops network n's result, whatever it does to n.
LEMMA InvalidateStep ==
    ASSUME Good, NEW n \in Nets, InvalidateLoadflow(n),
           Read(n) \/ \E net \in Networks : Update(n, net)
    PROVE  StepOn(n)
  <1>1. TypeOK
    BY DEF Good
  <1>2. /\ IsCache(loadflow', Nets, Outcomes) /\ excused' \subseteq Nets
        /\ n \notin Live(loadflow')
        /\ \A k : ResultKept(k) /\ (k # n => ExcuseKept(k))
    BY <1>1, InvalidateLemma
  <1>3. /\ IsCache(networks', Nets, Networks)
        /\ \A k : k # n => NetKept(k)
    BY <1>1, ReadLemma, UpdateLemma
  <1>4. Fine(n)'
    BY <1>2, GoneLemma
  <1> QED
    BY <1>2, <1>3, <1>4 DEF StepOn

\* A tool that solves network n and records the outcome.
LEMMA SolveStep ==
    ASSUME Good, NEW n \in Nets, NEW outcome \in Outcomes, IsSet(networks.val[n]),
           n \in Loaded,
           Update(n, Solved(networks.val[n], outcome)), RecordLoadflow(n, outcome)
    PROVE  StepOn(n)
  <1> DEFINE net == Solved(networks.val[n], outcome)
  <1>1. TypeOK /\ networks.val[n] \in Networks
    BY DEF Good, TypeOK, IsCache, Loaded, Live
  <1>2. /\ net \in Networks /\ IsSet(net)
        /\ net.flows[net.working] = outcome
    BY <1>1, SolvedLemma DEF Outcomes, Flows
  <1> HIDE DEF net
  <1>3. /\ IsCache(networks', Nets, Networks)
        /\ n \in Live(networks')
        /\ networks'.val[n] = net
        /\ \A k : k # n => NetKept(k)
    BY <1>1, <1>2, UpdateLemma DEF net
  <1>4. /\ IsCache(loadflow', Nets, Outcomes) /\ excused' \subseteq Nets
        /\ loadflow'.val[n] = outcome
        /\ \A k : k # n => ResultKept(k) /\ ExcuseKept(k)
    BY <1>1, RecordLemma
  <1>5. Fine(n)'
    BY <1>2, <1>3, <1>4 DEF Fine, Holds, Loaded, IsSet
  <1> QED
    BY <1>3, <1>4, <1>5 DEF StepOn

\* The loaded networks are networks.
LEMMA LoadedLemma ==
    ASSUME Good, NEW n \in Loaded
    PROVE  networks.val[n] \in Networks
  BY DEF Good, TypeOK, IsCache, Loaded, Live

\* The tools that change a network, or its working variant, drop its result.
LEMMA ChangeStep ==
    ASSUME Good, NEW n \in Nets,
           \/ ModifyNetwork(n) \/ SetLineStatus(n) \/ SetSwitchStatus(n)
           \/ SetTapPosition(n)
           \/ \E v \in Variants : SetWorkingVariant(n, v)
    PROVE  StepOn(n)
  <1>1. CASE ModifyNetwork(n) \/ SetLineStatus(n) \/ SetSwitchStatus(n)
    <2>1. n \in Loaded /\ InvalidateThenChange(n)
      BY <1>1 DEF ModifyNetwork, SetLineStatus, SetSwitchStatus
    <2>2. Read(n) \/ \E net \in Networks : Update(n, net)
      BY <2>1, LoadedLemma, ChangedLemma DEF InvalidateThenChange
    <2> QED
      BY <2>1, <2>2, InvalidateStep DEF InvalidateThenChange
  <1>2. CASE SetTapPosition(n)
    <2>1. CASE Read(n) /\ UNCHANGED <<loadflow, excused>>
      BY <2>1, ReadStep
    <2>2. CASE InvalidateThenChange(n)
      <3>1. Read(n) \/ \E net \in Networks : Update(n, net)
        BY <1>2, <2>2, LoadedLemma, ChangedLemma DEF SetTapPosition, InvalidateThenChange
      <3> QED
        BY <2>2, <3>1, InvalidateStep DEF InvalidateThenChange
    <2> QED
      BY <1>2, <2>1, <2>2 DEF SetTapPosition
  <1>3. ASSUME NEW v \in Variants, SetWorkingVariant(n, v)
        PROVE  StepOn(n)
    <2> DEFINE net == networks.val[n]
    <2>1. CASE v \in DOMAIN net.flows
      <3>1. Update(n, [net EXCEPT !.working = v]) /\ InvalidateLoadflow(n)
        BY <1>3, <2>1 DEF SetWorkingVariant
      <3>2. [net EXCEPT !.working = v] \in Networks
        BY <1>3, <2>1, LoadedLemma, SwitchedLemma DEF SetWorkingVariant
      <3> HIDE DEF net
      <3> QED
        BY <3>1, <3>2, InvalidateStep
    <2>2. CASE v \notin DOMAIN net.flows
      BY <1>3, <2>2, ReadStep DEF SetWorkingVariant
    <2> QED
      BY <2>1, <2>2
  <1> QED
    BY <1>1, <1>2, <1>3

\* The tools that make and remove variants: one that removes the working
\* variant is excused.
LEMMA VariantStep ==
    ASSUME Good, NEW n \in Nets, NEW v \in Variants, NEW w \in Variants,
           CloneVariant(n, v, w) \/ RemoveVariant(n, v, w)
    PROVE  StepOn(n)
  <1> DEFINE net == networks.val[n]
  <1>1. n \in Loaded /\ net \in Networks
    BY LoadedLemma DEF CloneVariant, RemoveVariant
  <1>2. CASE Read(n) /\ UNCHANGED <<loadflow, excused>>
    BY <1>2, ReadStep
  <1>3. CASE CloneVariant(n, v, w) /\ ~Read(n)
    <2> DEFINE d == Cloned(net, w, v)
    <2>1. /\ w \in DOMAIN net.flows /\ v \notin DOMAIN net.flows
          /\ Update(n, d) /\ UNCHANGED <<loadflow, excused>>
      BY <1>3 DEF CloneVariant
    <2>2. /\ d \in Networks /\ d.working = net.working
          /\ IsSet(net) => d.flows[net.working] = net.flows[net.working]
      BY <1>1, <2>1, ClonedLemma
    <2>3. Holds(n) => IsSet(d) /\ d.flows[d.working] = loadflow.val[n]
      BY <2>2 DEF Holds, IsSet
    <2> HIDE DEF d
    <2> QED
      BY <2>1, <2>2, <2>3, UpdateStep
  <1>4. CASE RemoveVariant(n, v, w) /\ ~(Read(n) /\ UNCHANGED excused)
    <2> DEFINE d == WithoutVariant(net, v, w)
    <2>1. /\ v # Initial
          /\ Update(n, d) /\ UNCHANGED loadflow
          /\ excused' = IF net.working = v THEN excused \cup {n} ELSE excused
      BY <1>4 DEF RemoveVariant
    <2>2. /\ d \in Networks
          /\ net.working # v
             => /\ d.working = net.working
                /\ IsSet(net) => d.flows[net.working] = net.flows[net.working]
      BY <1>1, <2>1, WithoutLemma
    <2>3. \/ n \in excused'
          \/ Holds(n) => IsSet(d) /\ d.flows[d.working] = loadflow.val[n]
      BY <2>1, <2>2 DEF Holds, IsSet
    <2> HIDE DEF d
    <2> QED
      BY <2>1, <2>2, <2>3, UpdateStep
  <1> QED
    BY <1>2, <1>3, <1>4 DEF CloneVariant, RemoveVariant

\* The tools that may run a load flow.
LEMMA SolvingStep ==
    ASSUME Good, NEW n \in Nets,
           RunLoadflow(n) \/ CheckVoltageViolations(n) \/ GetTopActivePowerTransitLines(n)
    PROVE  StepOn(n)
  <1> DEFINE net == networks.val[n]
  <1>1. n \in Loaded /\ net \in Networks
    BY LoadedLemma
       DEF RunLoadflow, CheckVoltageViolations, GetTopActivePowerTransitLines
  <1>2. CASE Read(n) /\ UNCHANGED <<loadflow, excused>>
    BY <1>2, ReadStep
  <1>3. ASSUME NEW outcome \in Outcomes, IsSet(net),
               Update(n, Solved(net, outcome)), RecordLoadflow(n, outcome)
        PROVE  StepOn(n)
    BY <1>1, <1>3, SolveStep
  <1>4. ASSUME NEW f \in Outcomes, IsSet(net), Update(n, Solved(net, f)),
               UNCHANGED <<loadflow, excused>>,
               n \notin Live(loadflow) \/ net.flows[net.working] \in {"none", "failed"}
        PROVE  StepOn(n)
    <2>1. Solved(net, f) \in Networks
      BY <1>1, <1>4, SolvedLemma DEF Outcomes, Flows
    <2>2. \/ n \in excused \/ n \notin Live(loadflow) \/ loadflow.val[n] = "failed"
      <3>1. n \in Live(loadflow) => loadflow.val[n] \in Outcomes
        BY DEF Good, TypeOK, IsCache, Live
      <3> QED
        BY <1>4, <3>1 DEF Good, AllFine, Fine, Holds, Outcomes
    <2> QED
      BY <1>4, <2>1, <2>2, UpdateStep
  <1>5. "ac" \in Outcomes /\ "failed" \in Outcomes
    BY DEF Outcomes
  <1>6. CASE RunLoadflow(n)
    BY <1>2, <1>3, <1>6 DEF RunLoadflow
  <1>7. CASE CheckVoltageViolations(n)
    BY <1>2, <1>3, <1>4, <1>5, <1>7 DEF CheckVoltageViolations
  <1>8. CASE GetTopActivePowerTransitLines(n)
    BY <1>2, <1>4, <1>5, <1>8 DEF GetTopActivePowerTransitLines
  <1> QED
    BY <1>6, <1>7, <1>8

\* A read that visits another variant comes back.
LEMMA VisitStep ==
    ASSUME Good, NEW n \in Nets, NEW v, GetNetworkElementData(n, v)
    PROVE  StepOn(n)
  <1> DEFINE net == networks.val[n]
             d == Visited(Visited(net, v), net.working)
  <1>1. n \in Loaded /\ net \in Networks /\ UNCHANGED <<loadflow, excused>>
    BY LoadedLemma DEF GetNetworkElementData
  <1>2. d = net
    <2>1. net = [working |-> net.working, flows |-> net.flows]
      BY <1>1, NetworkLemma
    <2> HIDE DEF net
    <2> QED
      BY <2>1 DEF Visited
  <1>3. CASE Read(n)
    BY <1>1, <1>3, ReadStep
  <1>4. CASE Update(n, d)
    <2>1. Update(n, net)
      BY <1>2, <1>4
    <2>2. Holds(n) => IsSet(net) /\ net.flows[net.working] = loadflow.val[n]
      BY DEF Holds
    <2> HIDE DEF net, d
    <2> QED
      BY <1>1, <2>1, <2>2, UpdateStep
  <1> QED
    BY <1>3, <1>4 DEF GetNetworkElementData

\* The tools that only read.
LEMMA InspectStep ==
    ASSUME Good, NEW n \in Nets,
           \/ SwitchNetwork(n) \/ Inspect(n) \/ RunSecurityAnalysis(n)
           \/ OverloadedAfterContingencies(n)
    PROVE  StepOn(n)
  <1>1. CASE Read(n) /\ UNCHANGED <<loadflow, excused>>
    BY <1>1, ReadStep
  <1>2. CASE OverloadedAfterContingencies(n)
    <2>1. TypeOK /\ Fine(n)
      BY DEF Good, AllFine
    <2>2. /\ IsCache(networks', Nets, Networks)
          /\ \A k : NetKept(k)
      BY <1>2, <2>1, ReadLemma DEF OverloadedAfterContingencies
    <2>3. /\ IsCache(loadflow', Nets, Outcomes) /\ excused' \subseteq Nets
          /\ \A k : ResultKept(k) /\ ExcuseKept(k)
      BY <1>2, <2>1, LookUpLemma DEF OverloadedAfterContingencies
    <2> QED
      BY <2>1, <2>2, <2>3, KeptLemma DEF StepOn
  <1> QED
    BY <1>1, <1>2 DEF SwitchNetwork, Inspect, RunSecurityAnalysis

-----------------------------------------------------------------------------
(* The theorems *)

\* At first there is nothing to go wrong.
LEMMA GoodInit == Init => Good
  <1> SUFFICES ASSUME Init PROVE Good
    OBVIOUS
  <1>1. /\ Keys(EmptyCache) = {} /\ Live(EmptyCache) = {}
        /\ \A V : IsCache(EmptyCache, Nets, V)
    BY DEF EmptyCache, Keys, Live, IsCache
  <1>2. TypeOK
    BY <1>1 DEF Init, TypeOK
  <1> QED
    BY <1>1, <1>2 DEF Init, Good, AllFine, Fine

\* Every step keeps the types, and the results fine.
LEMMA GoodNext == Good /\ [Next]_vars => Good'
  <1> SUFFICES ASSUME Good, [Next]_vars PROVE Good'
    OBVIOUS
  <1>1. CASE UNCHANGED vars
    BY <1>1 DEF vars, Good, TypeOK, AllFine, Fine, Loaded, Holds, IsSet
  <1>2. CASE Fork \/ ForkedFrom \/ ListNetworks
    BY <1>2, ForkGood
  <1>3. ASSUME NEW n \in Nets, NEW set_as_current \in BOOLEAN,
               CreateIeeeNetwork(n, set_as_current) \/ LoadNetwork(n, set_as_current)
        PROVE  Good'
    BY <1>3, LoadGood
  <1>4. ASSUME NEW n \in Nets, RemoveNetwork(n)
        PROVE  Good'
    BY <1>4, RemoveGood
  <1>5. ASSUME NEW n \in Nets,
               \/ ModifyNetwork(n) \/ SetLineStatus(n) \/ SetSwitchStatus(n)
               \/ SetTapPosition(n)
               \/ \E v \in Variants : SetWorkingVariant(n, v)
        PROVE  Good'
    <2>1. security' = security /\ current' = current
      BY <1>5 DEF ModifyNetwork, SetLineStatus, SetSwitchStatus, InvalidateThenChange,
                  SetTapPosition, SetWorkingVariant
    <2> QED
      BY <1>5, <2>1, ChangeStep, StepOnLemma DEF Good, TypeOK
  <1>6. ASSUME NEW n \in Nets, NEW v \in Variants, NEW w \in Variants,
               CloneVariant(n, v, w) \/ RemoveVariant(n, v, w)
        PROVE  Good'
    <2>1. security' = security /\ current' = current
      BY <1>6 DEF CloneVariant, RemoveVariant
    <2> QED
      BY <1>6, <2>1, VariantStep, StepOnLemma DEF Good, TypeOK
  <1>7. ASSUME NEW n \in Nets,
               RunLoadflow(n) \/ CheckVoltageViolations(n)
               \/ GetTopActivePowerTransitLines(n)
        PROVE  Good'
    <2>1. security' = security /\ current' = current
      BY <1>7 DEF RunLoadflow, CheckVoltageViolations, GetTopActivePowerTransitLines
    <2> QED
      BY <1>7, <2>1, SolvingStep, StepOnLemma DEF Good, TypeOK
  <1>8. ASSUME NEW n \in Nets,
               \/ SwitchNetwork(n) \/ Inspect(n) \/ RunSecurityAnalysis(n)
               \/ OverloadedAfterContingencies(n)
        PROVE  Good'
    <2>1. security' \subseteq security \cup {n} /\ current' \in {current, n}
      BY <1>8 DEF SwitchNetwork, Inspect, RunSecurityAnalysis,
                  OverloadedAfterContingencies
    <2> QED
      BY <1>8, <2>1, InspectStep, StepOnLemma DEF Good, TypeOK
  <1>9. ASSUME NEW n \in Nets, NEW v \in Variants, GetNetworkElementData(n, v)
        PROVE  Good'
    <2>1. security' = security /\ current' = current
      BY <1>9 DEF GetNetworkElementData
    <2> QED
      BY <1>9, <2>1, VisitStep, StepOnLemma DEF Good, TypeOK
  <1> QED
    BY <1>1, <1>2, <1>3, <1>4, <1>5, <1>6, <1>7, <1>8, <1>9, InitialAssumption
       DEF Next, OverloadedInNormalOperation

\* Every variable always has its type: no network ever loses its initial
\* variant, and a working variant that is set is one the network has.
THEOREM WorkspaceTypeCorrect == Spec => []TypeOK
  <1>1. Good => TypeOK
    BY DEF Good
  <1> QED
    BY <1>1, GoodInit, GoodNext, PTL DEF Spec

\* A converged result the session has for a network is that of its working
\* variant as it stands, but for the ways out that excused names.
THEOREM ResultsHold == Spec => []ConvergedResultsHold
  <1>1. Good => ConvergedResultsHold
    <2> SUFFICES ASSUME Good, NEW n \in Loaded, Accepted(n), n \notin excused
                 PROVE  Holds(n)
      BY DEF ConvergedResultsHold
    <2>1. n \in Nets
      BY DEF Good, TypeOK, IsCache, Loaded, Live
    <2> QED
      BY <2>1 DEF Good, AllFine, Fine, Accepted
  <1> QED
    BY <1>1, GoodInit, GoodNext, PTL DEF Spec

-----------------------------------------------------------------------------
(* The current network *)

\* The networks have their order of use, and are no more than there is room for.
Roomy ==
    /\ TotalOrder(networks.lru, Keys(networks))
    /\ IsFiniteSet(Keys(networks)) /\ Cardinality(Keys(networks)) <= MaxSize

\* The step changes no more than one network and the order of use.
UsesNetworks ==
    \/ networks' = networks
    \/ \E n \in Nets : \/ Read(n)
                       \/ \E net \in Networks : Update(n, net)
    \/ \E order : /\ ScanOrder(networks, order)
                  /\ networks' \in {Scan(networks, order), Copied(networks, order)}

\* What each tool does to the networks.
LEMMA ToolsLemma ==
    ASSUME Good, [Next]_vars
    PROVE  \/ UsesNetworks /\ current' \in {current} \cup Loaded
           \/ \E n \in Nets : RemoveNetwork(n)
           \/ \E n \in Nets, net \in Networks, set_as_current \in BOOLEAN :
                 RegisterNetwork(n, net, set_as_current)
  <1>1. ASSUME NEW n \in Nets, NEW set_as_current \in BOOLEAN,
               CreateIeeeNetwork(n, set_as_current) \/ LoadNetwork(n, set_as_current)
        PROVE  \E net \in Networks : RegisterNetwork(n, net, set_as_current)
    BY <1>1, NewNetworkLemma DEF CreateIeeeNetwork, LoadNetwork, NewNetworks
  <1>2. ASSUME NEW n \in Nets, NEW v, GetNetworkElementData(n, v)
        PROVE  UsesNetworks /\ current' = current
    <2> DEFINE net == networks.val[n]
    <2>1. n \in Loaded /\ net \in Networks /\ current' = current
      BY <1>2, LoadedLemma DEF GetNetworkElementData
    <2>2. Visited(Visited(net, v), net.working) \in Networks
      <3>1. net = [working |-> net.working, flows |-> net.flows]
        BY <2>1, NetworkLemma
      <3>2. Visited(Visited(net, v), net.working) = net
        BY <3>1 DEF Visited
      <3> QED
        BY <2>1, <3>2
    <2> QED
      BY <1>2, <2>1, <2>2 DEF GetNetworkElementData, UsesNetworks
  <1>3. ASSUME NEW n \in Nets,
               \/ SwitchNetwork(n) \/ Inspect(n) \/ RunSecurityAnalysis(n)
               \/ OverloadedAfterContingencies(n)
        PROVE  UsesNetworks /\ current' \in {current} \cup Loaded
    BY <1>3
       DEF SwitchNetwork, Inspect, RunSecurityAnalysis, OverloadedAfterContingencies,
           UsesNetworks, Read
  <1>4. ASSUME NEW n \in Nets,
               \/ ModifyNetwork(n) \/ SetLineStatus(n) \/ SetSwitchStatus(n)
               \/ SetTapPosition(n)
        PROVE  UsesNetworks /\ current' = current
    <2>1. n \in Loaded /\ networks.val[n] \in Networks
      BY <1>4, LoadedLemma
         DEF ModifyNetwork, SetLineStatus, SetSwitchStatus, SetTapPosition, Read
    <2>2. /\ Read(n) \/ (IsSet(networks.val[n]) /\ Update(n, Changed(networks.val[n])))
          /\ current' = current
      BY <1>4
         DEF ModifyNetwork, SetLineStatus, SetSwitchStatus, SetTapPosition,
             InvalidateThenChange
    <2> QED
      BY <2>1, <2>2, ChangedLemma DEF UsesNetworks
  <1>5. ASSUME NEW n \in Nets, NEW v \in Variants, NEW w \in Variants,
               CloneVariant(n, v, w) \/ RemoveVariant(n, v, w) \/ SetWorkingVariant(n, v)
        PROVE  UsesNetworks /\ current' = current
    <2> DEFINE net == networks.val[n]
    <2>1. n \in Loaded /\ net \in Networks
      BY <1>5, LoadedLemma DEF CloneVariant, RemoveVariant, SetWorkingVariant
    <2>2. CASE CloneVariant(n, v, w)
      BY <2>1, <2>2, ClonedLemma DEF CloneVariant, UsesNetworks
    <2>3. CASE RemoveVariant(n, v, w)
      BY <2>1, <2>3, WithoutLemma DEF RemoveVariant, UsesNetworks
    <2>4. CASE SetWorkingVariant(n, v)
      BY <2>1, <2>4, SwitchedLemma DEF SetWorkingVariant, UsesNetworks
    <2> QED
      BY <1>5, <2>2, <2>3, <2>4
  <1>6. ASSUME NEW n \in Nets,
               RunLoadflow(n) \/ CheckVoltageViolations(n)
                  \/ GetTopActivePowerTransitLines(n)
        PROVE  UsesNetworks /\ current' = current
    <2> DEFINE net == networks.val[n]
    <2>1. n \in Loaded /\ net \in Networks
      BY <1>6, LoadedLemma
         DEF RunLoadflow, CheckVoltageViolations, GetTopActivePowerTransitLines
    <2>2. /\ current' = current
          /\ \/ Read(n)
             \/ IsSet(net) /\ \E f \in Flows : Update(n, Solved(net, f))
      BY <1>6
         DEF RunLoadflow, CheckVoltageViolations, GetTopActivePowerTransitLines,
             Flows, Outcomes
    <2> QED
      BY <2>1, <2>2, SolvedLemma DEF UsesNetworks
  <1>7. CASE Fork \/ ForkedFrom \/ ListNetworks
    BY <1>7 DEF Fork, ForkedFrom, ListNetworks, UsesNetworks
  <1>8. CASE UNCHANGED vars
    BY <1>8 DEF vars, UsesNetworks
  <1> QED
    BY <1>1, <1>2, <1>3, <1>4, <1>5, <1>6, <1>7, <1>8
       DEF Next, OverloadedInNormalOperation

\* Using the networks loads none and loses none, and keeps their order.
LEMMA UsesLemma ==
    ASSUME Good, Roomy, UsesNetworks
    PROVE  Live(networks') = Loaded /\ Roomy'
  <1>1. IsCache(networks, Nets, Networks) /\ Loaded \subseteq Keys(networks)
    BY DEF Good, TypeOK, Loaded, Live
  <1>2. CASE networks' = networks
    BY <1>2 DEF Roomy, Loaded
  <1>3. ASSUME NEW n \in Nets, n \in Loaded,
               Keys(networks') = Keys(networks), networks'.left = networks.left,
               networks'.lru = Get(networks, n).lru
        PROVE  Live(networks') = Loaded /\ Roomy'
    <2>1. Live(networks') = Loaded
      BY <1>3 DEF Live, Loaded
    <2>2. TotalOrder(networks'.lru, Keys(networks'))
      BY <1>1, <1>3, GetOrder DEF Roomy
    <2> QED
      BY <1>3, <2>1, <2>2 DEF Roomy
  <1>4. ASSUME NEW n \in Nets, Read(n) PROVE Live(networks') = Loaded /\ Roomy'
    BY <1>1, <1>3, <1>4, GetLemma DEF Read
  <1>5. ASSUME NEW n \in Nets, NEW net, Update(n, net)
        PROVE  Live(networks') = Loaded /\ Roomy'
    <2> DEFINE g == Get(networks, n)
    <2>1. /\ IsCache(g, Nets, Networks) /\ Keys(g) = Keys(networks)
          /\ g.left = networks.left
      BY <1>1, GetLemma
    <2> HIDE DEF g
    <2>2. n \in Loaded /\ networks' = [g EXCEPT !.val[n] = net]
      BY <1>5 DEF Update, g
    <2>3. /\ networks'.left = g.left /\ networks'.lru = g.lru
          /\ Keys(networks') = Keys(g)
      BY <2>1, <2>2 DEF IsCache, Keys
    <2> QED
      BY <1>3, <2>1, <2>2, <2>3 DEF g
  <1>6. ASSUME NEW order, ScanOrder(networks, order), networks' = Scan(networks, order)
        PROVE  Live(networks') = Loaded /\ Roomy'
    <2>1. networks'.val = networks.val /\ Live(networks') = Loaded
      BY <1>1, <1>6, ScanLemma DEF Loaded
    <2>2. Roomy => TotalOrder(networks'.lru, Keys(networks))
      BY <1>1, <1>6, ScanOrderLemma DEF Roomy
    <2> QED
      BY <2>1, <2>2 DEF Roomy, Keys
  <1>7. ASSUME NEW order, ScanOrder(networks, order), networks' = Copied(networks, order)
        PROVE  Live(networks') = Loaded /\ Roomy'
    <2>1. Live(networks') = Loaded
      BY <1>1, <1>7, CopiedLemma DEF Loaded
    <2>2. Keys(networks') = Loaded /\ networks'.lru = order
      BY <1>7 DEF Copied, Keys, Loaded
    <2>3. TotalOrder(networks'.lru, Keys(networks'))
      BY <1>7, <2>2 DEF ScanOrder, Loaded
    <2>4. IsFiniteSet(Loaded) /\ Cardinality(Loaded) <= Cardinality(Keys(networks))
      BY <1>1, FS_Subset DEF Roomy
    <2>5. Cardinality(Loaded) \in Nat /\ Cardinality(Keys(networks)) \in Nat
      BY <2>4, FS_CardinalityType DEF Roomy
    <2> QED
      BY <2>1, <2>2, <2>3, <2>4, <2>5, MaxSizeAssumption DEF Roomy
  <1> QED
    BY <1>2, <1>4, <1>5, <1>6, <1>7 DEF UsesNetworks

\* Removing a network keeps the others in their order, and makes one of them the
\* current one if there is any.
LEMMA RemovedLemma ==
    ASSUME Good, Roomy, NEW n \in Nets, RemoveNetwork(n)
    PROVE  /\ Roomy'
           /\ current \in Loaded => \/ current' \in Live(networks')
                                    \/ current' = NoNet /\ Live(networks') = {}
  <1> DEFINE rest == Remove(networks, n)
  <1>1. IsCache(networks, Nets, Networks)
    BY DEF Good, TypeOK
  <1>2. IsCache(rest, Nets, Networks) /\ Live(rest) = Loaded \ {n}
    BY <1>1, RemoveLemma DEF Loaded
  <1>3. Keys(rest) \subseteq Keys(networks) /\ TotalOrder(rest.lru, Keys(rest))
    <2> DEFINE S == Keys(networks) \ {n}
    <2>1. rest = Keep(networks, S) /\ TotalOrder(networks.lru, Keys(networks))
      BY DEF Remove, Roomy
    <2> HIDE DEF rest, S
    <2>2. Keys(rest) = Keys(networks) \cap S
      BY <1>1, <2>1, KeepLemma
    <2>3. TotalOrder(rest.lru, Keys(rest))
      BY <2>1, KeepOrder
    <2> QED
      BY <2>2, <2>3
  <1>4. IsFiniteSet(Keys(rest)) /\ Cardinality(Keys(rest)) <= MaxSize
    <2>1. /\ IsFiniteSet(Keys(rest))
          /\ Cardinality(Keys(rest)) <= Cardinality(Keys(networks))
          /\ Cardinality(Keys(rest)) \in Nat /\ Cardinality(Keys(networks)) \in Nat
      BY <1>3, FS_Subset, FS_CardinalityType DEF Roomy
    <2> QED
      BY <2>1, MaxSizeAssumption DEF Roomy
  <1>5. CASE networks' = rest
    <2>1. Roomy'
      BY <1>3, <1>4, <1>5 DEF Roomy
    <2>2. \/ current # n /\ current' = current
          \/ current' = NoNet /\ Live(rest) = {}
          \/ current' \in Live(rest)
      BY DEF RemoveNetwork
    <2> QED
      BY <1>2, <1>5, <2>1, <2>2
  <1>6. ASSUME NEW k \in Live(rest), networks' = Get(rest, k), current' = k
        PROVE  Roomy' /\ current' \in Live(networks')
    <2> HIDE DEF rest
    <2>1. Keys(networks') = Keys(rest) /\ Live(networks') = Live(rest)
      BY <1>2, <1>6, GetLemma
    <2>2. TotalOrder(networks'.lru, Keys(rest))
      BY <1>2, <1>3, <1>6, GetOrder
    <2> QED
      BY <1>4, <1>6, <2>1, <2>2 DEF Roomy
  <1> QED
    BY <1>5, <1>6 DEF RemoveNetwork

\* Storing a network keeps them within their room, and costs the current one its
\* place only when the room is full and another one takes it.
LEMMA RegisterLemma ==
    ASSUME Good, Roomy, NEW n \in Nets, NEW net \in Networks,
           NEW set_as_current \in BOOLEAN, RegisterNetwork(n, net, set_as_current)
    PROVE  /\ Roomy'
           /\ current \in Loaded =>
                 \/ current' \in Live(networks')
                 \/ Cardinality(Loaded) = MaxSize /\ Live(networks') \ Loaded # {}
  <1>1. IsCache(networks, Nets, Networks) /\ networks' = Put(networks, n, net)
    BY DEF Good, TypeOK, RegisterNetwork
  <1>2. /\ IsFiniteSet(Keys(networks')) /\ Cardinality(Keys(networks')) <= MaxSize
        /\ TotalOrder(networks'.lru, Keys(networks'))
        /\ \A j \in Loaded : j \notin Keys(networks') =>
              n \notin Loaded /\ Cardinality(Loaded) = MaxSize
    BY <1>1, PutOrder DEF Roomy, Loaded
  <1>3. Live(networks') = Keys(networks') /\ n \in Keys(networks')
    <2>1. n \in Keys(Put(networks, n, net))
      BY <1>1, PutLemma
    <2>2. Live(Put(networks, n, net)) = Keys(Put(networks, n, net))
      BY <1>1, PutIsLiveLemma
    <2> QED
      BY <1>1, <2>1, <2>2
  <1>4. current' \in {n, current}
    BY DEF RegisterNetwork
  <1> QED
    BY <1>2, <1>3, <1>4 DEF Roomy

\* A session's current network stays loaded until another one is stored in a full
\* cache or none is left.
THEOREM CurrentStaysLoaded == Spec => CurrentLostOnlyToRoom
  <1> DEFINE A == (current \in Loaded)
                  => \/ current' \in Live(networks')
                     \/ current' = NoNet /\ Live(networks') = {}
                     \/ Cardinality(Loaded) = MaxSize /\ Live(networks') \ Loaded # {}
  <1>1. Init => Roomy
    <2>1. ASSUME Init PROVE Keys(networks) = {} /\ networks.lru = {}
      BY <2>1 DEF Init, EmptyCache, Keys
    <2>2. IsFiniteSet({}) /\ Cardinality({}) = 0
      BY FS_EmptySet
    <2> QED
      BY <2>1, <2>2, MaxSizeAssumption DEF Roomy, TotalOrder
  <1>2. ASSUME Good, Roomy, [Next]_vars PROVE Roomy' /\ A
    <2>1. CASE UsesNetworks /\ current' \in {current} \cup Loaded
      BY <1>2, <2>1, UsesLemma
    <2>2. ASSUME NEW n \in Nets, RemoveNetwork(n) PROVE Roomy' /\ A
      BY <1>2, <2>2, RemovedLemma
    <2>3. ASSUME NEW n \in Nets, NEW net \in Networks, NEW set_as_current \in BOOLEAN,
                 RegisterNetwork(n, net, set_as_current)
          PROVE  Roomy' /\ A
      BY <1>2, <2>3, RegisterLemma
    <2> QED
      BY <1>2, <2>1, <2>2, <2>3, ToolsLemma
  <1>3. Good /\ Roomy /\ [Next]_vars => Roomy' /\ [A]_vars
    BY <1>2
  <1> QED
    BY <1>1, <1>3, GoodInit, GoodNext, PTL DEF Spec, CurrentLostOnlyToRoom
=============================================================================
