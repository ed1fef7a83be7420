----------------------------- MODULE Workspace -----------------------------
(***************************************************************************)
(* What one session holds (proxy.py) and the tools that work on it: the    *)
(* loaded networks with their variants, the current network, the cached    *)
(* load-flow results and the security results.                             *)
(*                                                                         *)
(* A network is seen through what its flow columns stand for.  It is a     *)
(* record                                                                  *)
(*   working   its working variant, NoVariant when none is set;            *)
(*   flows     for each of its variants, what its flow values are:         *)
(*             "none"      there are none,                                 *)
(*             "ac", "dc"  a converged load flow of the variant as it is,  *)
(*             "failed"    what a load flow that did not converge left,    *)
(*             "old"       values of an earlier state of the variant, or   *)
(*                         that came with the file.                        *)
(* A network has lines, and one that is solved has a flow on one of them.  *)
(*                                                                         *)
(* No clock runs here: the networks of a session are stored after it and   *)
(* live as long (GRID_TTL = CLIENT_SESSION_TTL), so that what a session    *)
(* loses it loses by capacity.  Every tool stretch is one action, as in    *)
(* Sessions; a call that resolves no network changes nothing.              *)
(***************************************************************************)
EXTENDS TTLCache

CONSTANTS
    Nets,       \* network ids
    Variants,   \* variant ids, Initial included
    Initial,    \* "InitialState", the variant every network starts with
    NoVariant,  \* no working variant
    NoNet       \* no current network

ASSUME InitialAssumption == Initial \in Variants
ASSUME NoVariantAssumption == NoVariant \notin Variants
ASSUME NoNetAssumption == NoNet \notin Nets

VARIABLES
    networks,   \* proxy.networks
    loadflow,   \* proxy.loadflow_results: the outcome recorded for a network
    security,   \* the keys of proxy.security_results, a plain dict
    current,    \* proxy.current_network_id
    excused     \* history: the networks that were evicted, replaced, or had
                \* their working variant removed since their last load flow

vars == <<networks, loadflow, security, current, excused>>

Flows == {"none", "ac", "dc", "failed", "old"}
Outcomes == {"ac", "dc", "failed"}

Networks ==
    UNION {[working : S \cup {NoVariant}, flows : [S -> Flows]] :
              S \in {T \in SUBSET Variants : Initial \in T}}

\* Every value has its type, a working variant is one the network has, and no
\* network ever loses its initial variant.
TypeOK ==
    /\ IsCache(networks, Nets, Networks)
    /\ IsCache(loadflow, Nets, Outcomes)
    /\ security \subseteq Nets
    /\ current \in Nets \cup {NoNet}
    /\ excused \subseteq Nets

Init ==
    /\ networks = EmptyCache
    /\ loadflow = EmptyCache
    /\ security = {}
    /\ current = NoNet
    /\ excused = {}

Loaded == Live(networks)

-----------------------------------------------------------------------------
(* Network objects.  pypowsybl refuses to work on a variant that is not     *)
(* there, and to clone into one that is.                                    *)

\* A network as it is created, or loaded from a file with its flows.
NewNetworks == {[working |-> Initial, flows |-> [v \in {Initial} |-> f]] :
                   f \in {"none", "old"}}

IsSet(net) == net.working # NoVariant

\* The working variant's flows are now those of f.
Solved(net, f) == [net EXCEPT !.flows[net.working] = f]

\* Some element of the working variant has changed.
Changed(net) ==
    [net EXCEPT !.flows[net.working] = IF @ = "none" THEN "none" ELSE "old"]

Cloned(net, base, v) ==
    [net EXCEPT !.flows = [w \in DOMAIN @ \cup {v} |->
                              IF w = v THEN @[base] ELSE @[w]]]

\* A slip: the network still works on the variant that is gone.
WithoutFallback(net, v, fallback) ==
    LET S == DOMAIN net.flows \ {v}
    IN  [working |-> net.working, flows |-> [w \in S |-> net.flows[w]]]

\* Variant v is gone; when it was the working one, fallback is made the
\* working variant afterwards, which fails if there is no such variant.
WithoutVariant(net, v, fallback) ==
    LET S == DOMAIN net.flows \ {v}
    IN  [working |-> IF net.working # v THEN net.working
                     ELSE IF fallback \in S THEN fallback
                     ELSE NoVariant,
         flows   |-> [w \in S |-> net.flows[w]]]

-----------------------------------------------------------------------------
(* The proxy *)

\* resolve_network: the network a tool was given, or the current one, when it
\* is loaded.  Reading it makes it the most recently used.
Read(n) ==
    /\ n \in Loaded
    /\ networks' = Get(networks, n)

\* The same, and the tool leaves the network as net.
Update(n, net) ==
    /\ n \in Loaded
    /\ networks' = [Get(networks, n) EXCEPT !.val[n] = net]

\* invalidate_loadflow: pop with a default.
InvalidateLoadflow(n) ==
    /\ loadflow' = IF n \in Live(loadflow) THEN Remove(loadflow, n) ELSE loadflow
    /\ excused' = excused \ {n}

RecordLoadflow(n, outcome) ==
    /\ loadflow' = Put(loadflow, n, outcome)
    /\ excused' = excused \ {n}

\* register_network: store it, whatever is there under its id, and maybe make
\* it the current one.
RegisterNetwork(n, net, set_as_current) ==
    /\ networks' = Put(networks, n, net)
    /\ current' = IF set_as_current THEN n ELSE current
    /\ excused' = excused \cup (Loaded \cap {n}) \cup (Loaded \ Live(networks'))
    /\ UNCHANGED <<loadflow, security>>

\* The entries of c inserted one after the other into an empty cache of the
\* same size: none is evicted.
Copied(c, order) ==
    [val |-> [k \in Live(c) |-> c.val[k]], left |-> [k \in Live(c) |-> TTL],
     lru |-> order]

\* copy(): the session goes on in its fork.
Fork ==
    /\ \E order \in SUBSET (Loaded \X Loaded) :
          ScanOrder(networks, order) /\ networks' = Copied(networks, order)
    /\ \E order \in SUBSET (Live(loadflow) \X Live(loadflow)) :
          ScanOrder(loadflow, order) /\ loadflow' = Copied(loadflow, order)
    /\ UNCHANGED <<security, current, excused>>

\* copy(): the session goes on in the source, whose entries were all read.
ForkedFrom ==
    /\ \E order \in SUBSET (Loaded \X Loaded) :
          ScanOrder(networks, order) /\ networks' = Scan(networks, order)
    /\ \E order \in SUBSET (Live(loadflow) \X Live(loadflow)) :
          ScanOrder(loadflow, order) /\ loadflow' = Scan(loadflow, order)
    /\ UNCHANGED <<security, current, excused>>

-----------------------------------------------------------------------------
(* Tools that load, select and remove networks *)

CreateIeeeNetwork(n, set_as_current) ==
    RegisterNetwork(n, [working |-> Initial, flows |-> [v \in {Initial} |-> "none"]],
                    set_as_current)

\* load_network_from_file, and load_network_from_url once it has downloaded.
LoadNetwork(n, set_as_current) ==
    \E net \in NewNetworks : RegisterNetwork(n, net, set_as_current)

SwitchNetwork(n) ==
    /\ Read(n)
    /\ current' = n
    /\ UNCHANGED <<loadflow, security, excused>>

\* list_networks reads each network in turn for its summary; so does the admin
\* API when it is asked for element counts.
ListNetworks ==
    /\ \E order \in SUBSET (Loaded \X Loaded) :
          ScanOrder(networks, order) /\ networks' = Scan(networks, order)
    /\ UNCHANGED <<loadflow, security, current, excused>>

\* A slip: the current network is forgotten while others are loaded.
RemoveWithoutSwitch(n) ==
    /\ n \in Loaded
    /\ InvalidateLoadflow(n)
    /\ networks' = Remove(networks, n)
    /\ current' = IF current = n THEN NoNet ELSE current
    /\ UNCHANGED security

\* remove_network: when the network was the current one, the oldest of the
\* others takes its place.
RemoveNetwork(n) ==
    LET rest == Remove(networks, n)
    IN  /\ n \in Loaded
        /\ InvalidateLoadflow(n)
        /\ \/ /\ current # n
              /\ networks' = rest
              /\ UNCHANGED current
           \/ /\ current = n /\ Live(rest) = {}
              /\ networks' = rest
              /\ current' = NoNet
           \/ /\ current = n
              /\ \E k \in Live(rest) :
                    /\ \A j \in Live(rest) : rest.left[k] <= rest.left[j]
                    /\ networks' = Get(rest, k)
                    /\ current' = k
        /\ UNCHANGED security

-----------------------------------------------------------------------------
(* Tools that change a network *)

\* Drop the cached result, look the element up, and change it if it is there
\* and accepts the value.
InvalidateThenChange(n) ==
    /\ InvalidateLoadflow(n)
    /\ \/ Read(n)
       \/ IsSet(networks.val[n]) /\ Update(n, Changed(networks.val[n]))
    /\ UNCHANGED <<security, current>>

ModifyNetwork(n) == n \in Loaded /\ InvalidateThenChange(n)

SetLineStatus(n) == n \in Loaded /\ InvalidateThenChange(n)

SetSwitchStatus(n) == n \in Loaded /\ InvalidateThenChange(n)

\* set_tap_position checks everything first: a refused change drops nothing.
SetTapPosition(n) ==
    /\ n \in Loaded
    /\ \/ /\ Read(n)
          /\ UNCHANGED <<loadflow, security, current, excused>>
       \/ IsSet(networks.val[n]) /\ InvalidateThenChange(n)

-----------------------------------------------------------------------------
(* Variants *)

CloneVariant(n, v, base) ==
    /\ n \in Loaded
    /\ LET net == networks.val[n]
       IN  IF base \in DOMAIN net.flows /\ v \notin DOMAIN net.flows
           THEN Update(n, Cloned(net, base, v))
           ELSE Read(n)
    /\ UNCHANGED <<loadflow, security, current, excused>>

\* A slip: the cached result survives the switch.
SwitchVariantOnly(n, v) ==
    /\ n \in Loaded
    /\ LET net == networks.val[n]
       IN  IF v \in DOMAIN net.flows THEN Update(n, [net EXCEPT !.working = v])
                                      ELSE Read(n)
    /\ UNCHANGED <<loadflow, security, current, excused>>

\* The cached result goes once the switch has succeeded.
SetWorkingVariant(n, v) ==
    /\ n \in Loaded
    /\ LET net == networks.val[n]
       IN  IF v \in DOMAIN net.flows
           THEN Update(n, [net EXCEPT !.working = v]) /\ InvalidateLoadflow(n)
           ELSE Read(n) /\ UNCHANGED <<loadflow, excused>>
    /\ UNCHANGED <<security, current>>

\* remove_variant: asking for the working variant fails when there is none.
RemoveVariant(n, v, fallback) ==
    /\ n \in Loaded
    /\ v # Initial
    /\ LET net == networks.val[n]
       IN  IF IsSet(net) /\ v \in DOMAIN net.flows
           THEN /\ Update(n, WithoutVariant(net, v, fallback))
                /\ excused' = IF net.working = v THEN excused \cup {n} ELSE excused
           ELSE Read(n) /\ UNCHANGED excused
    /\ UNCHANGED <<loadflow, security, current>>

-----------------------------------------------------------------------------
(* Analyses *)

\* run_loadflow: the outcome is recorded, converged or not; when pypowsybl
\* raises, nothing is.
RunLoadflow(n) ==
    /\ n \in Loaded
    /\ \/ /\ Read(n)
          /\ UNCHANGED <<loadflow, excused>>
       \/ /\ IsSet(networks.val[n])
          /\ \E outcome \in Outcomes :
                /\ Update(n, Solved(networks.val[n], outcome))
                /\ RecordLoadflow(n, outcome)
    /\ UNCHANGED <<security, current>>

\* check_voltage_violations runs an AC load flow when none is cached, and
\* records it only when it converged.  Nothing changes when one is, or when
\* pypowsybl raises.
CheckVoltageViolations(n) ==
    /\ n \in Loaded
    /\ \/ /\ Read(n)
          /\ UNCHANGED <<loadflow, excused>>
       \/ /\ n \notin Live(loadflow) /\ IsSet(networks.val[n])
          /\ \/ /\ Update(n, Solved(networks.val[n], "ac"))
                /\ RecordLoadflow(n, "ac")
             \/ /\ Update(n, Solved(networks.val[n], "failed"))
                /\ UNCHANGED <<loadflow, excused>>
    /\ UNCHANGED <<security, current>>

\* get_top_active_power_transit_lines runs one when the lines have no flow
\* values, as before any load flow and maybe after a failed one, and records
\* nothing.
GetTopActivePowerTransitLines(n) ==
    /\ n \in Loaded
    /\ LET net == networks.val[n]
       IN  \/ Read(n)
           \/ /\ IsSet(net) /\ net.flows[net.working] \in {"none", "failed"}
              /\ \E f \in {"ac", "failed"} : Update(n, Solved(net, f))
    /\ UNCHANGED <<loadflow, security, current, excused>>

Visited(net, v) == [net EXCEPT !.working = v]

\* get_network_element_data visits the variant it is asked for, initial unless
\* told another, and comes back to the working one, whatever went wrong there.
GetNetworkElementData(n, v) ==
    /\ n \in Loaded
    /\ LET net == networks.val[n]
       IN  IF IsSet(net) /\ v \in DOMAIN net.flows
           THEN Update(n, Visited(Visited(net, v), net.working))
           ELSE Read(n)
    /\ UNCHANGED <<loadflow, security, current, excused>>

\* get_overloaded_elements(study = "n") asks for the element data of no variant.
OverloadedInNormalOperation(n) == GetNetworkElementData(n, Initial)

\* The sensitivity analyses, and every other tool that only reads the network
\* or writes it to a file.
Inspect(n) ==
    /\ Read(n)
    /\ UNCHANGED <<loadflow, security, current, excused>>

\* run_security_analysis: a note is left that the network has been analysed.
RunSecurityAnalysis(n) ==
    /\ Read(n)
    /\ \/ security' = security \cup {n}
       \/ UNCHANGED security
    /\ UNCHANGED <<loadflow, current, excused>>

\* What get_overloaded_elements(study = "n1") demands of the cached result.
Accepted(n) == n \in Live(loadflow) /\ loadflow.val[n] # "failed"

\* get_overloaded_elements(study = "n1").
OverloadedAfterContingencies(n) ==
    /\ Read(n)
    /\ loadflow' = Get(loadflow, n)
    /\ \/ Accepted(n) /\ security' = security \cup {n}
       \/ UNCHANGED security
    /\ UNCHANGED <<current, excused>>

-----------------------------------------------------------------------------
Next ==
    \/ Fork
    \/ ForkedFrom
    \/ ListNetworks
    \/ \E n \in Nets :
          \/ \E set_as_current \in BOOLEAN :
                CreateIeeeNetwork(n, set_as_current) \/ LoadNetwork(n, set_as_current)
          \/ SwitchNetwork(n)
          \/ RemoveNetwork(n)
          \/ ModifyNetwork(n) \/ SetLineStatus(n) \/ SetSwitchStatus(n)
          \/ SetTapPosition(n)
          \/ \E v, w \in Variants : CloneVariant(n, v, w) \/ RemoveVariant(n, v, w)
          \/ \E v \in Variants : SetWorkingVariant(n, v)
          \/ RunLoadflow(n)
          \/ CheckVoltageViolations(n)
          \/ GetTopActivePowerTransitLines(n)
          \/ \E v \in Variants : GetNetworkElementData(n, v)
          \/ OverloadedInNormalOperation(n)
          \/ Inspect(n)
          \/ RunSecurityAnalysis(n)
          \/ OverloadedAfterContingencies(n)

Spec == Init /\ [][Next]_vars

-----------------------------------------------------------------------------
(* Properties *)

\* The result is a converged one, and the working variant's flows are its.
Holds(n) ==
    LET net == networks.val[n]
    IN  IsSet(net) /\ net.flows[net.working] = loadflow.val[n]

\* A converged result the session has for a network is that of its working
\* variant as it stands, through every change, switch, clone, fork and removal,
\* unless the network was evicted or replaced, or its working variant removed,
\* since.  An N-1 study, which asks for such a result, starts from it.
ConvergedResultsHold ==
    \A n \in Loaded : Accepted(n) /\ n \notin excused => Holds(n)

\* The session's current network stops being loaded in two ways only: another
\* network is stored in a full cache, or no network is left.
CurrentLostOnlyToRoom ==
    [][(current \in Loaded)
       => \/ current' \in Live(networks')
          \/ current' = NoNet /\ Live(networks') = {}
          \/ Cardinality(Loaded) = MaxSize /\ Live(networks') \ Loaded # {}]_vars

-----------------------------------------------------------------------------
(* What the documentation says and the code does not do *)

\* "otherwise the cached solution is reused" (network_tools.py:1245): what
\* check_voltage_violations reuses is a solution.
ReusedIsSolution ==
    \A n \in Loaded :
       n \in Live(loadflow) /\ n \notin excused /\ IsSet(networks.val[n])
       => networks.val[n].flows[networks.val[n].working] \in {"ac", "dc"}
=============================================================================
