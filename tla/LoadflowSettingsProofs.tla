----------------------- MODULE LoadflowSettingsProofs -----------------------
(* The safety of LoadflowSettings, for every number of sessions, objects and *)
(* providers.                                                                *)
EXTENDS LoadflowSettings, TLAPS

(***************************************************************************)
(* The inductive invariant.  What a session runs with is what its object   *)
(* holds, so that what it asked for must be what that object holds         *)
(* (Heeded); this survives the updates of other sessions only because no   *)
(* two of them refer to the same object (Apart).                           *)
(***************************************************************************)
Apart == \A j, k \in Ids : params[j] = params[k] => j = k
Heeded == \A k \in Ids : heap[params[k]] = KeptParams(k)
Chosen == \A k \in Ids : provider[k] = KeptProvider(k)
RanAsSet ==
    ran.tool = "run_loadflow" =>
        /\ ran.session \in Ids
        /\ ran.params = KeptParams(ran.session)
        /\ ran.provider = KeptProvider(ran.session)

Sound == Apart /\ Heeded /\ Chosen /\ RanAsSet

-----------------------------------------------------------------------------
(* Types *)

LEMMA FromConfigLemma == FromConfig \in Parameters
  BY DEF FromConfig, Parameters, InitModes, ComponentModes

LEMMA NoRunLemma ==
    /\ NoRun \in [session : Ids \cup {Nobody},
                  tool : {"none", "run_loadflow", "run_security_analysis",
                          "check_voltage_violations",
                          "get_top_active_power_transit_lines"},
                  provider : Providers \cup {Default},
                  params : Parameters]
    /\ NoRun.tool = "none"
  BY FromConfigLemma DEF NoRun

\* Whatever is asked for, the parameters keep their type: an unknown name leaves
\* the default, and the deprecated name sets what exists.
LEMMA UpdatedLemma ==
    ASSUME NEW p \in Parameters, NEW r \in Requests
    PROVE  Updated(p, r) \in Parameters
  <1> DEFINE v == IF r.voltage_init_mode = "absent" THEN p.voltage_init_mode
                  ELSE Converted(r.voltage_init_mode)
             m == CASE r.component_mode # "absent" -> Converted(r.component_mode)
                    [] r.component_mode = "absent" /\ r.connected_component_mode = "MAIN" -> "MAIN_CONNECTED"
                    [] r.component_mode = "absent" /\ r.connected_component_mode = "ALL" -> "ALL_CONNECTED"
                    [] OTHER -> p.component_mode
  <1>1. v \in InitModes
    BY DEF Parameters, Requests, Converted, InitModes
  <1>2. m \in ComponentModes
    <2>1. p.component_mode \in ComponentModes
      BY DEF Parameters
    <2>2. CASE r.component_mode # "absent"
      BY <2>2 DEF Requests, Converted, ComponentModes
    <2>3. CASE r.component_mode = "absent" /\ r.connected_component_mode = "MAIN"
      BY <2>3 DEF ComponentModes
    <2>4. CASE r.component_mode = "absent" /\ r.connected_component_mode = "ALL"
      BY <2>4 DEF ComponentModes
    <2>5. CASE /\ r.component_mode = "absent"
               /\ r.connected_component_mode \notin {"MAIN", "ALL"}
      BY <2>1, <2>5
    <2> QED
      BY <2>2, <2>3, <2>4, <2>5
  <1>3. Updated(p, r) = [voltage_init_mode |-> v, component_mode |-> m]
    BY DEF Updated
  <1> QED
    BY <1>1, <1>2, <1>3 DEF Parameters

\* The tool does what was asked for: under its own name or under the deprecated
\* one, the first of them winning, and nothing for a setting not named.
LEMMA AskedForLemma ==
    ASSUME NEW p \in Parameters, NEW r \in Requests
    PROVE  AskedFor(p, r) = Updated(p, r)
  <1>1. CASE r.component_mode # "absent"
    <2>1. ModeAsked(r) = {Converted(r.component_mode)}
      BY <1>1 DEF ModeAsked
    <2>2. ModeAsked(r) # {} /\ (CHOOSE m \in ModeAsked(r) : TRUE) = Converted(r.component_mode)
      BY <2>1
    <2> QED
      BY <1>1, <2>2 DEF AskedFor, Updated
  <1>2. CASE r.component_mode = "absent" /\ r.connected_component_mode = "MAIN"
    <2>1. ModeAsked(r) = {"MAIN_CONNECTED"}
      BY <1>2 DEF ModeAsked, Deprecated
    <2>2. ModeAsked(r) # {} /\ (CHOOSE m \in ModeAsked(r) : TRUE) = "MAIN_CONNECTED"
      BY <2>1
    <2> QED
      BY <1>2, <2>2 DEF AskedFor, Updated
  <1>3. CASE r.component_mode = "absent" /\ r.connected_component_mode = "ALL"
    <2>1. ModeAsked(r) = {"ALL_CONNECTED"}
      BY <1>3 DEF ModeAsked, Deprecated
    <2>2. ModeAsked(r) # {} /\ (CHOOSE m \in ModeAsked(r) : TRUE) = "ALL_CONNECTED"
      BY <2>1
    <2> QED
      BY <1>3, <2>2 DEF AskedFor, Updated
  <1>4. CASE /\ r.component_mode = "absent"
             /\ r.connected_component_mode \in {"unknown", "absent"}
    <2>1. ModeAsked(r) = {}
      BY <1>4 DEF ModeAsked, Deprecated
    <2> QED
      BY <1>4, <2>1 DEF AskedFor, Updated
  <1> QED
    BY <1>1, <1>2, <1>3, <1>4 DEF Requests

LEMMA KeptLemma ==
    ASSUME TypeOK, NEW k \in Ids
    PROVE  KeptParams(k) \in Parameters
  BY FromConfigLemma DEF KeptParams, TypeOK

LEMMA TypeStep == TypeOK /\ [Next]_vars => TypeOK'
  <1> SUFFICES ASSUME TypeOK, [Next]_vars PROVE TypeOK'
    OBVIOUS
  <1> USE DEF TypeOK
  <1>1. ASSUME NEW k \in Ids, InitLfParamsFromConfig(k), ran' = NoRun,
               chosen' = chosen, asked' \in [Ids -> Parameters],
               lost' \in [Ids -> SUBSET {"provider", "params"}]
        PROVE  TypeOK'
    BY <1>1, FromConfigLemma, NoRunLemma, ConfiguredAssumption
    DEF InitLfParamsFromConfig, NewObjects
  <1>2. ASSUME NEW k \in Ids, NewProxy(k) PROVE TypeOK'
    BY <1>1, <1>2 DEF NewProxy
  <1>3. ASSUME NEW k \in Ids, NEW p \in Providers \cup {Default}, SetLoadflowProvider(k, p)
        PROVE  TypeOK'
    BY <1>3, NoRunLemma DEF SetLoadflowProvider
  <1>4. ASSUME NEW k \in Ids, RestoreDefaultLoadflowParam(k) PROVE TypeOK'
    BY <1>1, <1>4, FromConfigLemma DEF RestoreDefaultLoadflowParam
  <1>5. ASSUME NEW k \in Ids, NEW r \in Requests, UpdateLoadflowParams(k, r) PROVE TypeOK'
    <2>1. /\ Updated(heap[params[k]], r) \in Parameters
          /\ AskedFor(KeptParams(k), r) \in Parameters
      BY UpdatedLemma, AskedForLemma, KeptLemma
    <2> QED
      BY <1>5, <2>1, NoRunLemma DEF UpdateLoadflowParams
  <1>6. ASSUME NEW k \in Ids, NEW tgt \in Ids, DuplicateSession(k, tgt) PROVE TypeOK'
    BY <1>6, NoRunLemma DEF DuplicateSession, Copy, NewObjects
  <1>7. ASSUME NEW k \in Ids,
               NEW tool \in {"run_loadflow", "run_security_analysis",
                             "check_voltage_violations",
                             "get_top_active_power_transit_lines"},
               NEW p \in Providers \cup {Default}, NEW v \in Parameters,
               Runs(k, tool, p, v)
        PROVE  TypeOK'
    BY <1>7 DEF Runs
  <1>8. ASSUME NEW k \in Ids, RunLoadflow(k) PROVE TypeOK'
    BY <1>7, <1>8 DEF RunLoadflow
  <1>9. ASSUME NEW k \in Ids,
               RunSecurityAnalysis(k) \/ CheckVoltageViolations(k)
                  \/ GetTopActivePowerTransitLines(k)
        PROVE  TypeOK'
    BY <1>7, <1>9, FromConfigLemma
    DEF RunSecurityAnalysis, CheckVoltageViolations, GetTopActivePowerTransitLines
  <1>10. CASE UNCHANGED vars
    BY <1>10 DEF vars
  <1> QED
    BY <1>2, <1>3, <1>4, <1>5, <1>6, <1>8, <1>9, <1>10 DEF Next

\* The settings always have their types: no name the tool is given, known or
\* not, leaves a value that is not one of the parameter's.
THEOREM SettingsTypeCorrect == Spec => []TypeOK
  <1>1. Init => TypeOK
    BY FromConfigLemma, NoRunLemma, ConfiguredAssumption DEF Init, TypeOK
  <1> QED
    BY <1>1, TypeStep, PTL DEF Spec

-----------------------------------------------------------------------------
(* The objects *)

\* Taking a new object, which holds v, is seen by no other session.
LEMMA NewObjectLemma ==
    ASSUME TypeOK, Apart, NEW k \in Ids, NEW o \in NewObjects(k), NEW v,
           params' = [params EXCEPT ![k] = o],
           heap' = [heap EXCEPT ![o] = v]
    PROVE  /\ Apart'
           /\ heap'[params'[k]] = v
           /\ \A j \in Ids \ {k} : params'[j] = params[j] /\ heap'[params'[j]] = heap[params[j]]
  <1>1. o \in Objects /\ \A j \in Ids \ {k} : params[j] # o
    BY DEF NewObjects
  <1>2. params'[k] = o /\ \A j \in Ids \ {k} : params'[j] = params[j]
    BY DEF TypeOK
  <1>3. heap'[o] = v /\ \A j \in Ids \ {k} : heap'[params[j]] = heap[params[j]]
    BY <1>1 DEF TypeOK
  <1>4. Apart'
    BY <1>1, <1>2 DEF Apart
  <1> QED
    BY <1>2, <1>3, <1>4

\* What a step does to the settings of the sessions: at most one of them has
\* other ones afterwards, and they are the ones that are expected.
OnlyFor(k) ==
    /\ Apart'
    /\ \A j \in Ids \ {k} : /\ provider'[j] = provider[j]
                            /\ heap'[params'[j]] = heap[params[j]]
                            /\ asked'[j] = asked[j]
                            /\ chosen'[j] = chosen[j]
                            /\ lost'[j] = lost[j]
    /\ heap'[params'[k]] = KeptParams(k)'
    /\ provider'[k] = KeptProvider(k)'

LEMMA OnlyForStep ==
    ASSUME TypeOK, Sound, [Next]_vars, ~UNCHANGED vars
    PROVE  (\E k \in Ids : OnlyFor(k)) /\ RanAsSet'
  <1> USE DEF Sound, KeptParams, KeptProvider
  <1>0. ran' = NoRun => RanAsSet'
    BY NoRunLemma DEF RanAsSet
  <1>1. ASSUME NEW k \in Ids, InitLfParamsFromConfig(k), chosen' = chosen,
               NEW l, lost' = [lost EXCEPT ![k] = l], "provider" \in l,
               \/ asked' = asked /\ "params" \in l
               \/ asked' = [asked EXCEPT ![k] = FromConfig]
        PROVE  OnlyFor(k)
    <2>1. PICK o \in NewObjects(k) : /\ params' = [params EXCEPT ![k] = o]
                                     /\ heap' = [heap EXCEPT ![o] = FromConfig]
      BY <1>1 DEF InitLfParamsFromConfig
    <2>2. /\ Apart'
          /\ heap'[params'[k]] = FromConfig
          /\ \A j \in Ids \ {k} : params'[j] = params[j] /\ heap'[params'[j]] = heap[params[j]]
      BY <2>1, NewObjectLemma, Zenon
    <2>3. provider' = [provider EXCEPT ![k] = Configured]
      BY <1>1 DEF InitLfParamsFromConfig
    <2>4. /\ provider'[k] = Configured
          /\ lost'[k] = l
          /\ "params" \in l \/ asked'[k] = FromConfig
          /\ \A j \in Ids \ {k} : /\ provider'[j] = provider[j]
                                  /\ asked'[j] = asked[j]
                                  /\ lost'[j] = lost[j]
      BY <2>3, <1>1 DEF TypeOK
    <2>5. KeptParams(k)' = FromConfig /\ KeptProvider(k)' = Configured
      BY <1>1, <2>4
    <2> QED
      BY <1>1, <2>2, <2>4, <2>5 DEF OnlyFor
  <1>2. ASSUME NEW k \in Ids, NewProxy(k) PROVE OnlyFor(k) /\ RanAsSet'
    BY <1>0, <1>1, <1>2 DEF NewProxy
  <1>3. ASSUME NEW k \in Ids, NEW p \in Providers \cup {Default}, SetLoadflowProvider(k, p)
        PROVE  OnlyFor(k) /\ RanAsSet'
    BY <1>0, <1>3 DEF SetLoadflowProvider, OnlyFor, Apart, Heeded, TypeOK
  <1>4. ASSUME NEW k \in Ids, RestoreDefaultLoadflowParam(k)
        PROVE  OnlyFor(k) /\ RanAsSet'
    BY <1>0, <1>1, <1>4 DEF RestoreDefaultLoadflowParam
  <1>5. ASSUME NEW k \in Ids, NEW r \in Requests, UpdateLoadflowParams(k, r)
        PROVE  OnlyFor(k) /\ RanAsSet'
    <2> DEFINE v == AskedFor(KeptParams(k), r)
    <2>1. v = Updated(heap[params[k]], r)
      BY KeptLemma, AskedForLemma DEF Heeded
    <2>2. /\ heap' = [heap EXCEPT ![params[k]] = v]
          /\ asked' = [asked EXCEPT ![k] = v]
          /\ lost' = [lost EXCEPT ![k] = @ \ {"params"}]
          /\ ran' = NoRun
          /\ UNCHANGED <<provider, params, chosen>>
      BY <1>5, <2>1 DEF UpdateLoadflowParams
    <2> HIDE DEF v
    <2>3. \A j \in Ids \ {k} : params[j] # params[k]
      BY DEF Apart
    <2>4. /\ heap'[params'[k]] = v /\ asked'[k] = v
          /\ lost'[k] = lost[k] \ {"params"}
          /\ \A j \in Ids \ {k} : /\ heap'[params'[j]] = heap[params[j]]
                                  /\ asked'[j] = asked[j]
                                  /\ lost'[j] = lost[j]
      BY <2>2, <2>3 DEF TypeOK
    <2>5. Apart'
      BY <2>2 DEF Apart
    <2>6. KeptParams(k)' = v /\ provider'[k] = KeptProvider(k)'
      BY <2>2, <2>4 DEF Chosen
    <2> QED
      BY <1>0, <2>2, <2>4, <2>5, <2>6 DEF OnlyFor
  <1>6. ASSUME NEW k \in Ids, NEW tgt \in Ids, DuplicateSession(k, tgt)
        PROVE  OnlyFor(tgt) /\ RanAsSet'
    <2>1. PICK o \in NewObjects(tgt) : /\ params' = [params EXCEPT ![tgt] = o]
                                       /\ heap' = [heap EXCEPT ![o] = heap[params[k]]]
      BY <1>6 DEF DuplicateSession, Copy
    <2>2. /\ Apart'
          /\ heap'[params'[tgt]] = heap[params[k]]
          /\ \A j \in Ids \ {tgt} : params'[j] = params[j] /\ heap'[params'[j]] = heap[params[j]]
      BY <2>1, NewObjectLemma, Zenon
    <2>3. /\ provider' = [provider EXCEPT ![tgt] = provider[k]]
          /\ chosen' = [chosen EXCEPT ![tgt] = chosen[k]]
          /\ asked' = [asked EXCEPT ![tgt] = asked[k]]
          /\ lost' = [lost EXCEPT ![tgt] = lost[k]]
          /\ ran' = NoRun
      BY <1>6 DEF DuplicateSession, Copy
    <2>4. /\ provider'[tgt] = provider[k]
          /\ chosen'[tgt] = chosen[k]
          /\ asked'[tgt] = asked[k]
          /\ lost'[tgt] = lost[k]
          /\ \A j \in Ids \ {tgt} : /\ provider'[j] = provider[j]
                                    /\ asked'[j] = asked[j]
                                    /\ chosen'[j] = chosen[j]
                                    /\ lost'[j] = lost[j]
      BY <2>3 DEF TypeOK
    <2>5. heap[params[k]] = KeptParams(k) /\ provider[k] = KeptProvider(k)
      BY DEF Heeded, Chosen
    <2>6. KeptParams(tgt)' = KeptParams(k) /\ KeptProvider(tgt)' = KeptProvider(k)
      BY <2>4
    <2> QED
      BY <1>0, <2>2, <2>3, <2>4, <2>5, <2>6 DEF OnlyFor
  <1>7. ASSUME NEW k \in Ids,
               UNCHANGED <<provider, params, heap, chosen, asked, lost>>
        PROVE  OnlyFor(k)
    BY <1>7 DEF OnlyFor, Apart, Heeded, Chosen
  <1>8. ASSUME NEW k \in Ids, RunLoadflow(k) PROVE OnlyFor(k) /\ RanAsSet'
    BY <1>7, <1>8 DEF RunLoadflow, Runs, Heeded, Chosen, RanAsSet
  <1>9. ASSUME NEW k \in Ids,
               RunSecurityAnalysis(k) \/ CheckVoltageViolations(k)
                  \/ GetTopActivePowerTransitLines(k)
        PROVE  OnlyFor(k) /\ RanAsSet'
    BY <1>7, <1>9
    DEF RunSecurityAnalysis, CheckVoltageViolations, GetTopActivePowerTransitLines, Runs,
        RanAsSet
  <1> QED
    BY <1>2, <1>3, <1>4, <1>5, <1>6, <1>8, <1>9 DEF Next

LEMMA SoundStep == TypeOK /\ Sound /\ [Next]_vars => Sound'
  <1> SUFFICES ASSUME TypeOK, Sound, [Next]_vars PROVE Sound'
    OBVIOUS
  <1>1. CASE UNCHANGED vars
    BY <1>1
    DEF vars, Sound, Apart, Heeded, Chosen, RanAsSet, KeptParams, KeptProvider
  <1>2. CASE ~UNCHANGED vars
    <2>1. PICK k \in Ids : OnlyFor(k)
      BY <1>2, OnlyForStep
    <2>2. \A j \in Ids \ {k} : /\ KeptParams(j)' = KeptParams(j)
                              /\ KeptProvider(j)' = KeptProvider(j)
      BY <2>1 DEF OnlyFor, KeptParams, KeptProvider
    <2>3. Heeded' /\ Chosen'
      <3>1. ASSUME NEW j \in Ids
            PROVE  heap'[params'[j]] = KeptParams(j)' /\ provider'[j] = KeptProvider(j)'
        BY <2>1, <2>2 DEF OnlyFor, Sound, Heeded, Chosen
      <3> QED
        BY <3>1 DEF Heeded, Chosen
    <2>4. Apart' /\ RanAsSet'
      BY <1>2, <2>1, OnlyForStep DEF OnlyFor
    <2> QED
      BY <2>3, <2>4 DEF Sound
  <1> QED
    BY <1>1, <1>2

LEMMA SoundInit == Init => Sound
  BY NoRunLemma
  DEF Init, Sound, Apart, Heeded, Chosen, RanAsSet, KeptParams, KeptProvider

\* A load flow is run with the parameters its client asked for, through any
\* updates under either name, restores and forks of any number of sessions; with
\* the configuration's only when the session was lost since they were shown.
THEOREM RunsAreAsAsked == Spec => []RunsAsAsked
  <1>1. Sound => RunsAsAsked
    BY DEF Sound, RanAsSet, RunsAsAsked
  <1> QED
    BY <1>1, SoundInit, SoundStep, SettingsTypeCorrect, PTL DEF Spec

\* Its provider is the one last chosen for the session or for the one it was
\* forked from; the configured one only when the session was lost or restored
\* since.
THEOREM ProvidersAreChosen == Spec => []RunsWithChosenProvider
  <1>1. Sound => RunsWithChosenProvider
    BY DEF Sound, RanAsSet, RunsWithChosenProvider
  <1> QED
    BY <1>1, SoundInit, SoundStep, SettingsTypeCorrect, PTL DEF Spec

\* No step changes the settings of two sessions.
THEOREM SettingsStayPrivate == Spec => SettingsArePrivate
  <1> DEFINE Alone ==
          \A j, k \in Ids : Settings(j)' # Settings(j) /\ Settings(k)' # Settings(k) => j = k
  <1>1. ASSUME TypeOK, Sound, [Next]_vars PROVE [Alone]_vars
    <2>1. CASE UNCHANGED vars
      BY <2>1
    <2>2. CASE ~UNCHANGED vars
      <3>1. PICK k \in Ids : OnlyFor(k)
        BY <2>2, <1>1, OnlyForStep
      <3>2. \A j \in Ids \ {k} : Settings(j)' = Settings(j)
        BY <3>1 DEF OnlyFor, Settings
      <3> QED
        BY <3>2
    <2> QED
      BY <2>1, <2>2
  <1> QED
    BY <1>1, SoundInit, SoundStep, SettingsTypeCorrect, PTL DEF Spec, SettingsArePrivate
=============================================================================
