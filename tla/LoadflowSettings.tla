--------------------------- MODULE LoadflowSettings ---------------------------
(***************************************************************************)
(* The load-flow settings of the sessions: the provider and the Parameters *)
(* object of each session's proxy (proxy.py), the tools that change them   *)
(* (loadflow_tools.py), the fork that copies them, and the tools that      *)
(* solve or analyse a network and take settings from somewhere.            *)
(*                                                                         *)
(* Of the parameters two are kept: voltage_init_mode, which stands for     *)
(* those that are set as they come, and component_mode, which its          *)
(* deprecated name connected_component_mode also sets.  The tools are      *)
(* coroutines without an await: each one is an action.                     *)
(***************************************************************************)
EXTENDS FiniteSets

CONSTANTS
    Ids,        \* session ids
    Objects,    \* identities of pypowsybl Parameters objects
    Providers,  \* pp.loadflow.get_provider_names()
    Configured, \* the provider in LF_default_parameters.toml
    Default,    \* "", the provider pypowsybl takes by itself
    Nobody      \* no session

ASSUME ConfiguredAssumption == Configured \in Providers
ASSUME DefaultAssumption == Default \notin Providers
ASSUME NobodyAssumption == Nobody \notin Ids

VARIABLES
    provider,  \* provider[k]: proxy.lf_provider of session k
    params,    \* params[k]: the object that proxy.lf_params refers to
    heap,      \* heap[o]: what object o holds
    chosen,    \* history: the provider last chosen for session k, by its client
               \* or for the session it was forked from
    asked,     \* history: the parameters asked for session k, likewise, by name
               \* and on top of those last shown
    lost,      \* history: which of the two were reset since, unknown to the client
    ran        \* history: the solver run of this step, or NoRun

vars == <<provider, params, heap, chosen, asked, lost, ran>>

\* None makes pypowsybl take the default of its own configuration.
InitModes == {"UNIFORM_VALUES", "DC_VALUES", "None"}
ComponentModes == {"MAIN_CONNECTED", "ALL_CONNECTED", "MAIN_SYNCHRONOUS", "None"}
Parameters == [voltage_init_mode : InitModes, component_mode : ComponentModes]

\* What the tool may be asked to set: known names, unknown ones, or nothing.
Requests ==
    [voltage_init_mode        : {"UNIFORM_VALUES", "DC_VALUES", "unknown", "absent"},
     component_mode           : {"ALL_CONNECTED", "MAIN_SYNCHRONOUS", "unknown", "absent"},
     connected_component_mode : {"MAIN", "ALL", "unknown", "absent"}]

\* Parameters(**config): the file sets the initial mode, the rest is pypowsybl's.
FromConfig == [voltage_init_mode |-> "UNIFORM_VALUES",
               component_mode    |-> "MAIN_CONNECTED"]

NoRun == [session |-> Nobody, tool |-> "none", provider |-> Default, params |-> FromConfig]

TypeOK ==
    /\ provider \in [Ids -> Providers \cup {Default}]
    /\ params \in [Ids -> Objects]
    /\ heap \in [Objects -> Parameters]
    /\ chosen \in [Ids -> Providers \cup {Default}]
    /\ asked \in [Ids -> Parameters]
    /\ lost \in [Ids -> SUBSET {"provider", "params"}]
    /\ ran \in [session : Ids \cup {Nobody},
                tool : {"none", "run_loadflow", "run_security_analysis",
                        "check_voltage_violations",
                        "get_top_active_power_transit_lines"},
                provider : Providers \cup {Default},
                params : Parameters]

\* The objects a new one can be told from, its own session's old one excepted.
NewObjects(k) == Objects \ {params[j] : j \in Ids \ {k}}

Init ==
    /\ provider = [k \in Ids |-> Configured]
    /\ params \in [Ids -> Objects]
    /\ \A j, k \in Ids : params[j] = params[k] => j = k
    /\ heap = [o \in Objects |-> FromConfig]
    /\ chosen = [k \in Ids |-> Configured]
    /\ asked = [k \in Ids |-> FromConfig]
    /\ lost = [k \in Ids |-> {}]
    /\ ran = NoRun

-----------------------------------------------------------------------------
(* The settings *)

\* init_lf_params_from_config, in a new proxy and in restore_default...: a new
\* object from the file, and the provider of the file.
InitLfParamsFromConfig(k) ==
    /\ provider' = [provider EXCEPT ![k] = Configured]
    /\ \E o \in NewObjects(k) :
          /\ params' = [params EXCEPT ![k] = o]
          /\ heap' = [heap EXCEPT ![o] = FromConfig]

\* The session is lost, for want of room or at the end of its TTL, and created
\* again by its next call; its client is told nothing of it.
NewProxy(k) ==
    /\ InitLfParamsFromConfig(k)
    /\ lost' = [lost EXCEPT ![k] = {"provider", "params"}]
    /\ ran' = NoRun
    /\ UNCHANGED <<chosen, asked>>

\* set_loadflow_provider: an unknown name is refused.
SetLoadflowProvider(k, p) ==
    /\ p \in Providers \cup {Default}
    /\ provider' = [provider EXCEPT ![k] = p]
    /\ chosen' = [chosen EXCEPT ![k] = p]
    /\ lost' = [lost EXCEPT ![k] = @ \ {"provider"}]
    /\ ran' = NoRun
    /\ UNCHANGED <<params, heap, asked>>

\* restore_default_loadflow_param: the answer shows the parameters, not the
\* provider.
RestoreDefaultLoadflowParam(k) ==
    /\ InitLfParamsFromConfig(k)
    /\ asked' = [asked EXCEPT ![k] = FromConfig]
    /\ lost' = [lost EXCEPT ![k] = {"provider"}]
    /\ ran' = NoRun
    /\ UNCHANGED chosen

\* A slip: an unknown name is passed on as it is.
ConvertedAsGiven(name) == name

\* The enumerations are converted with dict.get: an unknown name becomes None.
Converted(name) == IF name = "unknown" THEN "None" ELSE name

\* A slip: the deprecated name wins over the one that replaces it.
UpdatedByOldName(p, r) ==
    [voltage_init_mode |->
        IF r.voltage_init_mode = "absent" THEN p.voltage_init_mode
        ELSE Converted(r.voltage_init_mode),
     component_mode |->
        CASE r.connected_component_mode = "MAIN" -> "MAIN_CONNECTED"
          [] r.connected_component_mode = "ALL" -> "ALL_CONNECTED"
          [] r.component_mode # "absent" -> Converted(r.component_mode)
          [] OTHER -> p.component_mode]

\* update_lf_params: the deprecated name sets component_mode unless that is
\* given too; an unknown value of it is dropped.
Updated(p, r) ==
    [voltage_init_mode |->
        IF r.voltage_init_mode = "absent" THEN p.voltage_init_mode
        ELSE Converted(r.voltage_init_mode),
     component_mode |->
        CASE r.component_mode # "absent" -> Converted(r.component_mode)
          [] r.component_mode = "absent" /\ r.connected_component_mode = "MAIN" -> "MAIN_CONNECTED"
          [] r.component_mode = "absent" /\ r.connected_component_mode = "ALL" -> "ALL_CONNECTED"
          [] OTHER -> p.component_mode]

\* The parameters the client of session k expects: those it asked for, or the
\* configuration's when they were lost since.
KeptParams(k) == IF "params" \in lost[k] THEN FromConfig ELSE asked[k]
KeptProvider(k) == IF "provider" \in lost[k] THEN Configured ELSE chosen[k]

\* What the deprecated name stands for; an unknown value of it for nothing.
Deprecated == [MAIN    |-> {"MAIN_CONNECTED"},
               ALL     |-> {"ALL_CONNECTED"},
               unknown |-> {},
               absent  |-> {}]

\* The value request r asks component_mode to have, if any: under its own name or,
\* failing that, under the deprecated one.
ModeAsked(r) ==
    IF r.component_mode = "absent" THEN Deprecated[r.connected_component_mode]
    ELSE {Converted(r.component_mode)}

\* The parameters p with what request r asks for, and nothing else, changed.
AskedFor(p, r) ==
    [voltage_init_mode |->
        IF r.voltage_init_mode = "absent" THEN p.voltage_init_mode
        ELSE Converted(r.voltage_init_mode),
     component_mode |->
        IF ModeAsked(r) = {} THEN p.component_mode
        ELSE CHOOSE m \in ModeAsked(r) : TRUE]

\* update_loadflow_params: the object is changed in place and shown.
UpdateLoadflowParams(k, r) ==
    /\ heap' = [heap EXCEPT ![params[k]] = Updated(@, r)]
    /\ asked' = [asked EXCEPT ![k] = AskedFor(KeptParams(k), r)]
    /\ lost' = [lost EXCEPT ![k] = @ \ {"params"}]
    /\ ran' = NoRun
    /\ UNCHANGED <<provider, params, chosen>>

\* A slip: the fork refers to the parameters of its source.
CopySharing(src, tgt) ==
    /\ provider' = [provider EXCEPT ![tgt] = provider[src]]
    /\ params' = [params EXCEPT ![tgt] = params[src]]
    /\ UNCHANGED heap

\* A slip: the fork goes back to the configured provider.
CopyWithoutProvider(src, tgt) ==
    /\ provider' = [provider EXCEPT ![tgt] = Configured]
    /\ \E o \in NewObjects(tgt) :
          /\ params' = [params EXCEPT ![tgt] = o]
          /\ heap' = [heap EXCEPT ![o] = heap[params[src]]]

\* copy: the fork has the provider and a deep copy of the parameters.
Copy(src, tgt) ==
    /\ provider' = [provider EXCEPT ![tgt] = provider[src]]
    /\ \E o \in NewObjects(tgt) :
          /\ params' = [params EXCEPT ![tgt] = o]
          /\ heap' = [heap EXCEPT ![o] = heap[params[src]]]

DuplicateSession(src, tgt) ==
    /\ src # tgt
    /\ Copy(src, tgt)
    /\ chosen' = [chosen EXCEPT ![tgt] = chosen[src]]
    /\ asked' = [asked EXCEPT ![tgt] = asked[src]]
    /\ lost' = [lost EXCEPT ![tgt] = lost[src]]
    /\ ran' = NoRun

-----------------------------------------------------------------------------
(* The tools that solve or analyse a network *)

Runs(k, tool, p, v) ==
    /\ ran' = [session |-> k, tool |-> tool, provider |-> p, params |-> v]
    /\ UNCHANGED <<provider, params, heap, chosen, asked, lost>>

\* run_loadflow takes both from the session.
RunLoadflow(k) == Runs(k, "run_loadflow", provider[k], heap[params[k]])

\* pp.security.create_analysis().run_ac(network): no parameters, no provider.
RunSecurityAnalysis(k) == Runs(k, "run_security_analysis", Default, FromConfig)

\* check_voltage_violations when no result is cached: run_ac(network).
CheckVoltageViolations(k) == Runs(k, "check_voltage_violations", Default, FromConfig)

\* get_top_active_power_transit_lines when there are no flows: run_ac(network).
GetTopActivePowerTransitLines(k) ==
    Runs(k, "get_top_active_power_transit_lines", Default, FromConfig)

-----------------------------------------------------------------------------
Next ==
    \E k \in Ids :
       \/ NewProxy(k)
       \/ \E p \in Providers \cup {Default} : SetLoadflowProvider(k, p)
       \/ RestoreDefaultLoadflowParam(k)
       \/ \E r \in Requests : UpdateLoadflowParams(k, r)
       \/ \E tgt \in Ids : DuplicateSession(k, tgt)
       \/ RunLoadflow(k)
       \/ RunSecurityAnalysis(k)
       \/ CheckVoltageViolations(k)
       \/ GetTopActivePowerTransitLines(k)

Spec == Init /\ [][Next]_vars

-----------------------------------------------------------------------------
(* Safety *)

\* "This setting is per-session and does not affect other users or sessions"
\* (loadflow_tools.py:122): no step changes the settings of two sessions, also
\* after one was forked from the other.
Settings(k) == [provider |-> provider[k], params |-> heap[params[k]]]

SettingsArePrivate ==
    [][\A j, k \in Ids : Settings(j)' # Settings(j) /\ Settings(k)' # Settings(k)
                         => j = k]_vars

\* A load flow is run with the parameters the session's client asked for, whatever
\* other sessions did since and under whichever name it asked; for those of the
\* session it was forked from, with those that one's client asked for.  They are
\* the configuration's when the session was lost and created again since the
\* client was last shown them, and in no other case.
RunsAsAsked ==
    ran.tool = "run_loadflow" => ran.params = KeptParams(ran.session)

\* It is run with the provider chosen last, likewise.  A restore too puts the
\* configured one in its place, which its answer does not show.
RunsWithChosenProvider ==
    ran.tool = "run_loadflow" => ran.provider = KeptProvider(ran.session)

-----------------------------------------------------------------------------
(* What the documentation says and the code does not do *)

\* "Before running a security analysis, always call get_loadflow_provider_info
\* to verify that the current session provider is the one you intend to use"
\* (security_tools.py:417-420): the analysis uses that provider.
SecurityUsesSessionProvider ==
    ran.tool = "run_security_analysis" => ran.provider = provider[ran.session]
=============================================================================
