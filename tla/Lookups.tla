------------------------------- MODULE Lookups -------------------------------
(***************************************************************************)
(* get_proxy and reconcile at the grain of their locks, for the calls that *)
(* run in worker threads (server.py:57): the cache and the registry are    *)
(* each locked for one operation at a time, and other threads, the event   *)
(* loop and the clock come in between.  The tools of this repository are   *)
(* coroutines on the event loop (see Sessions, where get_proxy is one      *)
(* step); plugins inherit get_proxy and may be called in threads.          *)
(*                                                                         *)
(* A call is disturbed when, since it began, the clock has ticked or       *)
(* another call has stored a proxy: only then may its session's proxy be   *)
(* taken from under it.                                                    *)
(***************************************************************************)
EXTENDS TTLCache

CONSTANTS
    Ids,       \* session ids
    Workers,   \* threads that run calls
    Proxies,   \* identities of PyPowsyblMCPServerProxy objects
    Nothing    \* no session, no proxy

ASSUME NothingAssumption == Nothing \notin Ids \cup Proxies \cup Workers

VARIABLES
    cache,    \* pypowsybl_proxies
    age,      \* SESSIONS: for each tracked session the time since its created_at
    call,     \* call[w]: where the call of worker w stands
    probe,    \* where reconcile stands, and the sessions it takes for live
    stored    \* history: the sessions stored since reconcile listed the live ones

vars == <<cache, age, call, probe, stored>>

Tracked == DOMAIN age
Idle == [at |-> "idle", sid |-> Nothing, proxy |-> Nothing, disturbed |-> FALSE]
NoProbe == [at |-> "idle", live |-> {}]

Asking == [at : {"asked", "missing", "present", "touched", "failed"},
           sid : Ids, proxy : {Nothing}, disturbed : BOOLEAN]
Holding == [at : {"holding"}, sid : Ids, proxy : Proxies, disturbed : BOOLEAN]

TypeOK ==
    /\ IsCache(cache, Ids, Proxies)
    /\ Tracked \subseteq Ids
    /\ age \in [Tracked -> 0 .. TTL]
    /\ call \in [Workers -> {Idle} \cup Asking \cup Holding]
    /\ probe \in [at : {"idle", "expired", "listed"}, live : SUBSET Ids]
    /\ stored \subseteq Ids

Init ==
    /\ cache = EmptyCache
    /\ age = [k \in {} |-> 0]
    /\ call = [w \in Workers |-> Idle]
    /\ probe = NoProbe
    /\ stored = {}

\* The calls after something that may take a proxy from all but w's.
Disturbing(w, calls) ==
    [v \in Workers |-> [calls[v] EXCEPT !.disturbed = @ \/ (v # w /\ calls[v] # Idle)]]

-----------------------------------------------------------------------------
(* get_proxy, and the call around it *)

Ask(w, k) ==
    /\ call[w] = Idle
    /\ call' = [call EXCEPT ![w] = [Idle EXCEPT !.at = "asked", !.sid = k]]
    /\ UNCHANGED <<cache, age, probe, stored>>

\* session_id not in self.pypowsybl_proxies
LookFor(w) ==
    /\ call[w].at = "asked"
    /\ call' = [call EXCEPT ![w].at = IF call[w].sid \in Live(cache) THEN "present" ELSE "missing"]
    /\ UNCHANGED <<cache, age, probe, stored>>

\* The identities a newly built proxy may have; which one makes no difference.
Unused ==
    {p \in Proxies : /\ \A k \in Keys(cache) : p # cache.val[k]
                     /\ \A w \in Workers : p # call[w].proxy}
NewProxy == CHOOSE p \in Unused : TRUE

\* self.pypowsybl_proxies[session_id] = PyPowsyblMCPServerProxy(), also when
\* another call has stored one meanwhile.
Store(w) ==
    /\ call[w].at = "missing"
    /\ Unused # {}
    /\ cache' = Put(cache, call[w].sid, NewProxy)
    /\ call' = Disturbing(w, [call EXCEPT ![w].at = "present"])
    /\ stored' = stored \cup {call[w].sid}
    /\ UNCHANGED <<age, probe>>

\* SESSIONS.touch: the first one is the time the session counts as created.
Touched(k) == [j \in Tracked \cup {k} |-> IF j \in Tracked THEN age[j] ELSE 0]

Touch(w) ==
    /\ call[w].at = "present"
    /\ age' = Touched(call[w].sid)
    /\ call' = [call EXCEPT ![w].at = "touched"]
    /\ UNCHANGED <<cache, probe, stored>>

\* A slip: the read is a get, and its None goes on as the proxy.
ReadOrNone(w) ==
    LET k == call[w].sid
    IN  /\ call[w].at = "touched"
        /\ cache' = Get(cache, k)
        /\ call' = [call EXCEPT ![w].at = "holding",
                                ![w].proxy = IF k \in Live(cache) THEN cache.val[k] ELSE Nothing]
        /\ UNCHANGED <<age, probe, stored>>

\* return self.pypowsybl_proxies[session_id], or a KeyError.
Read(w) ==
    LET k == call[w].sid
    IN  /\ call[w].at = "touched"
        /\ \/ /\ k \in Live(cache)
              /\ cache' = Get(cache, k)
              /\ call' = [call EXCEPT ![w].at = "holding", ![w].proxy = cache.val[k]]
           \/ /\ k \notin Live(cache)
              /\ call' = [call EXCEPT ![w].at = "failed"]
              /\ UNCHANGED cache
        /\ UNCHANGED <<age, probe, stored>>

\* The call ends, well or not, and is recorded.
EndCall(w) ==
    /\ call[w].at \in {"holding", "failed"}
    /\ age' = Touched(call[w].sid)
    /\ call' = [call EXCEPT ![w] = Idle]
    /\ UNCHANGED <<cache, probe, stored>>

\* read_temp_resource, a plain function that the framework runs in a thread.
ReadTempResource(k) ==
    /\ k \in Live(cache)
    /\ cache' = Get(cache, k)
    /\ UNCHANGED <<age, call, probe, stored>>

-----------------------------------------------------------------------------
(* reconcile, for an uptime probe on /admin/health *)

ProbeExpire ==
    /\ probe.at = "idle"
    /\ cache' = Expire(cache)
    /\ probe' = [probe EXCEPT !.at = "expired"]
    /\ UNCHANGED <<age, call, stored>>

\* live = set(cache)
ProbeList ==
    /\ probe.at = "expired"
    /\ probe' = [at |-> "listed", live |-> Live(cache)]
    /\ stored' = {}
    /\ UNCHANGED <<cache, age, call>>

\* Whatever is not among the live ones is counted out.
Gone == Tracked \ probe.live

\* A slip: sessions the registry does not know are left alone.
AlignedDropping == [k \in Tracked \ Gone |-> age[k]]

\* A slip: a session is gone when its time is over.
AlignedByAge ==
    LET over == {k \in Tracked : age[k] >= TTL}
    IN  [k \in (Tracked \cup probe.live) \ over |-> IF k \in Tracked THEN age[k] ELSE 0]

\* The registry after it: the live sessions it does not know are adopted.
Aligned ==
    [k \in (Tracked \ Gone) \cup probe.live |-> IF k \in Tracked THEN age[k] ELSE 0]

ProbeAlign ==
    /\ probe.at = "listed"
    /\ age' = Aligned
    /\ probe' = NoProbe
    /\ UNCHANGED <<cache, call, stored>>

-----------------------------------------------------------------------------
Tick ==
    /\ cache' = Elapse(cache)
    /\ age' = [k \in Tracked |-> IF age[k] = TTL THEN TTL ELSE age[k] + 1]
    /\ call' = Disturbing(Nothing, call)
    /\ UNCHANGED <<probe, stored>>

Probe == ProbeExpire \/ ProbeList \/ ProbeAlign

Next ==
    \/ \E w \in Workers :
          \/ \E k \in Ids : Ask(w, k)
          \/ LookFor(w) \/ Store(w) \/ Touch(w) \/ Read(w) \/ EndCall(w)
    \/ \E k \in Ids : ReadTempResource(k)
    \/ Probe
    \/ Tick

\* The probe comes again and again (docs/monitoring.md); nobody has to call.
Spec == Init /\ [][Next]_vars /\ WF_vars(Probe)

-----------------------------------------------------------------------------
(* Properties *)

\* A call that is not disturbed finds its session's proxy, and it remains the
\* one in the cache, whatever other threads look for, touch, read and reap.
UndisturbedCallsKeepTheProxy ==
    \A w \in Workers :
       ~call[w].disturbed =>
          /\ call[w].at # "failed"
          /\ call[w].at = "holding" =>
                /\ call[w].sid \in Live(cache)
                /\ cache.val[call[w].sid] = call[w].proxy

\* reconcile counts out no session that lives, except one that was stored after
\* it had listed the live ones: one thread stores while the event loop counts.
ReconcileSparesTheLiving ==
    [][\A k \in Tracked : k \notin Tracked' /\ k \in Live(cache) => k \in stored]_vars

\* A live session that is not tracked - because a reconcile that did not see it
\* counted it out, or its call has not come to touch it - is tracked again.
TrackedAgain ==
    \A k \in Ids :
       k \in Live(cache) \ Tracked ~> k \in Tracked \/ k \notin Live(cache)
=============================================================================
