---------------------------- MODULE LookupsProofs ----------------------------
(* The safety of Lookups, and what of its liveness does not take ENABLED, for *)
(* every number of sessions and threads, every TTL and every capacity.        *)
EXTENDS Lookups, TTLCacheTheorems

(***************************************************************************)
(* The inductive invariant.  A call that found or stored its session's     *)
(* proxy keeps it live until something disturbs the call (Undisturbed);    *)
(* between its two looks at the cache reconcile misses only what was       *)
(* stored meanwhile (Listed).                                              *)
(***************************************************************************)
Undisturbed(w) ==
    ~call[w].disturbed =>
        /\ call[w].at # "failed"
        /\ call[w].at \in {"present", "touched", "holding"} => call[w].sid \in Live(cache)
        /\ call[w].at = "holding" => cache.val[call[w].sid] = call[w].proxy

Listed == probe.at = "listed" => Live(cache) \subseteq probe.live \cup stored

LSafe == TypeOK /\ (\A w \in Workers : Undisturbed(w)) /\ Listed

-----------------------------------------------------------------------------
LEMMA ElapseLive ==
    ASSUME IsCache(cache, Ids, Proxies)
    PROVE  Live(Elapse(cache)) \subseteq Live(cache)
  <1> SUFFICES ASSUME NEW k \in Live(Elapse(cache)) PROVE k \in Live(cache)
    OBVIOUS
  <1>1. /\ Keys(Elapse(cache)) = Keys(cache)
        /\ k \in Keys(cache) =>
              Elapse(cache).left[k] = IF cache.left[k] = 0 THEN 0 ELSE cache.left[k] - 1
    BY ElapseLemma
  <1>2. k \in Keys(cache) /\ Elapse(cache).left[k] > 0
    BY <1>1 DEF Live
  <1>3. cache.left[k] \in 0 .. TTL
    BY <1>2 DEF IsCache
  <1> QED
    BY <1>1, <1>2, <1>3, TTLAssumption DEF Live

\* Expiring entries changes neither which are live nor their values.
LEMMA ExpireLive ==
    ASSUME IsCache(cache, Ids, Proxies)
    PROVE  /\ IsCache(Expire(cache), Ids, Proxies)
           /\ Live(Expire(cache)) = Live(cache)
           /\ \A k \in Live(cache) : Expire(cache).val[k] = cache.val[k]
  <1>1. IsCache(Expire(cache), Ids, Proxies) /\ Keys(Expire(cache)) = Live(cache)
    BY ExpireLemma
  <1>2. \A k \in Live(cache) : /\ Expire(cache).val[k] = cache.val[k]
                               /\ Expire(cache).left[k] = cache.left[k]
    BY KeepEntryLemma DEF Expire, Live
  <1> QED
    BY <1>1, <1>2 DEF Live

LEMMA IdleIs ==
    /\ Idle = [at |-> "idle", sid |-> Nothing, proxy |-> Nothing, disturbed |-> FALSE]
    /\ Idle.at = "idle" /\ Idle \notin Asking \cup Holding
  BY DEF Idle, Asking, Holding

\* The type of a call in each of its stages.
LEMMA CallType ==
    ASSUME TypeOK, NEW w \in Workers
    PROVE  /\ call[w].at # "idle" => call[w].sid \in Ids
           /\ call[w].at \in {"asked", "missing", "present", "touched", "failed"}
                => call[w] \in Asking
           /\ call[w].at = "holding" => call[w] \in Holding
           /\ call[w].at = "idle" => call[w] = Idle
  BY IdleIs DEF TypeOK, Asking, Holding

\* Storing a proxy, or a tick, disturbs the calls of the others and no more.
LEMMA DisturbingLemma ==
    ASSUME NEW calls \in [Workers -> {Idle} \cup Asking \cup Holding], NEW u
    PROVE  LET d == Disturbing(u, calls)
           IN  /\ d \in [Workers -> {Idle} \cup Asking \cup Holding]
               /\ \A w \in Workers : /\ d[w].at = calls[w].at
                                     /\ d[w].sid = calls[w].sid
                                     /\ d[w].proxy = calls[w].proxy
               /\ u \in Workers => d[u] = calls[u]
               /\ \A w \in Workers \ {u} : calls[w] = Idle \/ d[w].disturbed
  <1> DEFINE d == Disturbing(u, calls)
  <1>1. ASSUME NEW w \in Workers
        PROVE  /\ d[w] \in {Idle} \cup Asking \cup Holding
               /\ d[w].at = calls[w].at /\ d[w].sid = calls[w].sid
               /\ d[w].proxy = calls[w].proxy
               /\ w = u => d[w] = calls[w]
               /\ w # u => calls[w] = Idle \/ d[w].disturbed
    <2> DEFINE b == calls[w].disturbed \/ (w # u /\ calls[w] # Idle)
    <2>1. d[w] = [calls[w] EXCEPT !.disturbed = b]
      BY DEF Disturbing
    <2>2. CASE w = u \/ calls[w] = Idle
      <3>1. calls[w].disturbed \in BOOLEAN
        <4>1. \A r \in Asking \cup Holding : r.disturbed \in BOOLEAN
          BY DEF Asking, Holding
        <4>2. Idle.disturbed \in BOOLEAN
          BY DEF Idle
        <4>3. calls[w] = Idle \/ calls[w] \in Asking \cup Holding
          OBVIOUS
        <4> QED
          BY <4>1, <4>2, <4>3, Zenon
      <3>2. b = calls[w].disturbed
        BY <2>2, <3>1, Zenon
      <3>3. d[w] = [calls[w] EXCEPT !.disturbed = calls[w].disturbed]
        BY <2>1, <3>2
      <3> HIDE DEF d
      <3> QED
        BY <2>2, <3>3, IdleIs DEF Asking, Holding
    <2>3. CASE w # u /\ calls[w] # Idle
      <3>1. d[w] = [calls[w] EXCEPT !.disturbed = TRUE]
        BY <2>1, <2>3
      <3> QED
        BY <2>3, <3>1 DEF Asking, Holding
    <2> QED
      BY <2>2, <2>3
  <1>2. d = [w \in Workers |-> d[w]]
    BY DEF Disturbing
  <1> QED
    BY <1>1, <1>2

\* What the other calls hold stays where it is.
LEMMA OthersKeep ==
    ASSUME NEW v \in Workers, Undisturbed(v), call'[v] = call[v],
           Live(cache) \subseteq Live(cache'),
           \A k \in Live(cache) : cache'.val[k] = cache.val[k]
    PROVE  Undisturbed(v)'
  BY DEF Undisturbed

LEMMA TouchedLemma ==
    ASSUME TypeOK, NEW k \in Ids, age' = Touched(k)
    PROVE  Tracked' \subseteq Ids /\ age' \in [Tracked' -> 0 .. TTL]
  BY TTLAssumption DEF TypeOK, Touched, Tracked

\* A call asks, looks or touches: the cache is as it was.
LEMMA LookStep ==
    ASSUME LSafe, NEW w \in Workers,
           (\E k \in Ids : Ask(w, k)) \/ LookFor(w) \/ Touch(w) \/ EndCall(w)
    PROVE  LSafe'
  <1> USE DEF LSafe
  <1>1. call' \in [Workers -> {Idle} \cup Asking \cup Holding]
    <2>1. ASSUME NEW k \in Ids, Ask(w, k) PROVE call'[w] \in Asking
      <3>1. call'[w] = [at |-> "asked", sid |-> k, proxy |-> Nothing, disturbed |-> FALSE]
        BY <2>1 DEF Ask, TypeOK, Idle
      <3> QED
        BY <3>1 DEF Asking
    <2>2. CASE LookFor(w)
      <3>1. call[w] \in Asking
        BY <2>2, CallType DEF LookFor
      <3>2. PICK at \in {"present", "missing"} : call'[w] = [call[w] EXCEPT !.at = at]
        BY <2>2 DEF LookFor, TypeOK
      <3> QED
        BY <2>2, <3>1, <3>2 DEF LookFor, TypeOK, Asking
    <2>3. CASE Touch(w)
      <3>1. call[w] \in Asking
        BY <2>3, CallType DEF Touch
      <3>2. call'[w] = [call[w] EXCEPT !.at = "touched"]
        BY <2>3 DEF Touch, TypeOK
      <3> QED
        BY <2>3, <3>1, <3>2 DEF Touch, TypeOK, Asking
    <2>4. CASE EndCall(w)
      BY <2>4 DEF EndCall, TypeOK
    <2> QED
      BY <2>1, <2>2, <2>3, <2>4 DEF Ask, LookFor, Touch, TypeOK
  <1>2. /\ cache' = cache /\ probe' = probe /\ stored' = stored
        /\ \A v \in Workers \ {w} : call'[v] = call[v]
    BY DEF Ask, LookFor, Touch, EndCall, TypeOK
  <1>3. Tracked' \subseteq Ids /\ age' \in [Tracked' -> 0 .. TTL]
    <2>1. CASE Touch(w) \/ EndCall(w)
      BY <2>1, CallType, TouchedLemma DEF Touch, EndCall
    <2>2. CASE age' = age
      BY <2>2 DEF TypeOK, Tracked
    <2> QED
      BY <2>1, <2>2 DEF Ask, LookFor
  <1>4. Undisturbed(w)'
    <2>1. CASE (\E k \in Ids : Ask(w, k)) \/ EndCall(w)
      BY <2>1, IdleIs DEF Ask, EndCall, TypeOK, Undisturbed, Idle
    <2>2. CASE LookFor(w)
      BY <2>2, <1>2 DEF LookFor, TypeOK, Undisturbed
    <2>3. CASE Touch(w)
      BY <2>3, <1>2 DEF Touch, TypeOK, Undisturbed
    <2> QED
      BY <2>1, <2>2, <2>3
  <1>5. \A v \in Workers \ {w} : Undisturbed(v)'
    BY <1>2, OthersKeep
  <1> QED
    BY <1>1, <1>2, <1>3, <1>4, <1>5 DEF TypeOK, Listed

LEMMA StoreStep == ASSUME LSafe, NEW w \in Workers, Store(w) PROVE LSafe'
  <1> DEFINE k == call[w].sid
             calls == [call EXCEPT ![w].at = "present"]
  <1>1. /\ k \in Ids /\ NewProxy \in Proxies
        /\ cache' = Put(cache, k, NewProxy) /\ call' = Disturbing(w, calls)
        /\ stored' = stored \cup {k} /\ age' = age /\ probe' = probe
    BY CallType DEF LSafe, Store, NewProxy, Unused
  <1>2. calls \in [Workers -> {Idle} \cup Asking \cup Holding]
    <2>1. call[w] \in Asking
      BY CallType DEF LSafe, Store
    <2>2. [call[w] EXCEPT !.at = "present"] \in Asking
      BY <2>1 DEF Asking
    <2> QED
      BY <2>2 DEF LSafe, TypeOK
  <1>3. calls[w].at = "present" /\ calls[w].sid = k
    <2>1. call[w] \in Asking
      BY CallType DEF LSafe, Store
    <2> QED
      BY <2>1 DEF LSafe, TypeOK, Asking
  <1>4. /\ call' \in [Workers -> {Idle} \cup Asking \cup Holding]
        /\ call'[w] = calls[w]
        /\ \A v \in Workers \ {w} : call'[v].at = "idle" \/ call'[v].disturbed
    <2> HIDE DEF calls
    <2> QED
      BY <1>1, <1>2, DisturbingLemma, IdleIs
  <1>5. /\ IsCache(cache', Ids, Proxies)
        /\ k \in Live(cache') /\ Live(cache') \subseteq Live(cache) \cup {k}
    BY <1>1, PutLemma, PutIsLiveLemma DEF LSafe, TypeOK
  <1>6. \A v \in Workers : Undisturbed(v)'
    BY <1>3, <1>4, <1>5 DEF Undisturbed
  <1>7. Listed'
    BY <1>1, <1>5 DEF LSafe, Listed
  <1> QED
    BY <1>1, <1>4, <1>5, <1>6, <1>7 DEF LSafe, TypeOK, Tracked

LEMMA ReadStep == ASSUME LSafe, NEW w \in Workers, Read(w) PROVE LSafe'
  <1> DEFINE k == call[w].sid
  <1>1. call[w] \in Asking /\ IsCache(cache, Ids, Proxies) /\ call[w].at = "touched"
    BY CallType DEF LSafe, Read, TypeOK
  <1>2. /\ IsCache(cache', Ids, Proxies)
        /\ cache'.val = cache.val /\ Live(cache') = Live(cache)
    BY <1>1, GetLemma DEF Read
  <1>3. UNCHANGED <<age, probe, stored>>
    BY DEF Read
  <1>4. CASE k \in Live(cache)
    <2>1. call' = [call EXCEPT ![w] = [call[w] EXCEPT !.at = "holding",
                                                     !.proxy = cache.val[k]]]
      BY <1>4 DEF Read, LSafe, TypeOK
    <2>2. cache.val[k] \in Proxies
      BY <1>1, <1>4 DEF IsCache, Live
    <2>3. /\ call'[w] \in Holding /\ call'[w].sid = k /\ call'[w].proxy = cache.val[k]
          /\ call'[w].at = "holding"
      BY <1>1, <2>1, <2>2 DEF Asking, Holding, LSafe, TypeOK
    <2>4. call' \in [Workers -> {Idle} \cup Asking \cup Holding]
      BY <2>1, <2>3 DEF LSafe, TypeOK
    <2>5. Undisturbed(w)'
      BY <1>2, <1>4, <2>3 DEF Undisturbed
    <2>6. \A v \in Workers \ {w} : Undisturbed(v)'
      BY <1>2, <2>1, OthersKeep DEF LSafe, TypeOK
    <2> QED
      BY <1>2, <1>3, <2>4, <2>5, <2>6 DEF LSafe, TypeOK, Listed, Tracked
  <1>5. CASE k \notin Live(cache)
    <2>1. call' = [call EXCEPT ![w] = [call[w] EXCEPT !.at = "failed"]]
      BY <1>5 DEF Read, LSafe, TypeOK
    <2>2. call'[w] \in Asking /\ call'[w].disturbed = call[w].disturbed
      BY <1>1, <2>1 DEF Asking, LSafe, TypeOK
    <2>3. call' \in [Workers -> {Idle} \cup Asking \cup Holding]
      BY <2>1, <2>2 DEF LSafe, TypeOK
    <2>4. call[w].disturbed
      BY <1>1, <1>5 DEF LSafe, Undisturbed
    <2>5. Undisturbed(w)'
      BY <2>2, <2>4 DEF Undisturbed
    <2>6. \A v \in Workers \ {w} : Undisturbed(v)'
      BY <1>2, <2>1, OthersKeep DEF LSafe, TypeOK
    <2> QED
      BY <1>2, <1>3, <2>3, <2>5, <2>6 DEF LSafe, TypeOK, Listed, Tracked
  <1> QED
    BY <1>4, <1>5

\* Reads of a resource and the steps of reconcile.
LEMMA ProbeStep ==
    ASSUME LSafe, (\E k \in Ids : ReadTempResource(k)) \/ Probe
    PROVE  LSafe'
  <1>1. IsCache(cache, Ids, Proxies) /\ Live(cache) \subseteq Ids
    BY DEF LSafe, TypeOK, IsCache, Live
  <1>2. /\ IsCache(cache', Ids, Proxies) /\ Live(cache') = Live(cache)
        /\ \A k \in Live(cache) : cache'.val[k] = cache.val[k]
        /\ call' = call
    BY <1>1, GetLemma, ExpireLive
    DEF ReadTempResource, Probe, ProbeExpire, ProbeList, ProbeAlign
  <1>3. \A v \in Workers : Undisturbed(v)'
    BY <1>2, OthersKeep DEF LSafe
  <1>4. CASE ProbeAlign
    <2>1. age' = Aligned /\ probe' = NoProbe /\ stored' = stored
      BY <1>4 DEF ProbeAlign
    <2>2. Tracked' \subseteq Ids /\ age' \in [Tracked' -> 0 .. TTL]
      BY <2>1, TTLAssumption DEF Aligned, Gone, Tracked, LSafe, TypeOK
    <2> QED
      BY <1>2, <1>3, <2>1, <2>2 DEF LSafe, TypeOK, Listed, NoProbe
  <1>5. CASE ProbeList
    BY <1>1, <1>2, <1>3, <1>5 DEF ProbeList, LSafe, TypeOK, Listed, Tracked
  <1>6. CASE ProbeExpire
    BY <1>2, <1>3, <1>6 DEF ProbeExpire, LSafe, TypeOK, Listed, Tracked
  <1>7. CASE \E k \in Ids : ReadTempResource(k)
    BY <1>2, <1>3, <1>7 DEF ReadTempResource, LSafe, TypeOK, Listed, Tracked
  <1> QED
    BY <1>4, <1>5, <1>6, <1>7 DEF Probe

LEMMA TickStep == ASSUME LSafe, Tick PROVE LSafe'
  <1>1. call' = Disturbing(Nothing, call) /\ Nothing \notin Workers
    BY NothingAssumption DEF Tick
  <1>2. /\ call' \in [Workers -> {Idle} \cup Asking \cup Holding]
        /\ \A v \in Workers : call'[v].at = "idle" \/ call'[v].disturbed
    <2>1. call \in [Workers -> {Idle} \cup Asking \cup Holding]
      BY DEF LSafe, TypeOK
    <2>2. call' \in [Workers -> {Idle} \cup Asking \cup Holding]
      BY <1>1, <2>1, DisturbingLemma
    <2>3. \A v \in Workers : call'[v].at = call[v].at
      BY <1>1, <2>1, DisturbingLemma
    <2>4. \A v \in Workers : call[v] = Idle \/ call'[v].disturbed
      BY <1>1, <2>1, DisturbingLemma
    <2> QED
      BY <2>2, <2>3, <2>4, IdleIs
  <1>3. IsCache(cache', Ids, Proxies) /\ Live(cache') \subseteq Live(cache)
    BY ElapseLemma, ElapseLive DEF Tick, LSafe, TypeOK
  <1>4. Tracked' \subseteq Ids /\ age' \in [Tracked' -> 0 .. TTL]
    <2>1. age \in [Tracked -> 0 .. TTL] /\ Tracked \subseteq Ids
      BY DEF LSafe, TypeOK
    <2>2. age' = [k \in Tracked |-> IF age[k] = TTL THEN TTL ELSE age[k] + 1]
      BY DEF Tick
    <2>3. Tracked' = Tracked
      BY <2>2 DEF Tracked
    <2>4. \A k \in Tracked : age'[k] \in 0 .. TTL
      BY <2>1, <2>2, TTLAssumption
    <2> QED
      BY <2>1, <2>2, <2>3, <2>4
  <1>5. UNCHANGED <<probe, stored>>
    BY DEF Tick
  <1>6. \A v \in Workers : Undisturbed(v)'
    BY <1>2 DEF Undisturbed
  <1> QED
    BY <1>2, <1>3, <1>4, <1>5, <1>6 DEF LSafe, TypeOK, Listed

LEMMA LSafeStep == LSafe /\ [Next]_vars => LSafe'
  <1> SUFFICES ASSUME LSafe, [Next]_vars PROVE LSafe'
    OBVIOUS
  <1>1. CASE UNCHANGED vars
    BY <1>1 DEF vars, LSafe, TypeOK, Undisturbed, Listed, Tracked
  <1> QED
    BY <1>1, LookStep, StoreStep, ReadStep, ProbeStep, TickStep DEF Next

LEMMA LSafeInit == Init => LSafe
  BY IdleIs, TTLAssumption
  DEF Init, LSafe, TypeOK, Tracked, Undisturbed, Listed, NoProbe, EmptyCache, IsCache, Keys,
      Live

LEMMA LSafeAlways == Spec => []LSafe
  BY LSafeInit, LSafeStep, PTL DEF Spec

\* Every variable of Lookups always has its type: in particular a call that
\* goes on holds a proxy.
THEOREM LookupsTypeCorrect == Spec => []TypeOK
  <1>1. LSafe => TypeOK
    BY DEF LSafe
  <1> QED
    BY <1>1, LSafeAlways, PTL

\* Unless the clock ticks or another call stores a proxy, get_proxy hands out
\* its session's proxy and the cache keeps it, with any number of threads
\* between its locks.
THEOREM UndisturbedCallsHold == Spec => []UndisturbedCallsKeepTheProxy
  <1>1. LSafe => UndisturbedCallsKeepTheProxy
    BY DEF LSafe, Undisturbed, UndisturbedCallsKeepTheProxy
  <1> QED
    BY <1>1, LSafeAlways, PTL

\* reconcile counts out a live session only if it was stored after it looked.
THEOREM TheLivingAreSpared == Spec => ReconcileSparesTheLiving
  <1> DEFINE Spared == \A k \in Tracked : k \notin Tracked' /\ k \in Live(cache) => k \in stored
  <1>1. ASSUME LSafe, [Next]_vars PROVE [Spared]_vars
    <2>1. CASE Tracked \subseteq Tracked'
      BY <2>1
    <2>2. CASE ProbeAlign
      <3>1. Live(cache) \subseteq probe.live \cup stored /\ age' = Aligned
        BY <1>1, <2>2 DEF ProbeAlign, LSafe, Listed
      <3>2. probe.live \subseteq Tracked'
        BY <3>1 DEF Aligned, Tracked
      <3> QED
        BY <3>1, <3>2
    <2>3. CASE UNCHANGED vars
      BY <2>3
    <2>4. ASSUME NEW w \in Workers, Touch(w) \/ EndCall(w) PROVE Tracked \subseteq Tracked'
      BY <2>4 DEF Touch, EndCall, Touched, Tracked
    <2>5. ASSUME NEW w \in Workers,
                 (\E k \in Ids : Ask(w, k)) \/ LookFor(w) \/ Store(w) \/ Read(w)
          PROVE  Tracked \subseteq Tracked'
      BY <2>5 DEF Ask, LookFor, Store, Read, Tracked
    <2>6. CASE (\E k \in Ids : ReadTempResource(k)) \/ ProbeExpire \/ ProbeList \/ Tick
      BY <2>6, <2>1 DEF ReadTempResource, ProbeExpire, ProbeList, Tick, Tracked
    <2> QED
      BY <1>1, <2>1, <2>2, <2>3, <2>4, <2>5, <2>6 DEF Next, Probe
  <1> QED
    BY <1>1, LSafeAlways, PTL DEF Spec, ReconcileSparesTheLiving

-----------------------------------------------------------------------------
(* What has to happen *)

\* Where reconcile stands for session k: it has yet to list the live ones, or
\* lists them next; it has listed k; it is done with a list that k is not in.
Starting == probe.at = "idle"
Listing == probe.at = "expired"
Found(k) == probe.at = "listed" /\ k \in probe.live
Missed(k) == probe.at = "listed" /\ k \notin probe.live
Untracked(k) == k \in Live(cache) \ Tracked

\* What the three steps of reconcile do for an untracked session, and that no
\* other step puts reconcile back.
LEMMA ProbeGoesOn ==
    ASSUME NEW k \in Ids, TypeOK
    PROVE  /\ Starting \/ Listing \/ Found(k) \/ Missed(k)
           /\ Starting /\ <<Probe>>_vars => Listing'
           /\ Listing /\ Untracked(k) /\ <<Probe>>_vars => Found(k)'
           /\ Found(k) /\ <<Probe>>_vars => ~Untracked(k)'
           /\ Missed(k) /\ <<Probe>>_vars => Starting'
           /\ [Next]_vars => \/ Probe
                             \/ probe' = probe
  <1>1. Starting \/ Listing \/ Found(k) \/ Missed(k)
    BY DEF TypeOK, Starting, Listing, Found, Missed
  <1>2. Starting /\ Probe => Listing'
    BY DEF Probe, ProbeExpire, ProbeList, ProbeAlign, Starting, Listing, TypeOK
  <1>3. Listing /\ Untracked(k) /\ Probe => Found(k)'
    BY DEF Probe, ProbeExpire, ProbeList, ProbeAlign, Listing, Found, Untracked
  <1>4. Found(k) /\ Probe => ~Untracked(k)'
    BY DEF Probe, ProbeExpire, ProbeList, ProbeAlign, Found, Untracked, Aligned, Tracked
  <1>5. Missed(k) /\ Probe => Starting'
    BY DEF Probe, ProbeExpire, ProbeList, ProbeAlign, Missed, Starting, NoProbe
  <1>6. [Next]_vars => Probe \/ probe' = probe
    BY DEF Next, Ask, LookFor, Store, Touch, Read, EndCall, ReadTempResource, Tick, vars
  <1> QED
    BY <1>1, <1>2, <1>3, <1>4, <1>5, <1>6

\* If one session stays untracked, reconcile comes to list it, and then to adopt
\* it, however many times it was under way with an older list.
LEMMA FoundAgain ==
    ASSUME NEW k \in Ids
    PROVE  Spec /\ []ENABLED <<Probe>>_vars => (Untracked(k) ~> ~Untracked(k))
  <1>1. TypeOK => Starting \/ Listing \/ Found(k) \/ Missed(k)
    BY ProbeGoesOn
  <1>2. TypeOK /\ Starting /\ <<Probe>>_vars => Listing'
    BY ProbeGoesOn
  <1>3. TypeOK /\ Listing /\ Untracked(k) /\ <<Probe>>_vars => Found(k)'
    BY ProbeGoesOn
  <1>4. TypeOK /\ Found(k) /\ <<Probe>>_vars => ~Untracked(k)'
    BY ProbeGoesOn
  <1>5. TypeOK /\ Missed(k) /\ <<Probe>>_vars => Starting'
    BY ProbeGoesOn
  <1>6. TypeOK /\ [Next]_vars /\ ~<<Probe>>_vars =>
          /\ Starting => Starting'
          /\ Listing => Listing'
          /\ Found(k) => Found(k)'
          /\ Missed(k) => Missed(k)'
    <2> SUFFICES ASSUME TypeOK, [Next]_vars, ~<<Probe>>_vars PROVE probe' = probe
      BY DEF Starting, Listing, Found, Missed
    <2> QED
      BY ProbeGoesOn DEF vars
  <1> QED
    BY <1>1, <1>2, <1>3, <1>4, <1>5, <1>6, LookupsTypeCorrect, PTL DEF Spec

\* A live session that reconcile counted out, or that its call has not come to
\* touch, is tracked again or its life ends: under the fairness of Spec, as long
\* as the next step of reconcile is always possible.
THEOREM CountedOutAreFoundAgain ==
    Spec /\ []ENABLED <<Probe>>_vars => TrackedAgain
  <1> SUFFICES ASSUME NEW k \in Ids
               PROVE  Spec /\ []ENABLED <<Probe>>_vars =>
                        (k \in Live(cache) \ Tracked ~> k \in Tracked \/ k \notin Live(cache))
    BY DEF TrackedAgain
  <1>1. Untracked(k) <=> k \in Live(cache) \ Tracked
    BY DEF Untracked
  <1>2. ~Untracked(k) <=> k \in Tracked \/ k \notin Live(cache)
    BY DEF Untracked
  <1> QED
    BY <1>1, <1>2, FoundAgain, PTL
=============================================================================
