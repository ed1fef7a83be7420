--------------------------- MODULE DownloadsProofs ---------------------------
(* The safety of Downloads, for every number of calls and tokens and every   *)
(* life of a link.                                                           *)
EXTENDS Downloads, TLAPS

(***************************************************************************)
(* The inductive invariant.  A call that found a link or writes a file     *)
(* holds the event loop until it is done (HoldsTheLoop): no other one can  *)
(* clean up meanwhile.  What the client was told is what its link says     *)
(* (Promised), and a thread that misses its file read for a link whose     *)
(* time was over (Missed), which stays so because tokens are not reused    *)
(* while a call knows them (Unlisted).  A link that its call could not     *)
(* tell of (Untold) is nobody's to use.                                    *)
(***************************************************************************)
WithToken == {"writing", "listed", "found", "reading", "read", "missing", "unreadable"}
Known == \A c \in Calls : call[c].at \in WithToken => call[c].token \in Tokens

HoldsTheLoop ==
    \A c \in Calls : call[c].at \in {"writing", "listed", "found", "sweeping"} => loop = c

Unlisted ==
    \A c \in Calls : call[c].at \in {"writing", "listed"} =>
        /\ call[c].at = "writing" => call[c].token \notin Listed
        /\ \A d \in Calls \ {c} : call[d].token # call[c].token

Found ==
    \A c \in Calls : call[c].at \in {"listed", "found"} =>
        /\ call[c].token \in Listed
        /\ call[c].left = links[call[c].token]

Promised == \A t \in Tokens : told[t] >= 0 => t \in Listed /\ links[t] = told[t]
Missed == \A c \in Calls : call[c].at = "missing" => told[call[c].token] < 0
Untold ==
    /\ \A c \in Calls : call[c].at = "listed" =>
          told[call[c].token] < 0 /\ call[c].token \notin dangling
    /\ \A t \in dangling : told[t] < 0

NoScratch ==
    \A c \in Calls :
        call[c].at \in {"asking", "found", "reading", "read", "missing", "unreadable"}
            => scratch[c] = "none"

Typed == TypeOK /\ Known
Ordered == HoldsTheLoop /\ Unlisted /\ Found
Kept == Promised /\ Missed /\ Untold /\ ListedHasFile /\ ServedUntilExpiry

TokenOwned ==
    \A t \in Tokens :
        /\ disk[t] = "part" => t \in stuck
        /\ disk[t] = "file" => t \in Listed \cup stuck
ScratchOwned == \A c \in Calls : scratch[c] = "file" => call[c].at # "idle" \/ c \in stuck
Abandoned == \A c \in Calls : call[c].at = "abandoned" => c \in stuck
Owned == NoScratch /\ TokenOwned /\ ScratchOwned /\ Abandoned

Safe == Typed /\ Ordered /\ Kept /\ Owned

-----------------------------------------------------------------------------
(* What cleaning up does. *)

LEMMA CleanLemma ==
    ASSUME TypeOK, NEW swept, Clean(swept)
    PROVE  /\ DOMAIN links' = Listed \ Expired
           /\ links' \in [Listed \ Expired -> -1 .. Life]
           /\ \A t \in Listed \ Expired : links'[t] = links[t] /\ links[t] >= 0
           /\ Cleaned(swept) \in [Tokens -> {"none", "dir", "part", "file"}]
           /\ NotCleaned(swept) \subseteq Tokens
           /\ dangling' = dangling \ Expired /\ dangling' \subseteq Listed \ Expired
           /\ swept \in [Expired -> {"none", "dir", "file"}]
  BY DEF TypeOK, Clean, Cleaned, NotCleaned, Expired, Listed, Sweepings

LEMMA IdleAt ==
    /\ Idle = [at |-> "idle", token |-> NoToken, left |-> -1]
    /\ \A at : [Idle EXCEPT !.at = at] = [at |-> at, token |-> NoToken, left |-> -1]
  BY DEF Idle

LEMMA OlderLemma ==
    ASSUME NEW n \in -1 .. Life
    PROVE  /\ Older(n) \in -1 .. Life
           /\ n < 0 => Older(n) = n
           /\ n >= 0 => Older(n) = n - 1
  BY LifeAssumption DEF Older

LEMMA TypedStep == Typed /\ Ordered /\ [Next]_vars => Typed'
  <1> SUFFICES ASSUME Typed, Ordered, [Next]_vars PROVE Typed'
    OBVIOUS
  <1> USE LifeAssumption, NoTokenAssumption, FreeAssumption, IdleAt
      DEF Typed, TypeOK, Known, WithToken, Listed, Goes, Silent, NoAnswer, Answered,
          Idle, Starts
  <1>1. ASSUME NEW c \in Calls,
               AskModel(c) \/ ModelAnswers(c) \/ ModelFails(c) \/ BeginExport(c)
                  \/ ReadBack(c) \/ BeginLoad(c) \/ FetchOpens(c) \/ CancelLoad(c)
        PROVE  Typed'
    <2>1. CASE AskModel(c)
      BY <2>1 DEF AskModel
    <2>2. CASE ModelAnswers(c)
      BY <2>2 DEF ModelAnswers
    <2>3. CASE ModelFails(c)
      BY <2>3 DEF ModelFails
    <2>4. CASE ReadBack(c)
      BY <2>4 DEF ReadBack
    <2>5. CASE BeginExport(c)
      BY <2>5 DEF BeginExport
    <2>6. CASE BeginLoad(c)
      BY <2>6 DEF BeginLoad
    <2>7. CASE CancelLoad(c)
      BY <2>7 DEF CancelLoad
    <2>8. CASE FetchOpens(c)
      BY <2>8 DEF FetchOpens
    <2> QED
      BY <1>1, <2>1, <2>2, <2>3, <2>4, <2>5, <2>6, <2>7, <2>8
  <1>2. ASSUME NEW c \in Calls, CancelExport(c) \/ EndLoad(c) \/ RemoveDirectory(c)
        PROVE  Typed'
    <2>1. CASE CancelExport(c) \/ EndLoad(c)
      BY <2>1 DEF CancelExport, EndLoad, Sweep, ScratchLeft, Removal, NotSwept
    <2>2. CASE RemoveDirectory(c)
      <3>1. PICK s \in IF scratch[c] = "dir" THEN {"none", "dir"} ELSE {scratch[c]} :
               /\ scratch' = [scratch EXCEPT ![c] = s]
               /\ Goes(c, IF s = "dir" THEN [Idle EXCEPT !.at = "abandoned"] ELSE Idle)
        BY <2>2 DEF RemoveDirectory
      <3>2. s \in {"none", "dir", "file"}
        BY <3>1
      <3> QED
        BY <2>2, <3>1, <3>2 DEF RemoveDirectory, NotSwept
    <2> QED
      BY <1>2, <2>1, <2>2
  <1>3. ASSUME NEW c \in Calls, Generate(c) PROVE Typed'
    <2>1. PICK t \in NewTokens, swept \in Sweepings :
             /\ Clean(swept)
             /\ disk' = [Cleaned(swept) EXCEPT ![t] = "dir"]
             /\ stuck' = stuck \cup NotCleaned(swept)
             /\ Goes(c, [at |-> "writing", token |-> t, left |-> Life])
      BY <1>3 DEF Generate
    <2> QED
      BY <1>3, <2>1, CleanLemma DEF Generate, NewTokens
  <1>4. ASSUME NEW c \in Calls, GenerateFails(c) PROVE Typed'
    <2>1. PICK swept \in Sweepings, s \in Removal(scratch[c]) :
             /\ Clean(swept)
             /\ disk' = Cleaned(swept)
             /\ ScratchLeft(c, s)
             /\ stuck' = stuck \cup NotCleaned(swept) \cup NotSwept(c)
      BY <1>4 DEF GenerateFails
    <2>2. call' = [call EXCEPT ![c] = Idle] /\ UNCHANGED <<loop, told>> /\ answer' = NoAnswer
      BY <1>4 DEF GenerateFails
    <2>3. scratch' \in [Calls -> {"none", "dir", "file"}] /\ NotSwept(c) \subseteq Calls
      BY <2>1 DEF ScratchLeft, Removal, NotSwept
    <2>4. /\ DOMAIN links' \subseteq Tokens /\ links' \in [DOMAIN links' -> -1 .. Life]
          /\ disk' \in [Tokens -> {"none", "dir", "part", "file"}]
          /\ dangling' \subseteq DOMAIN links'
          /\ stuck' \subseteq Tokens \cup Calls
      BY <2>1, <2>3, CleanLemma
    <2>5. /\ call' \in [Calls -> [at : {"idle", "asking", "saved", "loaded", "writing",
                                     "listed", "fetching", "fetched", "sweeping",
                                     "abandoned", "found", "reading", "read", "missing",
                                     "unreadable"},
                               token : Tokens \cup {NoToken}, left : -1 .. Life]]
          /\ Known'
      BY <2>2
    <2>6. /\ loop' \in Calls \cup {Free} /\ told' \in [Tokens -> -1 .. Life]
          /\ answer' \in [token : Tokens \cup {NoToken},
                          status : {"none", "200", "404", "410", "500", "unreadable"}]
      BY <2>2
    <2> QED
      BY <2>3, <2>4, <2>5, <2>6
  <1>5. ASSUME NEW c \in Calls, WriteAndList(c) \/ TellClient(c) PROVE Typed'
    BY <1>5 DEF WriteAndList, TellClient, Publish, Sweep, ScratchLeft, Removal, NotSwept
  <1>6. ASSUME NEW c \in Calls, WriteFails(c) PROVE Typed'
    BY <1>6 DEF WriteFails, ScratchLeft, Removal, NotSwept
  <1>12. ASSUME NEW c \in Calls, ListedButFails(c) PROVE Typed'
    BY <1>12 DEF ListedButFails, ScratchLeft, Removal, NotSwept, Ordered, Found
  <1>7. ASSUME NEW c \in Calls, NEW t \in Tokens, Request(c, t) PROVE Typed'
    <2>1. PICK swept \in Sweepings :
             /\ Clean(swept)
             /\ disk' = Cleaned(swept)
             /\ stuck' = stuck \cup NotCleaned(swept)
      BY <1>7 DEF Request
    <2>2. scratch' = scratch /\ told' = told
      BY <1>7 DEF Request
    <2>3. CASE t \in DOMAIN links'
      <3>1. t \in Listed /\ links[t] \in -1 .. Life
        BY <2>1, <2>3, CleanLemma
      <3>2. /\ call' = [call EXCEPT ![c] = [at |-> "found", token |-> t, left |-> links[t]]]
            /\ loop' = c
            /\ answer' = NoAnswer
            /\ scratch' = scratch
        BY <1>7, <2>3 DEF Request
      <3> QED
        BY <2>1, <2>2, <3>1, <3>2, CleanLemma
    <2>4. CASE t \notin DOMAIN links'
      BY <1>7, <2>1, <2>2, <2>4, CleanLemma DEF Request
    <2> QED
      BY <2>3, <2>4
  <1>8. ASSUME NEW c \in Calls, Gone(c) PROVE Typed'
    BY <1>8 DEF Gone
  <1>9. ASSUME NEW c \in Calls, StartReading(c) \/ ReadFile(c) \/ Respond(c) PROVE Typed'
    BY <1>9 DEF StartReading, ReadFile, Respond
  <1>10. CASE Tick
    <2>1. /\ links' \in [Listed -> -1 .. Life]
          /\ told' \in [Tokens -> -1 .. Life]
      BY <1>10, OlderLemma DEF Tick
    <2>2. \A c \in Calls :
             call'[c] = [at |-> call[c].at, token |-> call[c].token,
                         left |-> Older(call[c].left)]
      BY <1>10 DEF Tick
    <2>3. call' = [c \in Calls |-> call'[c]]
      BY <1>10 DEF Tick
    <2> QED
      <3>1. UNCHANGED <<disk, scratch, loop, dangling, stuck>> /\ answer' = NoAnswer
        BY <1>10 DEF Tick
      <3>2. \A c \in Calls : Older(call[c].left) \in -1 .. Life
        BY OlderLemma
      <3>3. call' \in [Calls -> [at : {"idle", "asking", "saved", "loaded", "writing",
                                     "listed", "fetching", "fetched", "sweeping",
                                     "abandoned", "found", "reading", "read", "missing",
                                     "unreadable"},
                               token : Tokens \cup {NoToken}, left : -1 .. Life]]
        BY <2>2, <2>3, <3>2
      <3> QED
        BY <2>1, <2>2, <3>1, <3>3
  <1>11. CASE UNCHANGED vars
    BY <1>11 DEF vars
  <1> QED
    BY <1>1, <1>2, <1>3, <1>4, <1>5, <1>6, <1>7, <1>8, <1>9, <1>10, <1>11,
       <1>12 DEF Next

-----------------------------------------------------------------------------
(* The calls on the event loop, and what they found. *)

\* The steps that touch neither the links nor what is told of them.
Quiet(c) ==
    \/ AskModel(c) \/ ModelAnswers(c) \/ ModelFails(c)
    \/ BeginExport(c) \/ ReadBack(c) \/ CancelExport(c)
    \/ BeginLoad(c) \/ FetchOpens(c) \/ EndLoad(c) \/ CancelLoad(c) \/ RemoveDirectory(c)

LEMMA QuietLemma ==
    ASSUME Typed, Typed', HoldsTheLoop, NEW c \in Calls, Quiet(c)
    PROVE  /\ UNCHANGED <<links, told, disk, dangling>>
           /\ answer' = NoAnswer
           /\ \A d \in Calls \ {c} : call'[d] = call[d]
           /\ call'[c].at \notin {"writing", "listed", "found", "missing"}
           /\ call'[c].at = "sweeping" => loop' = c
           /\ call'[c].token \in {NoToken, call[c].token}
           /\ loop' = loop \/ loop \in {Free, c}
  <1> USE NoTokenAssumption, FreeAssumption, IdleAt
      DEF Typed, TypeOK, HoldsTheLoop, Goes, Silent, Starts
  <1>1. CASE AskModel(c)
    BY <1>1 DEF AskModel
  <1>2. CASE ModelAnswers(c)
    BY <1>2 DEF ModelAnswers
  <1>3. CASE ModelFails(c)
    BY <1>3 DEF ModelFails
  <1>4. CASE BeginExport(c)
    BY <1>4 DEF BeginExport
  <1>5. CASE ReadBack(c)
    BY <1>5 DEF ReadBack
  <1>6. CASE CancelExport(c)
    BY <1>6 DEF CancelExport
  <1>7. CASE BeginLoad(c)
    BY <1>7 DEF BeginLoad
  <1>8. CASE FetchOpens(c)
    BY <1>8 DEF FetchOpens
  <1>9. CASE EndLoad(c)
    BY <1>9 DEF EndLoad
  <1>10. CASE CancelLoad(c)
    BY <1>10 DEF CancelLoad
  <1>11. CASE RemoveDirectory(c)
    BY <1>11 DEF RemoveDirectory
  <1> QED
    BY <1>1, <1>2, <1>3, <1>4, <1>5, <1>6, <1>7, <1>8, <1>9, <1>10, <1>11 DEF Quiet

LEMMA OrderedStep == Typed /\ Typed' /\ Ordered /\ [Next]_vars => Ordered'
  <1> SUFFICES ASSUME Typed, Typed', Ordered, [Next]_vars PROVE Ordered'
    OBVIOUS
  <1>t. /\ \A c \in Calls : call[c].token \in Tokens \cup {NoToken}
        /\ \A c \in Calls : call[c].at \in WithToken => call[c].token \in Tokens
        /\ Listed \subseteq Tokens /\ Listed = DOMAIN links /\ Listed' = DOMAIN links'
    BY DEF Typed, TypeOK, Known, Listed
  <1> USE NoTokenAssumption, FreeAssumption, IdleAt
      DEF Ordered, HoldsTheLoop, Unlisted, Found
  <1>1. ASSUME NEW c \in Calls, Quiet(c) PROVE Ordered'
    <2>1. HoldsTheLoop'
      BY <1>1, QuietLemma
    <2>2. Unlisted' /\ Found'
      BY <1>1, QuietLemma, <1>t DEF WithToken, Listed
    <2> QED
      BY <2>1, <2>2
  <1>2. ASSUME NEW c \in Calls, Generate(c) PROVE Ordered'
    <2>1. PICK t \in NewTokens, swept \in Sweepings :
             /\ Clean(swept)
             /\ call' = [call EXCEPT ![c] = [at |-> "writing", token |-> t, left |-> Life]]
      BY <1>2 DEF Generate, Goes
    <2>2. loop = Free /\ loop' = c
      BY <1>2 DEF Generate, Starts
    <2>3. /\ t \notin Listed'
          /\ \A d \in Calls : call[d].token # t
      BY <2>1, <1>t, CleanLemma DEF NewTokens, Typed
    <2> QED
      BY <2>1, <2>2, <2>3 DEF Typed, TypeOK
  <1>3. ASSUME NEW c \in Calls, GenerateFails(c) PROVE Ordered'
    BY <1>3 DEF GenerateFails, Starts, Goes, Typed, TypeOK
  <1>4. ASSUME NEW c \in Calls, WriteAndList(c) PROVE Ordered'
    BY <1>4, <1>t DEF WriteAndList, Publish, Goes, Typed, TypeOK, WithToken
  <1>13. ASSUME NEW c \in Calls, TellClient(c) \/ ListedButFails(c) PROVE Ordered'
    <2>1. loop = c /\ call' = [call EXCEPT ![c] = Idle]
      BY <1>13 DEF TellClient, ListedButFails, Goes
    <2>2. \A d \in Calls : call'[d].at \notin {"writing", "listed", "found", "sweeping"}
      BY <2>1 DEF Typed, TypeOK
    <2> QED
      BY <2>2
  <1>5. ASSUME NEW c \in Calls, WriteFails(c) PROVE Ordered'
    BY <1>5 DEF WriteFails, Goes, Typed, TypeOK
  <1>6. ASSUME NEW c \in Calls, NEW t \in Tokens, Request(c, t) PROVE Ordered'
    <2>1. PICK swept \in Sweepings : Clean(swept)
      BY <1>6 DEF Request
    <2>2. loop = Free
      BY <1>6 DEF Request, Starts
    <2>3. CASE t \in DOMAIN links'
      <3>1. /\ call' = [call EXCEPT ![c] = [at |-> "found", token |-> t, left |-> links[t]]]
            /\ loop' = c
        BY <1>6, <2>3 DEF Request, Goes
      <3>2. links'[t] = links[t]
        BY <2>1, <2>3, CleanLemma DEF Typed
      <3> QED
        BY <2>2, <2>3, <3>1, <3>2, <1>t DEF Typed, TypeOK
    <2>4. CASE t \notin DOMAIN links'
      BY <1>6, <2>2, <2>4 DEF Request
    <2> QED
      BY <2>3, <2>4
  <1>7. ASSUME NEW c \in Calls, Gone(c) PROVE Ordered'
    <2>1. loop = c /\ call' = [call EXCEPT ![c] = Idle]
      BY <1>7 DEF Gone, Goes
    <2>2. \A d \in Calls : call'[d].at \notin {"writing", "listed", "found", "sweeping"}
      BY <2>1 DEF Typed, TypeOK
    <2> QED
      BY <2>2
  <1>8. ASSUME NEW c \in Calls, StartReading(c) PROVE Ordered'
    <2>1. loop = c /\ \A d \in Calls \ {c} : call'[d] = call[d]
      BY <1>8 DEF StartReading, Goes, Typed, TypeOK
    <2>2. call'[c].at \in {"idle", "reading"}
      BY <1>8 DEF StartReading, Goes, Typed, TypeOK
    <2>3. \A d \in Calls : call'[d].at \notin {"writing", "listed", "found", "sweeping"}
      BY <2>1, <2>2
    <2> QED
      BY <2>3
  <1>9. ASSUME NEW c \in Calls, ReadFile(c) PROVE Ordered'
    BY <1>9, <1>t DEF ReadFile, Goes, Typed, TypeOK
  <1>10. ASSUME NEW c \in Calls, Respond(c) PROVE Ordered'
    BY <1>10, <1>t DEF Respond, Goes, Typed, TypeOK
  <1>11. CASE Tick
    <2>1. \A c \in Calls :
             /\ call'[c].at = call[c].at /\ call'[c].token = call[c].token
             /\ call'[c].left = Older(call[c].left)
      BY <1>11 DEF Tick, Typed, TypeOK
    <2>2. Listed' = Listed /\ loop' = loop /\ \A t \in Listed : links'[t] = Older(links[t])
      BY <1>11 DEF Tick, Listed
    <2> QED
      BY <2>1, <2>2
  <1>12. CASE UNCHANGED vars
    BY <1>12 DEF vars, Listed
  <1> QED
    BY <1>1, <1>2, <1>3, <1>4, <1>5, <1>6, <1>7, <1>8, <1>9, <1>10, <1>11, <1>12,
       <1>13 DEF Next, Quiet

-----------------------------------------------------------------------------
(* What a link promises: its file, until the time the client was told. *)

LEMMA KeptAfterClean ==
    ASSUME Typed, Promised, Untold, ListedHasFile,
           NEW swept \in Sweepings, Clean(swept)
    PROVE  /\ \A t \in Tokens : told[t] >= 0 => t \in DOMAIN links' /\ links'[t] = told[t]
           /\ \A t \in DOMAIN links' \ dangling' : Cleaned(swept)[t] = "file"
           /\ dangling' \subseteq dangling
  <1>1. \A t \in Expired : links[t] < 0
    BY DEF Expired
  <1>2. \A t \in DOMAIN links' : Cleaned(swept)[t] = disk[t]
    BY CleanLemma DEF Typed, TypeOK, Cleaned
  <1> QED
    BY <1>1, <1>2, CleanLemma DEF Typed, TypeOK, Promised, Untold, ListedHasFile

LEMMA KeptStep == Typed /\ Typed' /\ Ordered /\ Kept /\ [Next]_vars => Kept'
  <1> SUFFICES ASSUME Typed, Typed', Ordered, Kept, [Next]_vars PROVE Kept'
    OBVIOUS
  <1>t. /\ call \in [Calls -> {call[c] : c \in Calls}]
        /\ \A c \in Calls : call[c].at \in WithToken => call[c].token \in Tokens
        /\ Listed \subseteq Tokens /\ Listed = DOMAIN links /\ Listed' = DOMAIN links'
        /\ told \in [Tokens -> -1 .. Life] /\ disk \in [Tokens -> {"none", "dir", "part", "file"}]
    BY DEF Typed, TypeOK, Known, Listed
  <1>n. NoAnswer.status = "none"
    BY DEF NoAnswer
  <1>d. dangling \subseteq Listed
    BY DEF Typed, TypeOK
  <1> USE DEF Kept, Promised, Missed, Untold, ListedHasFile, ServedUntilExpiry
  <1>1. ASSUME NEW c \in Calls, Quiet(c) PROVE Kept'
    <2>1. /\ UNCHANGED <<links, told, disk, dangling>> /\ answer' = NoAnswer
          /\ \A d \in Calls \ {c} : call'[d] = call[d]
          /\ call'[c].at \notin {"listed", "missing"}
      BY <1>1, QuietLemma DEF Ordered
    <2> QED
      BY <2>1, <1>n, <1>t DEF WithToken, Listed
  <1>2. ASSUME NEW c \in Calls, Generate(c) PROVE Kept'
    <2>1. PICK t \in NewTokens, swept \in Sweepings :
             /\ Clean(swept)
             /\ disk' = [Cleaned(swept) EXCEPT ![t] = "dir"]
             /\ call' = [call EXCEPT ![c] = [at |-> "writing", token |-> t, left |-> Life]]
      BY <1>2 DEF Generate, Goes
    <2>2. t \notin Listed /\ told' = told /\ answer' = NoAnswer
      BY <1>2, <2>1 DEF Generate, NewTokens, Silent
    <2>3. Promised' /\ ListedHasFile'
      BY <2>1, <2>2, <1>t, CleanLemma, KeptAfterClean DEF Typed
    <2>4. Missed' /\ ServedUntilExpiry'
      BY <2>1, <2>2, <1>n, <1>t DEF WithToken
    <2>5. Untold'
      BY <2>1, <2>2, <1>t, KeptAfterClean DEF WithToken
    <2> QED
      BY <2>3, <2>4, <2>5
  <1>3. ASSUME NEW c \in Calls, GenerateFails(c) PROVE Kept'
    <2>1. PICK swept \in Sweepings :
             Clean(swept) /\ disk' = Cleaned(swept)
      BY <1>3 DEF GenerateFails
    <2>2. call' = [call EXCEPT ![c] = Idle] /\ told' = told /\ answer' = NoAnswer
      BY <1>3 DEF GenerateFails, Goes, Silent
    <2>3. Promised' /\ ListedHasFile'
      BY <2>1, <2>2, <1>t, KeptAfterClean
    <2>4. Missed' /\ ServedUntilExpiry'
      BY <2>1, <2>2, <1>n, <1>t, IdleAt DEF WithToken
    <2>5. Untold'
      BY <2>1, <2>2, <1>t, KeptAfterClean, IdleAt DEF WithToken
    <2> QED
      BY <2>3, <2>4, <2>5
  <1>4. ASSUME NEW c \in Calls, WriteAndList(c) PROVE Kept'
    <2> DEFINE t == call[c].token
    <2>1. /\ call[c].at = "writing"
          /\ disk' = [disk EXCEPT ![t] = "file"]
          /\ links' = [u \in Listed \cup {t} |-> IF u = t THEN call[c].left ELSE links[u]]
          /\ call' = [call EXCEPT ![c] = [call[c] EXCEPT !.at = "listed"]]
          /\ UNCHANGED <<told, dangling>> /\ answer' = NoAnswer
      BY <1>4 DEF WriteAndList, Publish, Goes, Silent
    <2>2. t \in Tokens /\ t \notin Listed /\ told[t] < 0
      BY <2>1, <1>t DEF Ordered, Unlisted, WithToken
    <2>3. Promised' /\ ListedHasFile'
      BY <2>1, <2>2, <1>t
    <2>4. call'[c].at = "listed" /\ call'[c].token = t /\ \A d \in Calls \ {c} : call'[d] = call[d]
      BY <2>1 DEF Typed, TypeOK
    <2>5. Missed' /\ Untold' /\ ServedUntilExpiry'
      BY <2>1, <2>2, <2>4, <1>n, <1>t, <1>d
    <2> QED
      BY <2>3, <2>5
  <1>13. ASSUME NEW c \in Calls, TellClient(c) PROVE Kept'
    <2> DEFINE t == call[c].token
    <2>1. /\ call[c].at = "listed"
          /\ told' = [told EXCEPT ![t] = call[c].left]
          /\ call' = [call EXCEPT ![c] = Idle]
          /\ UNCHANGED <<links, disk, dangling>> /\ answer' = NoAnswer
      BY <1>13 DEF TellClient, Goes, Silent
    <2>2. /\ t \in Listed /\ links[t] = call[c].left /\ t \notin dangling
          /\ \A d \in Calls \ {c} : call[d].token # t
      BY <2>1 DEF Ordered, Unlisted, Found
    <2>3. Promised' /\ ListedHasFile'
      BY <2>1, <2>2, <1>t
    <2>4. call'[c].at = "idle" /\ \A d \in Calls \ {c} : call'[d] = call[d]
      BY <2>1, IdleAt DEF Typed, TypeOK
    <2>5. Missed' /\ Untold' /\ ServedUntilExpiry'
      BY <2>1, <2>2, <2>4, <1>n, <1>t, <1>d DEF WithToken
    <2> QED
      BY <2>3, <2>5
  <1>14. ASSUME NEW c \in Calls, ListedButFails(c) PROVE Kept'
    <2> DEFINE t == call[c].token
    <2>1. PICK d \in {"none", "dir", "file"} : disk' = [disk EXCEPT ![t] = d]
      BY <1>14 DEF ListedButFails, Removal
    <2>2. /\ call[c].at = "listed" /\ dangling' = dangling \cup {t}
          /\ call' = [call EXCEPT ![c] = Idle]
          /\ UNCHANGED <<links, told>> /\ answer' = NoAnswer
      BY <1>14 DEF ListedButFails, Goes, Silent
    <2>3. /\ told[t] < 0 /\ \A e \in Calls \ {c} : call[e].token # t
      BY <2>2 DEF Ordered, Unlisted
    <2>4. Promised' /\ ListedHasFile'
      BY <2>1, <2>2, <1>t
    <2>5. call'[c].at = "idle" /\ \A e \in Calls \ {c} : call'[e] = call[e]
      BY <2>2, IdleAt DEF Typed, TypeOK
    <2>6. Missed' /\ Untold' /\ ServedUntilExpiry'
      BY <2>2, <2>3, <2>5, <1>n, <1>t
    <2> QED
      BY <2>4, <2>6
  <1>5. ASSUME NEW c \in Calls, WriteFails(c) PROVE Kept'
    <2>1. PICK d \in {"none", "dir", "part"} : disk' = [disk EXCEPT ![call[c].token] = d]
      BY <1>5 DEF WriteFails, Removal
    <2>2. /\ call[c].token \notin Listed
          /\ call' = [call EXCEPT ![c] = Idle]
          /\ UNCHANGED <<links, told, dangling>> /\ answer' = NoAnswer
      BY <1>5 DEF WriteFails, Goes, Silent, Ordered, Unlisted
    <2> QED
      BY <2>1, <2>2, <1>n, <1>t, IdleAt DEF WithToken
  <1>6. ASSUME NEW c \in Calls, NEW t \in Tokens, Request(c, t) PROVE Kept'
    <2>1. PICK swept \in Sweepings :
             Clean(swept) /\ disk' = Cleaned(swept)
      BY <1>6 DEF Request
    <2>2. told' = told /\ Promised' /\ ListedHasFile' /\ dangling' \subseteq dangling
      BY <1>6, <2>1, <1>t, KeptAfterClean DEF Request
    <2>3. CASE t \in DOMAIN links'
      <3>1. /\ call' = [call EXCEPT ![c] = [at |-> "found", token |-> t, left |-> links[t]]]
            /\ answer' = NoAnswer
        BY <1>6, <2>3 DEF Request, Goes, Silent
      <3>2. call'[c].at = "found" /\ \A d \in Calls \ {c} : call'[d] = call[d]
        BY <3>1 DEF Typed, TypeOK
      <3> QED
        BY <2>2, <3>1, <3>2, <1>n, <1>t
    <2>4. CASE t \notin DOMAIN links'
      <3>1. call' = call /\ answer' = [token |-> t, status |-> "404"]
        BY <1>6, <2>4 DEF Request, Answered
      <3>2. ~(told[t] >= 0)
        BY <2>4, <2>2, <1>t
      <3> QED
        BY <2>2, <3>1, <3>2, <1>t
    <2> QED
      BY <2>3, <2>4
  <1>7. ASSUME NEW c \in Calls, Gone(c) PROVE Kept'
    <2> DEFINE t == call[c].token
    <2>1. PICK d : disk' = [disk EXCEPT ![t] = d]
      BY <1>7 DEF Gone
    <2>2. /\ call[c].at = "found" /\ call[c].left < 0
          /\ links' = [u \in Listed \ {t} |-> links[u]]
          /\ call' = [call EXCEPT ![c] = Idle] /\ told' = told
          /\ dangling' = dangling \ {t}
          /\ answer' = [token |-> t, status |-> "410"]
      BY <1>7 DEF Gone, Goes, Answered
    <2>3. t \in Tokens /\ ~(told[t] >= 0)
      BY <2>2, <1>t DEF Ordered, Found, WithToken
    <2>4. Promised' /\ ListedHasFile'
      BY <2>1, <2>2, <2>3, <1>t
    <2>5. Missed' /\ Untold' /\ ServedUntilExpiry'
      BY <2>2, <2>3, <1>t, IdleAt
    <2> QED
      BY <2>4, <2>5
  <1>8. ASSUME NEW c \in Calls, StartReading(c) PROVE Kept'
    <2> DEFINE t == call[c].token
    <2>1. UNCHANGED <<links, disk, told, dangling>> /\ t \in Tokens
      BY <1>8, <1>t DEF StartReading, WithToken
    <2>2. /\ \A d \in Calls \ {c} : call'[d] = call[d]
          /\ call'[c].at \in {"idle", "reading"}
      BY <1>8, IdleAt DEF StartReading, Goes, Typed, TypeOK
    <2>3. answer' = NoAnswer \/ (answer'.token = t /\ told[t] < 0)
      BY <1>8, <2>1, <1>t DEF StartReading, Silent, Answered, Typed, TypeOK
    <2>4. Promised' /\ Missed' /\ Untold' /\ ListedHasFile'
      BY <2>1, <2>2, <1>t
    <2>5. ServedUntilExpiry'
      BY <2>1, <2>3, <1>n
    <2> QED
      BY <2>4, <2>5
  <1>9. ASSUME NEW c \in Calls, ReadFile(c) PROVE Kept'
    <2> DEFINE t == call[c].token
    <2>1. PICK at \in {"unreadable", IF disk[t] = "file" THEN "read" ELSE "missing"} :
             call' = [call EXCEPT ![c] = [call[c] EXCEPT !.at = at]]
      BY <1>9 DEF ReadFile, Goes
    <2>2. UNCHANGED <<links, disk, told, dangling>> /\ answer' = NoAnswer /\ t \in Tokens
      BY <1>9, <1>t DEF ReadFile, Silent, WithToken
    <2>3. call'[c].at = "missing" => told[t] < 0
      BY <2>1, <2>2, <1>t DEF Typed, TypeOK
    <2>4. call'[c].token = t /\ call'[c].at # "listed" /\ \A d \in Calls \ {c} : call'[d] = call[d]
      BY <2>1 DEF Typed, TypeOK
    <2> QED
      BY <2>2, <2>3, <2>4, <1>n, <1>t
  <1>10. ASSUME NEW c \in Calls, Respond(c) PROVE Kept'
    <2>1. /\ answer'.token = call[c].token
          /\ answer'.status = "500" => call[c].at = "missing"
          /\ answer'.status \in {"200", "500", "unreadable"}
      BY <1>10 DEF Respond, Answered
    <2>2. /\ call' = [call EXCEPT ![c] = Idle] /\ UNCHANGED <<links, disk, told, dangling>>
      BY <1>10 DEF Respond, Goes
    <2> QED
      BY <2>1, <2>2, <1>t, IdleAt DEF Listed
  <1>11. CASE Tick
    <2>1. \A c \in Calls : call'[c].at = call[c].at /\ call'[c].token = call[c].token
      BY <1>11 DEF Tick, Typed, TypeOK
    <2>2. /\ Listed' = Listed /\ disk' = disk /\ dangling' = dangling /\ answer' = NoAnswer
          /\ \A t \in Listed : links'[t] = Older(links[t])
          /\ \A t \in Tokens : told'[t] = Older(told[t])
      BY <1>11 DEF Tick, Listed, Silent
    <2>3. \A t \in Tokens : (told'[t] >= 0 => told[t] >= 0) /\ (told[t] < 0 => told'[t] < 0)
      BY <2>2, <1>t, OlderLemma
    <2>4. Promised' /\ ListedHasFile'
      BY <2>2, <2>3, <1>t
    <2>5. Missed' /\ Untold' /\ ServedUntilExpiry'
      BY <2>1, <2>2, <2>3, <1>n, <1>t, <1>d DEF WithToken
    <2> QED
      BY <2>4, <2>5
  <1>12. CASE UNCHANGED vars
    BY <1>12 DEF vars, Listed
  <1> QED
    BY <1>1, <1>2, <1>3, <1>4, <1>5, <1>6, <1>7, <1>8, <1>9, <1>10, <1>11, <1>12,
       <1>13, <1>14
    DEF Next, Quiet

-----------------------------------------------------------------------------
(* Who will remove a file. *)

\* Cleaning up leaves no file without an owner.
LEMMA OwnedAfterClean ==
    ASSUME Typed, TokenOwned,
           NEW swept \in Sweepings, Clean(swept)
    PROVE  \A t \in Tokens :
             /\ Cleaned(swept)[t] = "part" => t \in stuck \cup NotCleaned(swept)
             /\ Cleaned(swept)[t] = "file" =>
                    t \in DOMAIN links' \cup stuck \cup NotCleaned(swept)
  <1>1. \A t \in Expired : Cleaned(swept)[t] = swept[t]
    BY DEF Typed, TypeOK, Cleaned, Expired
  <1>2. \A t \in Tokens \ Expired : Cleaned(swept)[t] = disk[t]
    BY DEF Cleaned
  <1> QED
    BY <1>1, <1>2, CleanLemma DEF Typed, TokenOwned, NotCleaned

LEMMA TokenOwnedStep ==
    Typed /\ Typed' /\ Ordered /\ TokenOwned /\ [Next]_vars => TokenOwned'
  <1> SUFFICES ASSUME Typed, Typed', Ordered, TokenOwned, [Next]_vars PROVE TokenOwned'
    OBVIOUS
  <1>t. /\ \A c \in Calls : call[c].at \in WithToken => call[c].token \in Tokens
        /\ Listed \subseteq Tokens /\ Listed = DOMAIN links /\ Listed' = DOMAIN links'
        /\ disk \in [Tokens -> {"none", "dir", "part", "file"}]
    BY DEF Typed, TypeOK, Known, Listed
  <1>1. ASSUME NEW c \in Calls, Quiet(c) PROVE TokenOwned'
    <2>1. stuck \subseteq stuck'
      BY <1>1 DEF Quiet, AskModel, ModelAnswers, ModelFails, BeginExport, ReadBack,
                  CancelExport, BeginLoad, FetchOpens, EndLoad, CancelLoad, RemoveDirectory,
                  Sweep
    <2> QED
      BY <1>1, <2>1, <1>t, QuietLemma DEF Ordered, TokenOwned
  <1>2. ASSUME NEW c \in Calls, Generate(c) PROVE TokenOwned'
    <2>1. PICK t \in NewTokens, swept \in Sweepings :
             /\ Clean(swept)
             /\ disk' = [Cleaned(swept) EXCEPT ![t] = "dir"]
             /\ stuck' = stuck \cup NotCleaned(swept)
      BY <1>2 DEF Generate
    <2> QED
      BY <2>1, <1>t, OwnedAfterClean, CleanLemma DEF Typed, TokenOwned
  <1>3. ASSUME NEW c \in Calls, GenerateFails(c) PROVE TokenOwned'
    <2>1. PICK swept \in Sweepings :
             /\ Clean(swept) /\ disk' = Cleaned(swept)
             /\ stuck' = stuck \cup NotCleaned(swept) \cup NotSwept(c)
      BY <1>3 DEF GenerateFails
    <2> QED
      BY <2>1, <1>t, OwnedAfterClean DEF TokenOwned
  <1>4. ASSUME NEW c \in Calls, WriteAndList(c) PROVE TokenOwned'
    <2>1. /\ disk' = [disk EXCEPT ![call[c].token] = "file"]
          /\ Listed' = Listed \cup {call[c].token} /\ stuck' = stuck
      BY <1>4 DEF WriteAndList, Publish, Listed
    <2> QED
      BY <2>1, <1>t DEF TokenOwned
  <1>11. ASSUME NEW c \in Calls, TellClient(c) PROVE TokenOwned'
    <2>1. UNCHANGED <<links, disk>> /\ stuck \subseteq stuck'
      BY <1>11 DEF TellClient, Sweep
    <2> QED
      BY <2>1, <1>t DEF TokenOwned
  <1>12. ASSUME NEW c \in Calls, ListedButFails(c) PROVE TokenOwned'
    <2>1. PICK d \in {"none", "dir", "file"} :
             /\ disk' = [disk EXCEPT ![call[c].token] = d]
             /\ stuck' = stuck \cup {u \in {call[c].token} : d # "none"} \cup NotSwept(c)
      BY <1>12 DEF ListedButFails, Removal
    <2>2. links' = links
      BY <1>12 DEF ListedButFails
    <2> QED
      BY <2>1, <2>2, <1>t DEF TokenOwned
  <1>5. ASSUME NEW c \in Calls, WriteFails(c) PROVE TokenOwned'
    <2>1. PICK d \in {"none", "dir", "part"} :
             /\ disk' = [disk EXCEPT ![call[c].token] = d]
             /\ stuck' = stuck \cup {u \in {call[c].token} : d # "none"} \cup NotSwept(c)
      BY <1>5 DEF WriteFails, Removal
    <2>2. links' = links
      BY <1>5 DEF WriteFails
    <2> QED
      BY <2>1, <2>2, <1>t DEF TokenOwned
  <1>6. ASSUME NEW c \in Calls, NEW t \in Tokens, Request(c, t) PROVE TokenOwned'
    <2>1. PICK swept \in Sweepings :
             /\ Clean(swept) /\ disk' = Cleaned(swept)
             /\ stuck' = stuck \cup NotCleaned(swept)
      BY <1>6 DEF Request
    <2> QED
      BY <2>1, <1>t, OwnedAfterClean DEF TokenOwned
  <1>7. ASSUME NEW c \in Calls, Gone(c) PROVE TokenOwned'
    <2> DEFINE t == call[c].token
    <2>1. PICK d \in IF disk[t] = "file" THEN {"dir", "file"} ELSE {disk[t]} :
             /\ disk' = [disk EXCEPT ![t] = d]
             /\ stuck' = stuck \cup {u \in {t} : d = "file"}
      BY <1>7 DEF Gone
    <2>2. Listed' = Listed \ {t} /\ t \in Listed
      BY <1>7 DEF Gone, Listed, Ordered, Found
    <2> QED
      BY <2>1, <2>2, <1>t DEF TokenOwned
  <1>8. ASSUME NEW c \in Calls, StartReading(c) \/ ReadFile(c) \/ Respond(c)
        PROVE  TokenOwned'
    BY <1>8, <1>t DEF StartReading, ReadFile, Respond, TokenOwned
  <1>9. CASE Tick
    BY <1>9, <1>t DEF Tick, TokenOwned
  <1>10. CASE UNCHANGED vars
    BY <1>10, <1>t DEF vars, TokenOwned
  <1> QED
    BY <1>1, <1>2, <1>3, <1>4, <1>5, <1>6, <1>7, <1>8, <1>9, <1>10, <1>11, <1>12
    DEF Next, Quiet

LEMMA ScratchOwnedStep ==
    Typed /\ Typed' /\ NoScratch /\ ScratchOwned /\ Abandoned /\ [Next]_vars
        => NoScratch' /\ ScratchOwned' /\ Abandoned'
  <1> SUFFICES ASSUME Typed, Typed', NoScratch, ScratchOwned, Abandoned, [Next]_vars
               PROVE  NoScratch' /\ ScratchOwned' /\ Abandoned'
    OBVIOUS
  <1> DEFINE P == NoScratch' /\ ScratchOwned' /\ Abandoned'
  <1>t. /\ \A c \in Calls : scratch[c] \in {"none", "dir", "file"}
        /\ DOMAIN call = Calls /\ DOMAIN scratch = Calls
    BY DEF Typed, TypeOK
  <1>i. Idle.at = "idle"
    BY DEF Idle
  \* It is enough to look at the call that takes the step.
  <1>c. ASSUME NEW c \in Calls,
               \A d \in Calls \ {c} : call'[d] = call[d] /\ scratch'[d] = scratch[d],
               stuck \subseteq stuck',
               call'[c].at \in {"asking", "found", "reading", "read", "missing", "unreadable"}
                   => scratch'[c] = "none",
               scratch'[c] = "file" => call'[c].at # "idle" \/ c \in stuck',
               call'[c].at = "abandoned" => c \in stuck'
        PROVE  P
    BY <1>c DEF NoScratch, ScratchOwned, Abandoned
  <1> USE <1>t, <1>i, IdleAt DEF Goes, NoScratch, ScratchOwned, Abandoned, ScratchLeft, Starts
  <1>1. ASSUME NEW c \in Calls, AskModel(c) PROVE P
    BY <1>1, <1>c DEF AskModel
  <1>2. ASSUME NEW c \in Calls, ModelAnswers(c) PROVE P
    BY <1>2, <1>c DEF ModelAnswers
  <1>3. ASSUME NEW c \in Calls, ModelFails(c) PROVE P
    BY <1>3, <1>c DEF ModelFails
  <1>4. ASSUME NEW c \in Calls, BeginExport(c) \/ BeginLoad(c) PROVE P
    BY <1>4, <1>c DEF BeginExport, BeginLoad
  <1>5. ASSUME NEW c \in Calls, ReadBack(c) PROVE P
    BY <1>5, <1>c DEF ReadBack
  <1>6. ASSUME NEW c \in Calls, CancelExport(c) \/ EndLoad(c) PROVE P
    <2>1. /\ call' = [call EXCEPT ![c] = Idle] /\ stuck' = stuck \cup NotSwept(c)
          /\ \A d \in Calls \ {c} : scratch'[d] = scratch[d]
      BY <1>6 DEF CancelExport, EndLoad, Sweep
    <2> QED
      BY <2>1, <1>c DEF NotSwept
  <1>7. ASSUME NEW c \in Calls, FetchOpens(c) PROVE P
    BY <1>7, <1>c DEF FetchOpens
  <1>8. ASSUME NEW c \in Calls, CancelLoad(c) PROVE P
    BY <1>8, <1>c DEF CancelLoad
  <1>9. ASSUME NEW c \in Calls, RemoveDirectory(c) PROVE P
    <2>1. PICK s \in IF scratch[c] = "dir" THEN {"none", "dir"} ELSE {scratch[c]} :
             /\ scratch' = [scratch EXCEPT ![c] = s]
             /\ call' = [call EXCEPT ![c] = IF s = "dir" THEN [Idle EXCEPT !.at = "abandoned"]
                                           ELSE Idle]
      BY <1>9 DEF RemoveDirectory
    <2>2. stuck' = stuck \cup NotSwept(c) /\ call[c].at = "sweeping"
      BY <1>9 DEF RemoveDirectory
    <2>3. scratch'[c] = s /\ (s # "none" => c \in stuck')
      BY <2>1, <2>2 DEF NotSwept
    <2>4. call'[c].at \in {"idle", "abandoned"} /\ (call'[c].at = "abandoned" => s = "dir")
      BY <2>1
    <2> QED
      BY <2>1, <2>2, <2>3, <2>4, <1>c
  <1>10. ASSUME NEW c \in Calls, Generate(c) PROVE P
    BY <1>10, <1>c DEF Generate
  <1>11. ASSUME NEW c \in Calls, GenerateFails(c) PROVE P
    BY <1>11, <1>c DEF GenerateFails, NotSwept
  <1>12. ASSUME NEW c \in Calls, WriteAndList(c) PROVE P
    BY <1>12, <1>c DEF WriteAndList
  <1>20. ASSUME NEW c \in Calls, TellClient(c) PROVE P
    BY <1>20, <1>c DEF TellClient, Sweep, NotSwept
  <1>21. ASSUME NEW c \in Calls, ListedButFails(c) PROVE P
    BY <1>21, <1>c DEF ListedButFails, NotSwept
  <1>13. ASSUME NEW c \in Calls, WriteFails(c) PROVE P
    BY <1>13, <1>c DEF WriteFails, NotSwept
  <1>14. ASSUME NEW c \in Calls, NEW t \in Tokens, Request(c, t) PROVE P
    BY <1>14, <1>c DEF Request
  <1>15. ASSUME NEW c \in Calls, Gone(c) PROVE P
    BY <1>15, <1>c DEF Gone
  <1>16. ASSUME NEW c \in Calls, StartReading(c) PROVE P
    BY <1>16, <1>c DEF StartReading
  <1>17. ASSUME NEW c \in Calls, ReadFile(c) \/ Respond(c) PROVE P
    <2>1. CASE ReadFile(c)
      <3>1. PICK at \in {"unreadable", "read", "missing"} :
               call' = [call EXCEPT ![c] = [call[c] EXCEPT !.at = at]]
        BY <2>1 DEF ReadFile
      <3>2. call'[c].at = at /\ scratch[c] = "none"
        BY <2>1, <3>1 DEF ReadFile, Typed, TypeOK
      <3> QED
        BY <2>1, <3>1, <3>2, <1>c DEF ReadFile
    <2>2. CASE Respond(c)
      BY <2>2, <1>c DEF Respond
    <2> QED
      BY <1>17, <2>1, <2>2
  <1>18. CASE Tick
    BY <1>18 DEF Tick, Typed, TypeOK
  <1>19. CASE UNCHANGED vars
    BY <1>19 DEF vars
  <1> QED
    BY <1>1, <1>2, <1>3, <1>4, <1>5, <1>6, <1>7, <1>8, <1>9, <1>10, <1>11, <1>12,
       <1>13, <1>14, <1>15, <1>16, <1>17, <1>18, <1>19, <1>20, <1>21 DEF Next

-----------------------------------------------------------------------------
LEMMA SafeAlways == Spec => []Safe
  <1>1. Init => Safe
    <2>1. Init => Typed
      BY LifeAssumption
      DEF Init, Typed, TypeOK, Known, WithToken, Listed, Idle, NoAnswer
    <2>2. Init => Ordered /\ Kept /\ Owned
      BY DEF Init, Ordered, HoldsTheLoop, Unlisted, Found, Kept, Promised, Missed,
             Untold, ListedHasFile, ServedUntilExpiry, Owned, NoScratch, TokenOwned,
             ScratchOwned, Abandoned, Listed, Idle, NoAnswer
    <2> QED
      BY <2>1, <2>2 DEF Safe
  <1>2. Safe /\ [Next]_vars => Safe'
    BY TypedStep, OrderedStep, KeptStep, TokenOwnedStep, ScratchOwnedStep DEF Safe, Owned
  <1> QED
    BY <1>1, <1>2, PTL DEF Spec

\* Every variable of Downloads always has its type.
THEOREM DownloadsTypeCorrect == Spec => []TypeOK
  <1>1. Safe => TypeOK
    BY DEF Safe, Typed
  <1> QED
    BY <1>1, SafeAlways, PTL

\* A listed link always has its whole file, at any number of writes, requests
\* and failures at a time, but for the links whose own call failed after it had
\* listed them.
THEOREM LinksHaveFiles == Spec => []ListedHasFile
  <1>1. Safe => ListedHasFile
    BY DEF Safe, Kept
  <1> QED
    BY <1>1, SafeAlways, PTL

\* A link that a request has found is still listed when the same request comes to
\* drop it or to test its file.
THEOREM FoundLinksStay == Spec => []FoundStaysListed
  <1>1. Safe => FoundStaysListed
    BY DEF Safe, Ordered, Found, FoundStaysListed
  <1> QED
    BY <1>1, SafeAlways, PTL

\* A link answers with its file until the expiry the client was told, however
\* the steps of its request and of the others that clean up are mixed.
THEOREM LinksLiveAsTold == Spec => []ServedUntilExpiry
  <1>1. Safe => ServedUntilExpiry
    BY DEF Safe, Kept
  <1> QED
    BY <1>1, SafeAlways, PTL

\* A file is always listed, in the hands of a call, or one that the disk did not
\* let go.
THEOREM FilesAlwaysHaveOwners == Spec => []FilesHaveOwners
  <1>1. Safe => FilesHaveOwners
    BY DEF Safe, Owned, TokenOwned, ScratchOwned, FilesHaveOwners, Idle
  <1> QED
    BY <1>1, SafeAlways, PTL
=============================================================================
