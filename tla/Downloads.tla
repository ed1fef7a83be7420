------------------------------ MODULE Downloads ------------------------------
(***************************************************************************)
(* The files the server writes for its clients (utils/download_utils.py):  *)
(* each one in a temporary directory of its own, listed under a token,     *)
(* served over HTTP and removed by age.  With them, the scratch files of   *)
(* export_network and load_network_from_url (tools/utils/io.py).           *)
(*                                                                         *)
(* Tools and endpoints are coroutines on one event loop: the one that      *)
(* holds `loop` runs alone up to its next await.  The clock and the        *)
(* threads that read and fetch files advance at any time, also within such *)
(* a stretch: it is cut where the code looks at the clock again.           *)
(*                                                                         *)
(* A removal may fail (OSError): the code logs it and goes on.             *)
(***************************************************************************)
EXTENDS Integers, FiniteSets

CONSTANTS
    Calls,     \* slots for the tool calls and requests in flight
    Tokens,    \* download tokens, each with its temporary directory
    Life,      \* ticks a link lives (DOWNLOAD_LINK_EXPIRY_SECONDS)
    NoToken,   \* "no token"
    Free       \* nobody holds the event loop

ASSUME LifeAssumption == Life \in Nat
ASSUME NoTokenAssumption == NoToken \notin Tokens
ASSUME FreeAssumption == Free \notin Calls

VARIABLES
    links,     \* download_links: token -> ticks until expires_at, -1 once past
    disk,      \* what is in the temporary directory of each token
    scratch,   \* the scratch file or directory of the tool call in each slot
    call,      \* call[c]: where the call in slot c stands, its token and the
               \* ticks until the expires_at it holds
    loop,      \* the call that holds the event loop, or Free
    told,      \* history: ticks until the expiry the client was told
    answer,    \* history: the HTTP answer of this step, or NoAnswer
    dangling,  \* history: the listed tokens whose call failed after the listing
    stuck      \* history: the tokens and slots with a removal that failed

vars == <<links, disk, scratch, call, loop, told, answer, dangling, stuck>>

Listed == DOMAIN links
NoAnswer == [token |-> NoToken, status |-> "none"]
Idle == [at |-> "idle", token |-> NoToken, left |-> -1]

Answered(t, status) == answer' = [token |-> t, status |-> status]
Silent == answer' = NoAnswer

Goes(c, to) == call' = [call EXCEPT ![c] = to]

TypeOK ==
    /\ Listed \subseteq Tokens
    /\ links \in [Listed -> -1 .. Life]
    /\ disk \in [Tokens -> {"none", "dir", "part", "file"}]
    /\ scratch \in [Calls -> {"none", "dir", "file"}]
    /\ call \in [Calls -> [at : {"idle", "asking", "saved", "loaded", "writing",
                                 "listed", "fetching", "fetched", "sweeping",
                                 "abandoned", "found", "reading", "read", "missing",
                                 "unreadable"},
                           token : Tokens \cup {NoToken},
                           left : -1 .. Life]]
    /\ loop \in Calls \cup {Free}
    /\ told \in [Tokens -> -1 .. Life]
    /\ answer \in [token : Tokens \cup {NoToken},
                   status : {"none", "200", "404", "410", "500", "unreadable"}]
    /\ dangling \subseteq Listed
    /\ stuck \subseteq Tokens \cup Calls

Init ==
    /\ links = [t \in {} |-> 0]
    /\ disk = [t \in Tokens |-> "none"]
    /\ scratch = [c \in Calls |-> "none"]
    /\ call = [c \in Calls |-> Idle]
    /\ loop = Free
    /\ told = [t \in Tokens |-> -1]
    /\ answer = NoAnswer
    /\ dangling = {}
    /\ stuck = {}

\* A new call takes a free slot; the names of its temporary files are new.
Starts(c) == loop = Free /\ call[c] = Idle /\ scratch[c] = "none"

\* What trying to remove a file, and then its directory, may leave of it.
Removal(what) == {"none", "dir", what}

\* The finally block of a tool call: its scratch file goes, or s is left of it.
ScratchLeft(c, s) ==
    scratch' = [scratch EXCEPT ![c] = IF @ = "none" THEN "none" ELSE s]

NotSwept(c) == {d \in {c} : scratch'[d] # "none"}

Sweep(c) ==
    /\ \E s \in Removal(scratch[c]) : ScratchLeft(c, s)
    /\ stuck' = stuck \cup NotSwept(c)

-----------------------------------------------------------------------------
(* cleanup_expired_links *)

\* A slip: a link goes in its last tick already.
ExpiredEarly == {t \in Listed : links[t] <= 0}

Expired == {t \in Listed : links[t] < 0}

\* What may be left of the expired files.  Where there is no file nothing is tried.
Sweepings ==
    {swept \in [Expired -> {"none", "dir", "file"}] :
        \A t \in Expired : disk[t] # "file" => swept[t] = disk[t]}

\* Every expired link goes, with its file and directory if they can be removed.
Clean(swept) ==
    /\ swept \in Sweepings
    /\ links' = [t \in Listed \ Expired |-> links[t]]
    /\ dangling' = dangling \ Expired

\* The disk after it.
Cleaned(swept) == [t \in Tokens |-> IF t \in Expired THEN swept[t] ELSE disk[t]]
NotCleaned(swept) == {t \in Expired : swept[t] # "none"}

-----------------------------------------------------------------------------
(* generate_download_link, for the tools that answer with a file.  Most of  *)
(* them call it from start to end without an await; export_network first    *)
(* saves the network in a scratch file and reads it back in a thread, and   *)
(* generate_python_script first asks a language model.                      *)

\* generate_python_script up to its await.
AskModel(c) ==
    /\ Starts(c)
    /\ Goes(c, [Idle EXCEPT !.at = "asking"])
    /\ Silent
    /\ UNCHANGED <<links, disk, scratch, loop, told, dangling, stuck>>

\* The model answers with a script that parses.
ModelAnswers(c) ==
    /\ call[c].at = "asking"
    /\ Goes(c, [Idle EXCEPT !.at = "loaded"])
    /\ Silent
    /\ UNCHANGED <<links, disk, scratch, loop, told, dangling, stuck>>

\* It fails, does not parse or takes longer than AI_TIMEOUT, or the call is
\* cancelled: nothing was written yet.
ModelFails(c) ==
    /\ loop = Free
    /\ call[c].at = "asking"
    /\ Goes(c, Idle)
    /\ Silent
    /\ UNCHANGED <<links, disk, scratch, loop, told, dangling, stuck>>

\* export_network up to its await.
BeginExport(c) ==
    /\ Starts(c)
    /\ Goes(c, [Idle EXCEPT !.at = "saved"])
    /\ scratch' = [scratch EXCEPT ![c] = "file"]
    /\ Silent
    /\ UNCHANGED <<links, disk, loop, told, dangling, stuck>>

\* The thread reads the scratch file.
ReadBack(c) ==
    /\ call[c].at = "saved"
    /\ Goes(c, [Idle EXCEPT !.at = "loaded"])
    /\ Silent
    /\ UNCHANGED <<links, disk, scratch, loop, told, dangling, stuck>>

\* The client cancels the call while it waits, or the read failed.
CancelExport(c) ==
    /\ loop = Free
    /\ call[c].at \in {"saved", "loaded"}
    /\ Goes(c, Idle)
    /\ Sweep(c)
    /\ Silent
    /\ UNCHANGED <<links, disk, loop, told, dangling>>

\* A token nobody has heard of: secrets.token_urlsafe, tempfile.mkdtemp.
NewTokens ==
    {t \in Tokens \ (Listed \cup stuck) :
        disk[t] = "none" /\ told[t] < 0 /\ \A c \in Calls : call[c].token # t}

\* Clean up, choose the token and the expiry, and make the directory.
Generate(c) ==
    /\ Starts(c) \/ (loop = Free /\ call[c].at = "loaded")
    /\ loop' = c
    /\ \E t \in NewTokens, swept \in Sweepings :
          /\ Clean(swept)
          /\ disk' = [Cleaned(swept) EXCEPT ![t] = "dir"]
          /\ stuck' = stuck \cup NotCleaned(swept)
          /\ Goes(c, [at |-> "writing", token |-> t, left |-> Life])
    /\ Silent
    /\ UNCHANGED <<scratch, told>>

\* The file name is refused, or the directory cannot be made.
GenerateFails(c) ==
    /\ Starts(c) \/ (loop = Free /\ call[c].at = "loaded")
    /\ \E swept \in Sweepings, s \in Removal(scratch[c]) :
          /\ Clean(swept)
          /\ disk' = Cleaned(swept)
          /\ ScratchLeft(c, s)
          /\ stuck' = stuck \cup NotCleaned(swept) \cup NotSwept(c)
    /\ Goes(c, Idle)
    /\ Silent
    /\ UNCHANGED <<loop, told>>

\* A slip: the life of the link is counted from its listing again.
PublishForLonger(c) ==
    LET t == call[c].token
    IN  [u \in Listed \cup {t} |-> IF u = t THEN call[c].left + Life ELSE links[u]]

\* The links with the one call c has made.
Publish(c) ==
    LET t == call[c].token
    IN  [u \in Listed \cup {t} |-> IF u = t THEN call[c].left ELSE links[u]]

\* Write the file and list it.
WriteAndList(c) ==
    LET t == call[c].token
    IN  /\ call[c].at = "writing"
        /\ disk' = [disk EXCEPT ![t] = "file"]
        /\ links' = Publish(c)
        /\ Goes(c, [call[c] EXCEPT !.at = "listed"])
        /\ Silent
        /\ UNCHANGED <<scratch, loop, told, dangling, stuck>>

\* Tell the client the URL and the expiry.
TellClient(c) ==
    /\ call[c].at = "listed"
    /\ told' = [told EXCEPT ![call[c].token] = call[c].left]
    /\ Goes(c, Idle)
    /\ loop' = Free
    /\ Sweep(c)
    /\ Silent
    /\ UNCHANGED <<links, disk, dangling>>

\* Something raises after the listing (the second line for the log): the file is
\* removed, if it can be, and the link stays.
ListedButFails(c) ==
    LET t == call[c].token
    IN  /\ call[c].at = "listed"
        /\ \E d \in Removal("file"), s \in Removal(scratch[c]) :
              /\ disk' = [disk EXCEPT ![t] = d]
              /\ ScratchLeft(c, s)
              /\ stuck' = stuck \cup {u \in {t} : d # "none"} \cup NotSwept(c)
        /\ dangling' = dangling \cup {t}
        /\ Goes(c, Idle)
        /\ loop' = Free
        /\ Silent
        /\ UNCHANGED <<links, told>>

\* A slip: the link is listed although the file could not be written.
WriteFailsListed(c) ==
    LET t == call[c].token
    IN  /\ call[c].at = "writing"
        /\ disk' = [disk EXCEPT ![t] = "none"]
        /\ links' = Publish(c)
        /\ Goes(c, Idle)
        /\ loop' = Free
        /\ Sweep(c)
        /\ Silent
        /\ UNCHANGED <<told, dangling>>

\* The disk is full, or the first line for the log fails: what was written is
\* removed, if it can be, and nothing is listed.
WriteFails(c) ==
    LET t == call[c].token
    IN  /\ call[c].at = "writing"
        /\ \E d \in Removal("part"), s \in Removal(scratch[c]) :
              /\ disk' = [disk EXCEPT ![t] = d]
              /\ ScratchLeft(c, s)
              /\ stuck' = stuck \cup {u \in {t} : d # "none"} \cup NotSwept(c)
        /\ Goes(c, Idle)
        /\ loop' = Free
        /\ Silent
        /\ UNCHANGED <<links, told, dangling>>

-----------------------------------------------------------------------------
(* load_network_from_url: a thread downloads into a scratch directory.      *)

BeginLoad(c) ==
    /\ Starts(c)
    /\ Goes(c, [Idle EXCEPT !.at = "fetching"])
    /\ scratch' = [scratch EXCEPT ![c] = "dir"]
    /\ Silent
    /\ UNCHANGED <<links, disk, loop, told, dangling, stuck>>

\* The thread has its connection and opens the file, whatever became of the
\* call; when the directory is gone it fails and nobody hears of it.
FetchOpens(c) ==
    /\ call[c].at \in {"fetching", "sweeping", "abandoned"}
    /\ scratch[c] = "dir"
    /\ scratch' = [scratch EXCEPT ![c] = "file"]
    /\ call' = [call EXCEPT ![c].at = CASE @ = "fetching" -> "fetched"
                                        [] @ = "sweeping" -> "sweeping"
                                        [] @ = "abandoned" -> "idle"]
    /\ Silent
    /\ UNCHANGED <<links, disk, loop, told, dangling, stuck>>

\* A slip: an error on the way skips the removal of the file.
EndLoadSweepingNothing(c) ==
    /\ loop = Free
    /\ call[c].at = "fetched"
    /\ Goes(c, Idle)
    /\ Silent
    /\ UNCHANGED <<links, disk, scratch, loop, told, dangling, stuck>>

\* The download ended or failed, or the call is cancelled once the file is
\* there: the file goes whether or not a network could be loaded from it.
EndLoad(c) ==
    /\ loop = Free
    /\ call[c].at = "fetched"
    /\ Goes(c, Idle)
    /\ Sweep(c)
    /\ Silent
    /\ UNCHANGED <<links, disk, loop, told, dangling>>

\* The call is cancelled, or the URL cannot be opened, before there is a file:
\* there is nothing to unlink, and the directory comes next.
CancelLoad(c) ==
    /\ loop = Free
    /\ call[c].at = "fetching"
    /\ Goes(c, [Idle EXCEPT !.at = "sweeping"])
    /\ loop' = c
    /\ Silent
    /\ UNCHANGED <<links, disk, scratch, told, dangling, stuck>>

\* rmdir: it fails when the thread has opened its file meanwhile.  When it fails
\* otherwise the call ends, and its thread still has a directory for its file.
RemoveDirectory(c) ==
    /\ call[c].at = "sweeping"
    /\ \E s \in IF scratch[c] = "dir" THEN {"none", "dir"} ELSE {scratch[c]} :
          /\ scratch' = [scratch EXCEPT ![c] = s]
          /\ Goes(c, IF s = "dir" THEN [Idle EXCEPT !.at = "abandoned"] ELSE Idle)
    /\ stuck' = stuck \cup NotSwept(c)
    /\ loop' = Free
    /\ Silent
    /\ UNCHANGED <<links, disk, told, dangling>>

-----------------------------------------------------------------------------
(* download_file_endpoint *)

\* A slip: the look at the file is awaited, between finding the link and using it.
RequestAwaiting(c, t) ==
    /\ Starts(c)
    /\ t \in Listed \ Expired
    /\ \E swept \in Sweepings :
          /\ Clean(swept)
          /\ disk' = Cleaned(swept)
          /\ stuck' = stuck \cup NotCleaned(swept)
    /\ Goes(c, [at |-> "found", token |-> t, left |-> links[t]])
    /\ Silent
    /\ UNCHANGED <<scratch, loop, told>>

\* Clean up, then look the token up: 404 when it is not listed.
Request(c, t) ==
    /\ Starts(c)
    /\ \E swept \in Sweepings :
          /\ Clean(swept)
          /\ disk' = Cleaned(swept)
          /\ stuck' = stuck \cup NotCleaned(swept)
    /\ IF t \in DOMAIN links'
       THEN /\ Goes(c, [at |-> "found", token |-> t, left |-> links[t]])
            /\ loop' = c
            /\ Silent
       ELSE /\ Answered(t, "404")
            /\ UNCHANGED <<call, loop>>
    /\ UNCHANGED <<scratch, told>>

\* The link has expired since: its file, if there is one, and the link go, 410.
Gone(c) ==
    LET t == call[c].token
    IN  /\ call[c].at = "found"
        /\ call[c].left < 0
        /\ \E d \in IF disk[t] = "file" THEN {"dir", "file"} ELSE {disk[t]} :
              /\ disk' = [disk EXCEPT ![t] = d]
              /\ stuck' = stuck \cup {u \in {t} : d = "file"}
        /\ links' = [u \in Listed \ {t} |-> links[u]]
        /\ dangling' = dangling \ {t}
        /\ Goes(c, Idle)
        /\ loop' = Free
        /\ Answered(t, "410")
        /\ UNCHANGED <<scratch, told>>

\* The file is there: await the thread that reads it.  404 when it is not.
StartReading(c) ==
    LET t == call[c].token
    IN  /\ call[c].at = "found"
        /\ call[c].left >= 0
        /\ loop' = Free
        /\ IF disk[t] = "file"
           THEN Goes(c, [at |-> "reading", token |-> t, left |-> -1]) /\ Silent
           ELSE Goes(c, Idle) /\ Answered(t, "404")
        /\ UNCHANGED <<links, disk, scratch, told, dangling, stuck>>

\* The thread opens the file, if it is still there, and reads all of it: once
\* open it can be read although it is removed.
ReadFile(c) ==
    /\ call[c].at = "reading"
    /\ \E at \in {"unreadable", IF disk[call[c].token] = "file" THEN "read" ELSE "missing"} :
          Goes(c, [call[c] EXCEPT !.at = at])
    /\ Silent
    /\ UNCHANGED <<links, disk, scratch, loop, told, dangling, stuck>>

\* 200 with the file, or 500.  The answers for a failing disk and for a file
\* that went are the same 500: they are told apart here for the properties.
Respond(c) ==
    /\ loop = Free
    /\ call[c].at \in {"read", "missing", "unreadable"}
    /\ Goes(c, Idle)
    /\ Answered(call[c].token,
                CASE call[c].at = "read" -> "200"
                  [] call[c].at = "missing" -> "500"
                  [] OTHER -> "unreadable")
    /\ UNCHANGED <<links, disk, scratch, loop, told, dangling, stuck>>

-----------------------------------------------------------------------------
Older(left) == IF left < 0 THEN left ELSE left - 1

Tick ==
    /\ links' = [t \in Listed |-> Older(links[t])]
    /\ call' = [c \in Calls |-> [call[c] EXCEPT !.left = Older(@)]]
    /\ told' = [t \in Tokens |-> Older(told[t])]
    /\ Silent
    /\ UNCHANGED <<disk, scratch, loop, dangling, stuck>>

Next ==
    \/ \E c \in Calls :
          \/ AskModel(c) \/ ModelAnswers(c) \/ ModelFails(c)
          \/ BeginExport(c) \/ ReadBack(c) \/ CancelExport(c)
          \/ Generate(c) \/ GenerateFails(c) \/ WriteAndList(c) \/ WriteFails(c)
          \/ TellClient(c) \/ ListedButFails(c)
          \/ BeginLoad(c) \/ FetchOpens(c) \/ EndLoad(c)
          \/ CancelLoad(c) \/ RemoveDirectory(c)
          \/ \E t \in Tokens : Request(c, t)
          \/ Gone(c) \/ StartReading(c) \/ ReadFile(c) \/ Respond(c)
    \/ Tick

Spec == Init /\ [][Next]_vars

-----------------------------------------------------------------------------
(* Safety *)

\* Every listed link has its whole file on disk, whatever is being written,
\* cleaned up and served at the time, and whatever failed before it was listed.
\* The exception is the code's: a call that fails after the listing takes back its
\* file and not its link.
ListedHasFile == \A t \in Listed \ dangling : disk[t] = "file"

\* A link found by a request is still listed when the request comes to drop it
\* ("del download_links[token]" does not raise): other requests clean up too.
FoundStaysListed ==
    \A c \in Calls : call[c].at = "found" => call[c].token \in Listed

\* Until the expiry a client was told, its link answers with the file or tells
\* of a failing disk: it is never unknown, gone, or without its file, although
\* any other request may clean up before, between and after the steps of this
\* one.  The links that a failed call leaves behind were told to nobody.
ServedUntilExpiry ==
    answer.status \in {"404", "410", "500"} => told[answer.token] < 0

\* No file stays behind without something that will remove it: each belongs to
\* a listed link or to a call in progress, or its removal failed.
FilesHaveOwners ==
    /\ \A t \in Tokens : disk[t] \in {"part", "file"} => t \in Listed \cup stuck
    /\ \A c \in Calls : scratch[c] = "file" => call[c] # Idle \/ c \in stuck
=============================================================================
