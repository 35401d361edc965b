---------------------------- MODULE LinDeskProcess ----------------------------
(***************************************************************************)
(* One LinDesk process after another, as cmd/lindesk/main.go runs it: it   *)
(* loads its configuration, opens the database or falls back to memory,    *)
(* serves requests in goroutines of their own, and on a signal shuts down  *)
(* with a deadline.  A request stands for a creation under an idempotency  *)
(* key: it looks for the key's result, and writes one if there is none.    *)
(***************************************************************************)
EXTENDS LinDeskConfig, FiniteSets

CONSTANTS
    Calls,      \* requests served at a time
    Keys,       \* idempotency keys
    Launches,   \* files and environments a process is started with
    MaxStarts   \* bound: processes started

Stores == {"postgres", "memory"}

ASSUME ProcessAssumption ==
    /\ \A l \in Launches :
        l.parses \in BOOLEAN /\ IsSettings(l.file) /\ IsSettings(l.env)
    /\ MaxStarts \in Nat \ {0}
    /\ None \notin Stores \cup Keys \cup Config \cup (Nat \X Calls)

VARIABLES
    proc,       \* where main is
    cfg,        \* the configuration loaded, or None
    store,      \* the repository main has chosen, or None
    pool,       \* databaseHandle: "none", "open" or "closed"
    listening,  \* the server accepts connections
    signalled,  \* a signal waits in the channel stop
    expired,    \* the deadline of Shutdown has passed
    reachable,  \* the database answers
    starts,     \* processes started so far
    records,    \* per store and key: the result on record, or None
    key,        \* per call: the key of the request it serves, or None
    found,      \* per call: it has looked for its key's result
    answers     \* per key: the results clients have been given, and by what

processVars == <<proc, cfg, store, pool, listening, signalled, expired, starts>>
callVars == <<key, found, answers>>
vars == <<processVars, reachable, records, callVars>>

\* The call that wrote a result stands for it.
Result == (1 .. MaxStarts) \X Calls

\* A client's answer comes from the database, or from the memory of a process.
AnswerGiven == [store: Stores, process: 0 .. MaxStarts, result: Result]

TypeOK ==
    /\ proc \in {"Down", "Opening", "Started", "Waiting", "Draining", "Closing", "Exiting"}
    /\ cfg \in Config \cup {None}
    /\ store \in Stores \cup {None}
    /\ pool \in {"none", "open", "closed"}
    /\ {listening, signalled, expired, reachable} \subseteq BOOLEAN
    /\ starts \in 0 .. MaxStarts
    /\ records \in [Stores -> [Keys -> Result \cup {None}]]
    /\ key \in [Calls -> Keys \cup {None}]
    /\ found \in [Calls -> BOOLEAN]
    /\ answers \in [Keys -> SUBSET AnswerGiven]

Empty == [k \in Keys |-> None]

Init ==
    /\ proc = "Down"
    /\ cfg = None /\ store = None
    /\ pool = "none"
    /\ listening = FALSE /\ signalled = FALSE /\ expired = FALSE
    /\ reachable \in BOOLEAN
    /\ starts = 0
    /\ records = [s \in Stores |-> Empty]
    /\ key = [c \in Calls |-> None]
    /\ found = [c \in Calls |-> FALSE]
    /\ answers = [k \in Keys |-> {}]

AtWork == {c \in Calls : key[c] # None}

\* The process ends: its memory, its handle and its requests are gone.
Ends ==
    /\ proc' = "Down"
    /\ cfg' = None /\ store' = None
    /\ pool' = "none"
    /\ listening' = FALSE /\ signalled' = FALSE /\ expired' = FALSE
    /\ records' = [records EXCEPT !["memory"] = Empty]
    /\ key' = [c \in Calls |-> None]
    /\ found' = [c \in Calls |-> FALSE]
    /\ UNCHANGED <<starts, reachable, answers>>

MainAt(from, to) == proc = from /\ proc' = to

-----------------------------------------------------------------------------
(* Start *)

\* config.Load; a bad configuration ends the process at once.
Start(launch) ==
    /\ proc = "Down"
    /\ starts < MaxStarts
    /\ starts' = starts + 1
    /\ proc' = IF Loads(launch) THEN "Opening" ELSE "Down"
    /\ cfg' = IF Loads(launch) THEN Load(launch) ELSE None
    /\ UNCHANGED <<store, pool, listening, signalled, expired, reachable, records, callVars>>

\* database.Open, and the choice of the repositories.
OpenDatabase ==
    /\ MainAt("Opening", "Started")
    /\ IF OpenError(cfg, reachable) = "OK"
       THEN store' = "postgres" /\ pool' = "open"
       ELSE store' = "memory" /\ pool' = "none"
    /\ UNCHANGED <<cfg, listening, signalled, expired, starts, reachable, records, callVars>>

\* The goroutine of ListenAndServe, which main does not wait for; after
\* Shutdown it returns at once.
Listen ==
    /\ proc \in {"Started", "Waiting"}
    /\ ~ listening
    /\ listening' = TRUE
    /\ UNCHANGED <<proc, cfg, store, pool, signalled, expired, starts, reachable, records,
                   callVars>>

\* The address is taken, or accepting fails: os.Exit(1).
ListenFails == proc \in {"Started", "Waiting"} /\ Ends

-----------------------------------------------------------------------------
(* Shutdown *)

Notify ==
    /\ MainAt("Started", "Waiting")
    /\ UNCHANGED <<cfg, store, pool, listening, signalled, expired, starts, reachable, records,
                   callVars>>

\* Before signal.Notify a signal kills the process; later it waits in stop.
Signal ==
    \/ proc \in {"Opening", "Started"} /\ Ends
    \/ /\ proc = "Waiting"
       /\ signalled' = TRUE
       /\ UNCHANGED <<proc, cfg, store, pool, listening, expired, starts, reachable, records,
                      callVars>>

Shutdown ==
    /\ signalled
    /\ MainAt("Waiting", "Draining")
    /\ listening' = FALSE
    /\ UNCHANGED <<cfg, store, pool, signalled, expired, starts, reachable, records, callVars>>

\* Mutant: the listener is closed, and nobody waits for the handlers.
Drained_Close ==
    /\ MainAt("Draining", "Closing")
    /\ UNCHANGED <<cfg, store, pool, listening, signalled, expired, starts, reachable, records,
                   callVars>>

\* Shutdown returns when no connection is busy.
Drained ==
    /\ MainAt("Draining", "Closing")
    /\ AtWork = {}
    /\ UNCHANGED <<cfg, store, pool, listening, signalled, expired, starts, reachable, records,
                   callVars>>

\* Mutant: Shutdown has no deadline.
TimesOut_Never == FALSE /\ UNCHANGED vars

\* shutdown_timeout has passed; it may do so when the last request is done.
TimesOut ==
    /\ MainAt("Draining", "Closing")
    /\ expired' = TRUE
    /\ UNCHANGED <<cfg, store, pool, listening, signalled, starts, reachable, records, callVars>>

\* The deferred databaseHandle.Close.
CloseDatabase ==
    /\ MainAt("Closing", "Exiting")
    /\ pool' = IF pool = "open" THEN "closed" ELSE pool
    /\ UNCHANGED <<cfg, store, listening, signalled, expired, starts, reachable, records,
                   callVars>>

Exit == proc = "Exiting" /\ Ends

-----------------------------------------------------------------------------
(* Requests *)

Unchanged == UNCHANGED <<processVars, reachable>>

Accept(c, k) ==
    /\ listening
    /\ key[c] = None
    /\ key' = [key EXCEPT ![c] = k]
    /\ Unchanged
    /\ UNCHANGED <<records, found, answers>>

StoreAnswers == store = "memory" \/ (pool = "open" /\ reachable)

Returns(c) ==
    /\ key' = [key EXCEPT ![c] = None]
    /\ found' = [found EXCEPT ![c] = FALSE]
    /\ Unchanged

Answer(c, result) ==
    /\ Returns(c)
    /\ answers' = [answers EXCEPT ![key[c]] = @ \cup
           {[store |-> store, process |-> IF store = "memory" THEN starts ELSE 0,
             result |-> result]}]

\* An answer that tells of no result.
Fails(c) == Returns(c) /\ UNCHANGED answers

FindFirst(c) ==
    /\ key[c] # None /\ ~ found[c]
    /\ StoreAnswers
    /\ UNCHANGED records
    /\ LET record == records[store][key[c]] IN
       \/ record # None /\ Answer(c, record)
       \/ /\ record = None
          /\ found' = [found EXCEPT ![c] = TRUE]
          /\ Unchanged
          /\ UNCHANGED <<key, answers>>

\* Mutant: the record is written over whatever there is.
Write_Over(c) ==
    /\ key[c] # None /\ found[c]
    /\ StoreAnswers
    /\ records' = [records EXCEPT ![store][key[c]] = <<starts, c>>]
    /\ Answer(c, <<starts, c>>) \/ Fails(c)

\* The repository writes one result per key; a commit's acknowledgement may be
\* lost.
Write(c) ==
    /\ key[c] # None /\ found[c]
    /\ StoreAnswers
    /\ LET record == records[store][key[c]] IN
       \/ /\ record # None
          /\ Answer(c, record)
          /\ UNCHANGED records
       \/ /\ record = None
          /\ records' = [records EXCEPT ![store][key[c]] = <<starts, c>>]
          /\ Answer(c, <<starts, c>>) \/ (store = "postgres" /\ Fails(c))

\* A database error, or a closed handle.
RequestFails(c) ==
    /\ key[c] # None
    /\ store = "postgres"
    /\ Fails(c)
    /\ UNCHANGED records

DatabaseComesAndGoes ==
    /\ reachable' = ~ reachable
    /\ UNCHANGED <<processVars, records, callVars>>

MainStep ==
    \/ OpenDatabase \/ Notify \/ Shutdown \/ Drained \/ TimesOut \/ CloseDatabase \/ Exit

Next ==
    \/ \E l \in Launches : Start(l)
    \/ MainStep
    \/ Listen \/ ListenFails \/ Signal
    \/ \E c \in Calls : \/ \E k \in Keys : Accept(c, k)
                        \/ FindFirst(c) \/ Write(c) \/ RequestFails(c)
    \/ DatabaseComesAndGoes

Spec == Init /\ [][Next]_vars

\* main is a goroutine that runs, and a deadline passes; a handler may hang.
FairSpec == Spec /\ WF_vars(MainStep)

-----------------------------------------------------------------------------

\* From the moment main goes on after a shutdown within its deadline, no
\* request is at work: the database handle is never closed under a handler,
\* and none is cut off by the end of the process (main.go:98).
WorkIsFinished ==
    proc \in {"Closing", "Exiting"} /\ ~ expired => AtWork = {}

\* A signal that main has seen ends the process, even if a handler hangs
\* (main.go:96).
SignalEndsProcess == signalled ~> proc = "Down"

\* Whoever is answered from the database is given the one result of a key,
\* whichever processes answered before, and although one of them may have
\* fallen back to memory in between; so is everybody answered from the memory
\* of one process.  Nothing more holds: a fallback knows nothing of the
\* database's results (docs/mvp.md:85, main.go:54).
AnswersAgree ==
    \A k \in Keys : \A a, b \in answers[k] :
        a.store = b.store /\ a.process = b.process => a.result = b.result
===============================================================================
