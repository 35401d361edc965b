------------------------- MODULE LinDeskProcessProofs -------------------------
(***************************************************************************)
(* For any launches, any number of processes, requests and keys: a process *)
(* that stops within its deadline leaves no request at work, and the       *)
(* answers of the database, and those of one process' memory, agree.       *)
(***************************************************************************)
EXTENDS LinDeskProcess, TLAPS

-----------------------------------------------------------------------------
(* Types *)

\* Settings over a configuration make a configuration.
LEMMA OverlayIsConfig ==
    ASSUME NEW settings, NEW c \in Config, IsSettings(settings)
    PROVE  Overlay(settings, c) \in Config
<1> DEFINE o == Overlay(settings, c)
<1>1. \A f \in DOMAIN c : f \in DOMAIN settings /\ settings[f] # None =>
          [defaultConfig EXCEPT ![f] = settings[f]] \in Config
  BY DEF IsSettings
<1>2. DOMAIN c = {"name", "environment", "http_addr", "driver", "dsn", "threshold",
                  "shutdown_timeout"}
  BY DEF Config
<1>3. o = [f \in {"name", "environment", "http_addr", "driver", "dsn", "threshold",
                  "shutdown_timeout"} |-> o[f]]
  BY <1>2 DEF Overlay
<1>4. o["http_addr"] \in {"address", "blank"}
  BY <1>1, <1>2 DEF Config, defaultConfig, Overlay
<1>5. o["driver"] \in Drivers
  BY <1>1, <1>2 DEF Config, defaultConfig, Overlay
<1>6. o["dsn"] \in {"dsn", "blank"}
  BY <1>1, <1>2 DEF Config, defaultConfig, Overlay
<1>7. o["threshold"] \in Int /\ o["shutdown_timeout"] \in Int
  BY <1>1, <1>2 DEF Config, defaultConfig, Overlay
<1>8. o["name"] \in {"name", "blank"} /\ o["environment"] \in {"environment", "blank"}
  BY <1>1, <1>2 DEF Config, defaultConfig, Overlay
<1> QED
  BY <1>3, <1>4, <1>5, <1>6, <1>7, <1>8 DEF Config

LEMMA LoadIsConfig ==
    ASSUME NEW launch \in Launches PROVE Load(launch) \in Config
<1>1. defaultConfig \in Config
  BY DEF defaultConfig, Config, Drivers
<1>2. IsSettings(launch.file) /\ IsSettings(launch.env)
  BY ProcessAssumption
<1> QED BY <1>1, <1>2, OverlayIsConfig DEF Load

LEMMA TypeInit == Init => TypeOK
<1> SUFFICES ASSUME Init PROVE TypeOK
  OBVIOUS
<1>1. starts \in 0 .. MaxStarts
  BY ProcessAssumption DEF Init
<1>2. {listening, signalled, expired, reachable} \subseteq BOOLEAN
  BY DEF Init
<1>3. records \in [Stores -> [Keys -> Result \cup {None}]]
  BY DEF Init, Empty
<1>4. key \in [Calls -> Keys \cup {None}] /\ found \in [Calls -> BOOLEAN]
  BY DEF Init
<1>5. answers \in [Keys -> SUBSET AnswerGiven]
  BY DEF Init
<1> QED BY <1>1, <1>2, <1>3, <1>4, <1>5 DEF Init, TypeOK

LEMMA EndsType == ASSUME TypeOK, Ends PROVE TypeOK'
BY DEF TypeOK, Ends, Empty, Stores

LEMMA AnswerType ==
    ASSUME TypeOK, NEW c \in Calls, NEW r \in Result, store # None, key[c] # None,
           records' \in [Stores -> [Keys -> Result \cup {None}]], Answer(c, r)
    PROVE  TypeOK'
<1>1. [store |-> store, process |-> IF store = "memory" THEN starts ELSE 0, result |-> r]
          \in AnswerGiven
  <2>1. store \in Stores
    BY DEF TypeOK
  <2>2. (IF store = "memory" THEN starts ELSE 0) \in 0 .. MaxStarts
    BY ProcessAssumption DEF TypeOK
  <2> QED BY <2>1, <2>2 DEF AnswerGiven
<1>2. key[c] \in Keys
  BY DEF TypeOK
<1>3. answers' \in [Keys -> SUBSET AnswerGiven]
  BY <1>1, <1>2 DEF Answer, TypeOK
<1> QED BY <1>3 DEF Answer, Returns, Unchanged, processVars, TypeOK

LEMMA FailsType ==
    ASSUME TypeOK, NEW c \in Calls,
           records' \in [Stores -> [Keys -> Result \cup {None}]], Fails(c)
    PROVE  TypeOK'
BY DEF Fails, Returns, Unchanged, processVars, TypeOK

LEMMA FindFirstType ==
    ASSUME TypeOK, NEW c \in Calls, FindFirst(c), store # None
    PROVE  TypeOK'
<1> DEFINE record == records[store][key[c]]
<1>1. record \in Result \cup {None}
  BY DEF FindFirst, TypeOK
<1>2. CASE record # None /\ Answer(c, record)
  BY <1>1, <1>2, AnswerType DEF FindFirst, TypeOK
<1>3. CASE /\ found' = [found EXCEPT ![c] = TRUE]
           /\ Unchanged
           /\ UNCHANGED <<key, answers, records>>
  BY <1>3 DEF Unchanged, processVars, TypeOK
<1> QED BY <1>2, <1>3 DEF FindFirst

LEMMA WriteType ==
    ASSUME TypeOK, NEW c \in Calls, Write(c), store # None, starts # 0
    PROVE  TypeOK'
<1> DEFINE record == records[store][key[c]]
<1>1. record \in Result \cup {None}
  BY DEF Write, TypeOK
<1>2. CASE record # None /\ Answer(c, record) /\ UNCHANGED records
  BY <1>1, <1>2, AnswerType DEF Write, TypeOK
<1>3. CASE /\ records' = [records EXCEPT ![store][key[c]] = <<starts, c>>]
           /\ Answer(c, <<starts, c>>) \/ Fails(c)
  <2>1. <<starts, c>> \in Result
    BY DEF TypeOK, Result
  <2>2. records' \in [Stores -> [Keys -> Result \cup {None}]]
    BY <1>3, <2>1 DEF TypeOK
  <2> QED BY <1>3, <2>1, <2>2, AnswerType, FailsType DEF Write
<1> QED BY <1>2, <1>3 DEF Write

-----------------------------------------------------------------------------
(* Where main is, and who is at work *)

\* Nothing listens before the start or after the shutdown, a request at work
\* has a store, and one that is left when main goes on has outlived the
\* deadline.
ProcInv ==
    /\ listening => proc \in {"Started", "Waiting"}
    /\ proc \in {"Down", "Opening"} => AtWork = {} /\ store = None
    /\ proc \notin {"Down", "Opening"} => store \in Stores /\ starts # 0
    /\ proc = "Opening" => starts # 0
    /\ WorkIsFinished

Inv == TypeOK /\ ProcInv

LEMMA InvInit == Init => Inv
BY TypeInit DEF Init, Inv, ProcInv, AtWork, WorkIsFinished

LEMMA EndsProc == ASSUME Ends PROVE ProcInv'
BY DEF Ends, ProcInv, AtWork, WorkIsFinished

LEMMA StartInv ==
    ASSUME Inv, NEW l \in Launches, Start(l) PROVE Inv'
<1>1. TypeOK'
  <2>1. cfg' \in Config \cup {None}
    BY LoadIsConfig DEF Start
  <2>2. starts' \in 0 .. MaxStarts
    BY ProcessAssumption DEF Start, Inv, TypeOK
  <2> QED BY <2>1, <2>2 DEF Start, Inv, TypeOK, callVars
<1>2. ProcInv'
  BY DEF Start, Inv, ProcInv, AtWork, WorkIsFinished, callVars, TypeOK
<1> QED BY <1>1, <1>2 DEF Inv

LEMMA MainInv ==
    ASSUME Inv, MainStep \/ Listen \/ Signal \/ ListenFails
    PROVE  Inv'
<1> USE DEF Inv
<1>0. ASSUME Ends PROVE Inv'
  BY <1>0, EndsType, EndsProc
<1>2. CASE OpenDatabase
  BY <1>2 DEF OpenDatabase, MainAt, TypeOK, ProcInv, AtWork, WorkIsFinished, callVars, Stores
<1>3. CASE Listen
  BY <1>3 DEF Listen, TypeOK, ProcInv, AtWork, WorkIsFinished, callVars
<1>4. CASE ListenFails
  BY <1>0, <1>4 DEF ListenFails
<1>5. CASE Notify
  BY <1>5 DEF Notify, MainAt, TypeOK, ProcInv, AtWork, WorkIsFinished, callVars
<1>6. CASE Signal
  BY <1>0, <1>6 DEF Signal, TypeOK, ProcInv, AtWork, WorkIsFinished, callVars
<1>7. CASE Shutdown
  BY <1>7 DEF Shutdown, MainAt, TypeOK, ProcInv, AtWork, WorkIsFinished, callVars
<1>8. CASE Drained
  BY <1>8 DEF Drained, MainAt, TypeOK, ProcInv, AtWork, WorkIsFinished, callVars
<1>9. CASE TimesOut
  BY <1>9 DEF TimesOut, MainAt, TypeOK, ProcInv, AtWork, WorkIsFinished, callVars
<1>10. CASE CloseDatabase
  BY <1>10 DEF CloseDatabase, MainAt, TypeOK, ProcInv, AtWork, WorkIsFinished, callVars
<1>11. CASE Exit
  BY <1>0, <1>11 DEF Exit
<1> QED
  BY <1>2, <1>3, <1>4, <1>5, <1>6, <1>7, <1>8, <1>9, <1>10, <1>11 DEF MainStep

LEMMA CallInv ==
    ASSUME Inv, NEW c \in Calls,
           \/ \E k \in Keys : Accept(c, k)
           \/ FindFirst(c) \/ Write(c) \/ RequestFails(c)
    PROVE  Inv'
<1> USE DEF Inv
<1>0. AtWork' \subseteq AtWork \cup {c} /\ UNCHANGED processVars
  BY DEF Accept, FindFirst, Write, RequestFails, Answer, Fails, Returns, Unchanged, AtWork,
         TypeOK
<1>1. CASE \E k \in Keys : Accept(c, k)
  BY <1>0, <1>1 DEF Accept, Unchanged, processVars, TypeOK, ProcInv, AtWork, WorkIsFinished
<1>2. CASE FindFirst(c) \/ Write(c) \/ RequestFails(c)
  <2>1. c \in AtWork
    BY <1>2 DEF FindFirst, Write, RequestFails, AtWork
  <2>2. store # None /\ starts # 0 /\ proc \notin {"Down", "Opening"}
    BY <2>1, ProcessAssumption DEF ProcInv
  <2>3. TypeOK'
    <3>1. RequestFails(c) => TypeOK'
      BY FailsType DEF RequestFails, TypeOK
    <3> QED BY <1>2, <2>2, <3>1, FindFirstType, WriteType
  <2>4. ProcInv'
    BY <1>0, <2>1 DEF processVars, ProcInv, WorkIsFinished
  <2> QED BY <2>3, <2>4
<1> QED BY <1>1, <1>2

LEMMA InvNext ==
    ASSUME Inv, [Next]_vars PROVE Inv'
<1>1. CASE UNCHANGED vars \/ DatabaseComesAndGoes
  <2>1. UNCHANGED <<processVars, records, callVars>> /\ reachable' \in BOOLEAN
    BY <1>1 DEF DatabaseComesAndGoes, vars, Inv, TypeOK
  <2> QED
    BY <2>1 DEF processVars, callVars, Inv, TypeOK, ProcInv, AtWork, WorkIsFinished
<1>2. CASE \E c \in Calls : \/ \E k \in Keys : Accept(c, k)
                            \/ FindFirst(c) \/ Write(c) \/ RequestFails(c)
  BY <1>2, CallInv
<1>3. CASE (\E l \in Launches : Start(l)) \/ MainStep \/ Listen \/ ListenFails \/ Signal
  BY <1>3, StartInv, MainInv
<1> QED BY <1>1, <1>2, <1>3 DEF Next

THEOREM ProcessTypes == Spec => []TypeOK
<1>1. Inv => TypeOK
  BY DEF Inv
<1> QED BY <1>1, InvInit, InvNext, PTL DEF Spec

\* Within the deadline of a shutdown, main goes on only when no request is at
\* work (main.go:98).
THEOREM NoRequestCutOff == Spec => []WorkIsFinished
<1>1. Inv => WorkIsFinished
  BY DEF Inv, ProcInv
<1> QED BY <1>1, InvInit, InvNext, PTL DEF Spec

-----------------------------------------------------------------------------
(* The answers *)

\* What the running process, or the database, answers is on record.
OnRecord ==
    \A k \in Keys : \A a \in answers[k] :
        /\ a.store = "postgres" => a.process = 0 /\ a.result = records["postgres"][k]
        /\ a.store = "memory" => a.process \in 1 .. starts
        /\ a.store = "memory" /\ a.process = starts /\ proc # "Down" =>
               store = "memory" /\ proc # "Opening" /\ a.result = records["memory"][k]

AnswersInv == Inv /\ OnRecord /\ AnswersAgree

\* A step that gives no answer, keeps what is on record, and neither changes
\* process nor store.
LEMMA NoAnswer ==
    ASSUME AnswersInv, answers' = answers, starts' = starts,
           \A k \in Keys : \A s \in Stores :
               records[s][k] # None => records'[s][k] = records[s][k],
           store' = store, proc' # "Opening", proc # "Down"
    PROVE  OnRecord' /\ AnswersAgree'
<1>1. ASSUME NEW k \in Keys, NEW a \in answers[k] PROVE a.result # None
  BY <1>1, ProcessAssumption DEF AnswersInv, Inv, TypeOK, AnswerGiven, Result
<1> QED BY <1>1 DEF AnswersInv, OnRecord, AnswersAgree, Stores

LEMMA EndAnswers ==
    ASSUME AnswersInv, Ends PROVE OnRecord' /\ AnswersAgree'
<1>1. records'["postgres"] = records["postgres"]
  BY DEF Ends, AnswersInv, Inv, TypeOK, Stores
<1> QED BY <1>1 DEF Ends, AnswersInv, OnRecord, AnswersAgree

\* A call's answer is what is on record afterwards.
LEMMA AnswerAgrees ==
    ASSUME AnswersInv, NEW c \in Calls, NEW r \in Result, key[c] # None,
           Answer(c, r),
           \A k \in Keys : \A s \in Stores :
               records[s][k] # None => records'[s][k] = records[s][k],
           records'[store][key[c]] = r
    PROVE  OnRecord' /\ AnswersAgree'
<1> DEFINE new == [store |-> store, process |-> IF store = "memory" THEN starts ELSE 0,
                   result |-> r]
<1>0. TypeOK /\ ProcInv
  BY DEF AnswersInv, Inv
<1>1. store \in Stores /\ starts # 0 /\ proc \notin {"Down", "Opening"} /\ key[c] \in Keys
  BY <1>0 DEF ProcInv, AtWork, TypeOK
<1>2. UNCHANGED <<starts, proc, store>>
  BY DEF Answer, Returns, Unchanged, processVars
<1>3. \A k \in Keys : answers'[k] = IF k = key[c] THEN answers[k] \cup {new} ELSE answers[k]
  BY <1>0, <1>1 DEF Answer, TypeOK
<1>4. ASSUME NEW k \in Keys, NEW a \in answers[k]
      PROVE  a.result # None /\ a.store \in Stores
  BY <1>4, <1>0, ProcessAssumption DEF TypeOK, AnswerGiven, Result
<1>5. starts \in Nat
  BY <1>0, ProcessAssumption DEF TypeOK
<1>6. OnRecord'
  <2> SUFFICES ASSUME NEW k \in Keys, NEW a \in answers'[k]
      PROVE /\ a.store = "postgres" => a.process = 0 /\ a.result = records'["postgres"][k]
            /\ a.store = "memory" => a.process \in 1 .. starts
            /\ a.store = "memory" /\ a.process = starts =>
                   store = "memory" /\ a.result = records'["memory"][k]
    BY <1>1, <1>2 DEF OnRecord
  <2>1. CASE a \in answers[k]
    <3>1. a.result # None
      BY <1>4, <2>1
    <3> QED BY <1>1, <2>1, <3>1 DEF AnswersInv, OnRecord, Stores
  <2>2. CASE k = key[c] /\ a = new
    <3>1. a.store = store /\ a.result = r
      BY <2>2
    <3>2. a.process = IF store = "memory" THEN starts ELSE 0
      BY <2>2
    <3> QED BY <1>1, <1>5, <2>2, <3>1, <3>2 DEF Stores
  <2> QED BY <1>3, <2>1, <2>2
<1>7. ASSUME NEW k \in Keys, NEW a \in answers'[k], NEW b \in answers'[k],
             a.store = b.store, a.process = b.process
      PROVE  a.result = b.result
  <2>1. CASE a \in answers[k] /\ b \in answers[k]
    BY <1>7, <2>1 DEF AnswersInv, AnswersAgree
  <2>2. CASE k = key[c] /\ (a = new \/ b = new)
    BY <1>1, <1>2, <1>3, <1>4, <1>6, <1>7, <2>2 DEF OnRecord, Stores
  <2> QED BY <1>3, <1>7, <2>1, <2>2
<1> QED BY <1>6, <1>7 DEF AnswersAgree

LEMMA CallAnswers ==
    ASSUME AnswersInv, NEW c \in Calls,
           \/ \E k \in Keys : Accept(c, k)
           \/ FindFirst(c) \/ Write(c) \/ RequestFails(c)
    PROVE  OnRecord' /\ AnswersAgree'
<1>0. TypeOK /\ ProcInv /\ UNCHANGED processVars
  BY DEF AnswersInv, Inv, Accept, FindFirst, Write, RequestFails, Answer, Fails, Returns,
         Unchanged
<1>1. CASE \E k \in Keys : Accept(c, k)
  <2>1. proc \notin {"Down", "Opening"} /\ UNCHANGED <<records, answers>>
    BY <1>0, <1>1 DEF Accept, ProcInv
  <2> QED BY <1>0, <2>1, NoAnswer DEF processVars
<1>2. CASE FindFirst(c) \/ Write(c) \/ RequestFails(c)
  <2> DEFINE record == records[store][key[c]]
  <2>0. key[c] # None /\ proc \notin {"Down", "Opening"}
    BY <1>0, <1>2 DEF FindFirst, Write, RequestFails, ProcInv, AtWork
  <2>1. store \in Stores /\ key[c] \in Keys /\ starts # 0
    BY <1>0, <2>0 DEF ProcInv, TypeOK
  <2>2. record \in Result \cup {None}
    BY <1>0, <2>1 DEF TypeOK
  <2>3. CASE record # None /\ Answer(c, record) /\ UNCHANGED records
    BY <2>0, <2>1, <2>2, <2>3, AnswerAgrees
  <2>4. CASE UNCHANGED <<answers, records>>
    BY <1>0, <2>0, <2>4, NoAnswer DEF processVars
  <2>5. CASE /\ record = None
             /\ records' = [records EXCEPT ![store][key[c]] = <<starts, c>>]
             /\ Answer(c, <<starts, c>>) \/ Fails(c)
    <3>1. <<starts, c>> \in Result
      BY <1>0, <2>1, ProcessAssumption DEF TypeOK, Result
    <3>2. records'[store][key[c]] = <<starts, c>>
      BY <1>0, <2>1, <2>5 DEF TypeOK
    <3>3. ASSUME NEW k \in Keys, NEW s \in Stores, records[s][k] # None
          PROVE  records'[s][k] = records[s][k]
      BY <1>0, <2>1, <2>5, <3>3 DEF TypeOK
    <3>4. CASE Answer(c, <<starts, c>>)
      BY <2>0, <3>1, <3>2, <3>3, <3>4, AnswerAgrees
    <3>5. CASE Fails(c)
      BY <1>0, <2>0, <3>3, <3>5, NoAnswer DEF processVars, Fails
    <3> QED BY <2>5, <3>4, <3>5
  <2> QED BY <1>2, <2>3, <2>4, <2>5 DEF FindFirst, Write, RequestFails, Fails
<1> QED BY <1>1, <1>2

LEMMA AnswersNext ==
    ASSUME AnswersInv, [Next]_vars PROVE AnswersInv'
<1>0. Inv'
  BY InvNext DEF AnswersInv
<1>1. TypeOK /\ starts \in Nat
  BY ProcessAssumption DEF AnswersInv, Inv, TypeOK
<1>2. CASE Ends
  BY <1>0, <1>2, EndAnswers DEF AnswersInv
<1>3. CASE \E l \in Launches : Start(l)
  <2>1. UNCHANGED <<records, answers>> /\ starts' = starts + 1
    BY <1>3 DEF Start, callVars
  <2> QED BY <1>0, <1>1, <2>1 DEF AnswersInv, OnRecord, AnswersAgree
<1>4. CASE OpenDatabase
  BY <1>0, <1>4 DEF OpenDatabase, MainAt, AnswersInv, OnRecord, AnswersAgree, callVars
<1>5. CASE \/ Notify \/ Shutdown \/ Drained \/ TimesOut \/ CloseDatabase \/ Listen
           \/ proc = "Waiting" /\ Signal /\ ~ Ends
  <2>1. /\ UNCHANGED <<records, answers, starts, store>>
        /\ proc # "Down" /\ proc' # "Opening"
    BY <1>1, <1>5 DEF Notify, Shutdown, Drained, TimesOut, CloseDatabase, Listen, Signal, MainAt,
                callVars
  <2> QED BY <1>0, <2>1, NoAnswer DEF AnswersInv
<1>6. CASE \E c \in Calls : \/ \E k \in Keys : Accept(c, k)
                            \/ FindFirst(c) \/ Write(c) \/ RequestFails(c)
  BY <1>0, <1>6, CallAnswers DEF AnswersInv
<1>7. CASE UNCHANGED vars \/ DatabaseComesAndGoes
  <2>1. UNCHANGED <<processVars, records, answers>>
    BY <1>7 DEF DatabaseComesAndGoes, vars, callVars
  <2> QED BY <1>0, <2>1 DEF processVars, AnswersInv, OnRecord, AnswersAgree
<1> QED
  BY <1>2, <1>3, <1>4, <1>5, <1>6, <1>7
     DEF Next, MainStep, ListenFails, Signal, Exit

\* The database, and the memory of a process, give one result per key, across
\* fallbacks and restarts (docs/mvp.md:85, main.go:54).
THEOREM OneResultPerStore == Spec => []AnswersAgree
<1>1. Init => AnswersInv
  BY InvInit DEF Init, AnswersInv, OnRecord, AnswersAgree
<1>2. AnswersInv => AnswersAgree
  BY DEF AnswersInv
<1> QED BY <1>1, <1>2, AnswersNext, PTL DEF Spec
===============================================================================
