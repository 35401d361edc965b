------------------------------- MODULE MCProcess -------------------------------
(***************************************************************************)
(* A small instance of LinDeskProcess: a few launches, two calls, a key.       *)
(***************************************************************************)
EXTENDS LinDeskProcess

CONSTANTS c1, c2, k1

\* Nothing given: no driver in the file, a blank one in the environment.
Blank == [driver |-> None]
Threshold(n) == [threshold |-> n]
Dsn == [dsn |-> "dsn"]
Launch(file, env) == [file |-> file, env |-> env, parses |-> TRUE]

\* With a database in the environment, without one, with one in the file that
\* the environment's driver overrides, and with configurations that do not load.
Starts ==
    {Launch(Blank, Dsn), Launch(Blank, Blank),
     Launch(Dsn, [driver |-> "memory"]), Launch(Dsn, [driver |-> "other"]),
     Launch(Dsn, Threshold(0)), Launch([shutdown_timeout |-> 0], Dsn),
     Launch([name |-> "blank"], Dsn), Launch([environment |-> "blank"], Dsn),
     [Launch(Blank, Dsn) EXCEPT !.parses = FALSE]}
===============================================================================
