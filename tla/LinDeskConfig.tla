----------------------------- MODULE LinDeskConfig -----------------------------
(***************************************************************************)
(* The configuration a process starts with, from internal/config, and what *)
(* internal/database makes of it.  Texts are blank or not, and a driver is *)
(* one of those the code knows or another one.                             *)
(***************************************************************************)
EXTENDS Integers

CONSTANT None   \* a setting that is not given; in the environment, or blank

Drivers == {"postgres", "pgx", "memory", "blank", "other"}

Config == [name: {"name", "blank"}, environment: {"environment", "blank"},
           http_addr: {"address", "blank"}, driver: Drivers, dsn: {"dsn", "blank"},
           threshold: Int, shutdown_timeout: Int]

defaultConfig ==
    [name |-> "name", environment |-> "environment",
     http_addr |-> "address", driver |-> "postgres", dsn |-> "blank",
     threshold |-> 50000, shutdown_timeout |-> 10]

\* The settings a file or an environment gives, each of its field's type.
IsSettings(settings) ==
    \A f \in DOMAIN settings :
        settings[f] = None \/ [defaultConfig EXCEPT ![f] = settings[f]] \in Config

\* Mutant: a blank environment variable counts as given.
Overlay_Blank(settings, cfg) ==
    [f \in DOMAIN cfg |-> IF f \in DOMAIN settings THEN settings[f] ELSE cfg[f]]

Overlay(settings, cfg) ==
    [f \in DOMAIN cfg |-> IF f \in DOMAIN settings /\ settings[f] # None THEN settings[f]
                          ELSE cfg[f]]

\* A launch: the file's settings, the environment's, and whether both parse.
Load(launch) == Overlay(launch.env, Overlay(launch.file, defaultConfig))

Validate(cfg) ==
    /\ cfg.name # "blank"
    /\ cfg.environment # "blank"
    /\ cfg.http_addr # "blank"
    /\ cfg.shutdown_timeout > 0
    /\ cfg.threshold > 0

Loads(launch) == launch.parses /\ Validate(Load(launch))

\* database.Open: the error that makes main fall back, or "OK".
OpenError(cfg, reachable) ==
    IF cfg.driver \in {"blank", "memory"} \/ cfg.dsn = "blank" THEN "ErrDisabled"
    ELSE IF cfg.driver = "other" THEN "unsupported"
    ELSE IF ~ reachable THEN "ping"
    ELSE "OK"
===============================================================================
