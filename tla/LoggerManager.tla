--------------------------- MODULE LoggerManager ---------------------------
(***************************************************************************)
(* Named loggers with a filter (logging/).  The settings string            *)
(* "MyClass:debug,-Disabled,_all" is a sequence of tags here.              *)
(*                                                                         *)
(* Logger reads and writes both maps under the read lock, so first uses of *)
(* loggers overlap: the later write of a map wins, or the Go runtime sees  *)
(* two writes at once and throws.  Configure has the write lock.           *)
(***************************************************************************)
EXTENDS Integers, Sequences

CONSTANTS
    Names,      \* names of loggers
    All,        \* "_all"
    Levels,
    Info,       \* the level of ""
    NoLevel,    \* a tag without ":level"
    Unknown,    \* a level parseLogLevel refuses
    Goroutines,
    Nobody,
    Settings    \* the strings Configure is called with

\* One tag of a settings string: -name:level.
Tags == [minus: BOOLEAN, name: Names \cup {All}, level: Levels \cup {NoLevel, Unknown}]

\* Of the constants, what its theorem in ServerProofs supposes.
LogParameters ==
    /\ Nobody \notin Goroutines
    /\ Settings \subseteq Seq(Tags)

VARIABLES
    config,     \* lm.config
    settings,   \* history: the string config was made of
    loggers,    \* lm.loggers: the goroutine that made the entry
    handlers,   \* lm.handlers: the same
    at,         \* where each goroutine is in Logger
    name,       \* the logger it asks for
    mine,       \* the handler that it made: device and level
    got,        \* the logger it was given, by its maker
    raced,      \* history: names with two first uses at once
    thrown      \* the runtime's "concurrent map writes"

logVars == <<config, settings, loggers, handlers, at, name, mine, got, raced, thrown>>

-----------------------------------------------------------------------------
(* NewConfig.                                                              *)

In(tags, t) == \E i \in DOMAIN tags : tags[i] = t
Rejected(tags) == \E i \in DOMAIN tags : tags[i].level = Unknown

\* The last "_all:level" replaces the default.
AllLevels(tags) == {i \in DOMAIN tags : ~tags[i].minus /\ tags[i].name = All /\ tags[i].level /= NoLevel}

DefaultLevel(tags, default) ==
    IF AllLevels(tags) = {} THEN default
    ELSE tags[CHOOSE i \in AllLevels(tags) : \A j \in AllLevels(tags) : j <= i].level

Named(tags, minus) == {n \in Names : \E i \in DOMAIN tags : tags[i].minus = minus /\ tags[i].name = n}

NewConfig(tags, default) ==
    [includeAll |-> \E i \in DOMAIN tags : ~tags[i].minus /\ tags[i].name = All,
     include |-> Named(tags, FALSE),
     exclude |-> Named(tags, TRUE),
     level |-> [n \in {} |-> Info],     \* made, and never filled
     defaultLevel |-> DefaultLevel(tags, default)]

IsIncluded(c, n) == n \in c.include \/ c.includeAll
IsExcluded(c, n) == n \in c.exclude
IsEnabled(c, n) == IsIncluded(c, n) /\ ~IsExcluded(c, n)

GetLevel(c, n) == IF n \in DOMAIN c.level THEN c.level[n] ELSE c.defaultLevel

\* device and getLevel.
Handler(c, n) == [writes |-> IsEnabled(c, n), level |-> GetLevel(c, n)]

-----------------------------------------------------------------------------

\* init: NewManager("_all", "INFO").
Initially == <<[minus |-> FALSE, name |-> All, level |-> NoLevel]>>

LogInit ==
    /\ settings = Initially
    /\ config = NewConfig(Initially, Info)
    /\ loggers = [n \in Names |-> Nobody]
    /\ handlers = [n \in Names |-> Nobody]
    /\ at = [g \in Goroutines |-> "idle"]
    /\ name \in [Goroutines -> Names]
    /\ mine = [g \in Goroutines |-> Handler(config, name[g])]
    /\ got = [g \in Goroutines |-> Nobody]
    /\ raced = {}
    /\ thrown = FALSE

Inside == {g \in Goroutines : at[g] \in {"made", "writing", "stored"}}

\* The write lock: nobody is in Logger.  Every handler in the map is set to
\* the new configuration.  A level it does not know changes nothing.
Configure(tags, default) ==
    /\ Inside = {} /\ ~thrown
    /\ IF Rejected(tags)
       THEN UNCHANGED <<settings, config, mine>>
       ELSE /\ settings' = tags
            /\ config' = NewConfig(tags, default)
            /\ mine' = [g \in Goroutines |->
                           IF handlers[name[g]] = g THEN Handler(config', name[g]) ELSE mine[g]]
    /\ UNCHANGED <<loggers, handlers, at, name, got, raced, thrown>>

\* Logger, with the read lock: the entry there is, or a handler of its own.
Found(g) ==
    /\ at[g] = "idle" /\ ~thrown
    /\ loggers[name[g]] /= Nobody
    /\ at' = [at EXCEPT ![g] = "done"]
    /\ got' = [got EXCEPT ![g] = loggers[name[g]]]
    /\ UNCHANGED <<config, settings, loggers, handlers, name, mine, raced, thrown>>

Make(g) ==
    /\ at[g] = "idle" /\ ~thrown
    /\ loggers[name[g]] = Nobody
    /\ at' = [at EXCEPT ![g] = "made"]
    /\ mine' = [mine EXCEPT ![g] = Handler(config, name[g])]
    /\ raced' = raced \cup {name[g] : x \in {h \in Inside : name[h] = name[g]}}
    /\ UNCHANGED <<config, settings, loggers, handlers, name, got, thrown>>

\* The writes of the two maps, each of which another may overlap.
BeginWrite(g) ==
    /\ at[g] = "made" /\ ~thrown
    /\ at' = [at EXCEPT ![g] = "writing"]
    /\ thrown' \in {FALSE, \E h \in Goroutines \ {g} : at[h] = "writing"}
    /\ UNCHANGED <<config, settings, loggers, handlers, name, mine, got, raced>>

WriteLogger(g) ==
    /\ at[g] = "writing" /\ ~thrown
    /\ loggers' = [loggers EXCEPT ![name[g]] = g]
    /\ at' = [at EXCEPT ![g] = "stored"]
    /\ UNCHANGED <<config, settings, handlers, name, mine, got, raced, thrown>>

WriteHandler(g) ==
    /\ at[g] = "stored" /\ ~thrown
    /\ handlers' = [handlers EXCEPT ![name[g]] = g]
    /\ got' = [got EXCEPT ![g] = g]
    /\ at' = [at EXCEPT ![g] = "done"]
    /\ UNCHANGED <<config, settings, loggers, name, mine, raced, thrown>>

Logs(g) == Found(g) \/ Make(g) \/ BeginWrite(g) \/ WriteLogger(g) \/ WriteHandler(g)

LogNext ==
    \/ \E g \in Goroutines : Logs(g)
    \/ \E tags \in Settings, l \in Levels : Configure(tags, l)

LogSpec == LogInit /\ [][LogNext]_logVars

-----------------------------------------------------------------------------

\* What the settings say of a logger: it writes if it is named or "_all" is,
\* unless it is named with a dash (logging/logging.go:35-39).
Wanted(tags, n) ==
    LET has(minus, m) == \E l \in Levels \cup {NoLevel} :
                            In(tags, [minus |-> minus, name |-> m, level |-> l])
    IN  (has(FALSE, n) \/ has(FALSE, All)) /\ ~has(TRUE, n)

Given == {g \in Goroutines : got[g] /= Nobody}

\* "Configure adjusts levels across all of them at once" (logging/logging.go:3):
\* a logger follows the settings of the moment however long ago it was handed
\* out, unless its first uses overlapped - of two handlers made for one name
\* the map keeps one, and the other stays as it was made.
LoggersFollowSettings ==
    \A g \in Given : name[g] \notin raced =>
        (mine[got[g]].writes <=> Wanted(settings, name[g]))

\* "MyClass logger will be set to debug" (logging/logging.go:36): after
\* "MyClass:debug" the level of the logger is the one of its tag.
TagLevelHonoured ==
    \A g \in Given : \A l \in Levels :
        settings = <<[minus |-> FALSE, name |-> name[g], level |-> l]>> => mine[got[g]].level = l
=============================================================================
