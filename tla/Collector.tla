------------------------------ MODULE Collector ------------------------------
(***************************************************************************)
(* What a device prints and what the collector makes of it:                *)
(* fetch_config and clean_config                                           *)
(* (backend/app/tools/config_backup/collector.py).                         *)
(*                                                                         *)
(* A line is a part of the configuration, blank, volatile (it matches the  *)
(* platform's volatile_lines, which change on every run) or one of the     *)
(* CLI's error messages.  The regular expressions are taken as given.      *)
(* "Variant" marks a faulty version of the operation below it.             *)
(***************************************************************************)
EXTENDS Naturals, Sequences, FiniteSetsExt

CONSTANTS
    MinLines,   \* lines a configuration has at least
    HeadLines   \* lines in which an error message is looked for

ASSUME CollectorAssumption == MinLines \in Nat \ {0} /\ HeadLines \in Nat

Blank == <<"blank">>
Volatile == <<"volatile">>
CliError == <<"error">>
Config(dev, version) == <<dev, version>>

-----------------------------------------------------------------------------
(* The device                                                              *)

Maybe(line) == {<<>>, <<line>>}

\* A configuration of three lines, volatile ones before, in the middle of it or
\* nowhere, and blank ones around it.
Printed(dev, version) ==
    {b \o v \o <<Config(dev, version)>> \o w \o <<Config(dev, version), Config(dev, version)>> \o b :
        b \in Maybe(Blank), v \in Maybe(Volatile), w \in Maybe(Volatile)}

\* What a session cut off late leaves of it, and a command of several refused
\* after the first 500 characters: both pass clean_config.
Damaged(dev, version) ==
    {<<Config(dev, version), Config(dev, version)>>,
     <<Config(dev, version), Config(dev, version), CliError>>}

\* Nothing but the prompt, a session cut off early, a command refused at once.
Garbage(dev, version) ==
    {<<>>, <<Volatile, Config(dev, version)>>, <<CliError, Config(dev, version)>>}

Output(dev, version) ==
    Printed(dev, version) \cup Damaged(dev, version) \cup Garbage(dev, version)

-----------------------------------------------------------------------------
(* clean_config                                                            *)

Trimmed(lines) ==
    LET text == {i \in DOMAIN lines : lines[i] # Blank} IN
    IF text = {} THEN <<>> ELSE SubSeq(lines, Min(text), Max(text))

\* Variant: only volatile lines at the top are dropped.
CleanTop(raw) == Trimmed(IF raw # <<>> /\ raw[1] = Volatile THEN Tail(raw) ELSE raw)

Clean(raw) == Trimmed(SelectSeq(raw, LAMBDA line : line # Volatile))

\* Volatile lines are dropped before the ends are trimmed and the lines counted.
Rejected(raw) ==
    LET lines == Clean(raw) IN
    \/ Len(lines) < MinLines
    \/ \E i \in DOMAIN lines : i <= HeadLines /\ lines[i] = CliError

\* The configuration as it is archived.
Whole(dev, version) == <<Config(dev, version), Config(dev, version), Config(dev, version)>>

\* What may be archived for a device: its configuration, or what is left of it.
Archivable(dev, version) == {Whole(dev, version)} \cup Damaged(dev, version)

=============================================================================
