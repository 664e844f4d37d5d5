--------------------------- MODULE FirmwareReport ---------------------------
(***************************************************************************)
(* The version report (firmware_upgrade/api.py, facts.py): which standard  *)
(* applies to a device and whether the device meets it, while the admins   *)
(* edit the standards and the checks bring in new facts.                   *)
(*                                                                         *)
(* One device is modelled: a row of the report depends on no other device. *)
(* A standard is the target of its (platform, model pattern), which the    *)
(* table keeps unique.  Letter case in models and patterns, which the      *)
(* match ignores, is left out, and so are a standard's image and notes.    *)
(* "Variant" marks a faulty version, used to test the properties.          *)
(***************************************************************************)
EXTENDS Naturals, Sequences, FiniteSets, VersionOrder

CONSTANTS
    Platform,   \* platforms
    Model,      \* model names, as sequences of letters
    Pattern,    \* model patterns, as sequences of letters, "?" and "*"
    Version,    \* versions, as sequences of runs
    none        \* no standard, no model, no version

ASSUME ReportAssumption ==
    /\ Model \subseteq Seq(STRING) /\ Pattern \subseteq Seq(STRING) /\ Version \subseteq Seq(Run)
    /\ none \notin Model /\ none \notin Version

VARIABLES
    standards,  \* table fw_standards: target_version by platform and pattern
    device      \* the device's platform, and model and version of its facts

vars == <<standards, device>>

Keys == Platform \X Pattern
AnyModel == <<"*">>

TypeOK ==
    /\ standards \in [Keys -> Version \cup {none}]
    /\ device \in [platform : Platform, model : Model \cup {none}, version : Version \cup {none}]

Init ==
    /\ standards = [k \in Keys |-> none]
    /\ device \in [platform : Platform, model : {none}, version : {none}]

-----------------------------------------------------------------------------
(* The report                                                              *)

\* fnmatch: the model can be cut into one piece for each sign of the pattern.
FnMatch(pattern, model) ==
    \E cut \in [0..Len(pattern) -> 0..Len(model)] :
        /\ cut[0] = 0 /\ cut[Len(pattern)] = Len(model)
        /\ \A i \in 1..Len(pattern) :
              IF pattern[i] = "*" THEN cut[i] >= cut[i - 1]
              ELSE /\ cut[i] = cut[i - 1] + 1
                   /\ pattern[i] = "?" \/ pattern[i] = model[cut[i]]

pattern_matches(pattern, model) ==
    pattern = AnyModel \/ (model # none /\ FnMatch(pattern, model))

Candidates(stds, dev) ==
    {k \in Keys : stds[k] # none /\ k[1] = dev.platform /\ pattern_matches(k[2], dev.model)}

\* The key of max().
Specific(k) == IF k[2] = AnyModel THEN 0 ELSE Len(k[2])

\* Variant: the shortest pattern wins.
ShortestWins(stds, dev) ==
    {k \in Candidates(stds, dev) : \A c \in Candidates(stds, dev) : Specific(k) <= Specific(c)}

\* The standards max() may return: which of two with the same key comes first
\* is the table's business.
best_standard(stds, dev) ==
    {k \in Candidates(stds, dev) : \A c \in Candidates(stds, dev) : Specific(c) <= Specific(k)}

compliance(current, target) ==
    IF target = none THEN "no_standard"
    ELSE IF current = none THEN "unknown"
    ELSE LET c == compare_versions(current, target)
         IN CASE c = 0 -> "compliant" [] c < 0 -> "behind" [] OTHER -> "ahead"

\* What the report may say of the device.
Report(stds, dev) ==
    LET best == best_standard(stds, dev) IN
    IF best = {} THEN {compliance(dev.version, none)}
    ELSE {compliance(dev.version, stds[k]) : k \in best}

-----------------------------------------------------------------------------
(* The tables                                                              *)

create_standard ==
    /\ \E k \in Keys, v \in Version :
          standards[k] = none /\ standards' = [standards EXCEPT ![k] = v]
    /\ UNCHANGED device

\* Every column of the row may change: it may move to a key that is free.
update_standard ==
    /\ \E old, new \in Keys, v \in Version :
          /\ standards[old] # none /\ (new = old \/ standards[new] = none)
          /\ standards' = [standards EXCEPT ![old] = none, ![new] = v]
    /\ UNCHANGED device

delete_standard ==
    /\ \E k \in Keys : standards[k] # none /\ standards' = [standards EXCEPT ![k] = none]
    /\ UNCHANGED device

\* A successful check: a version was found, a model perhaps not.
CheckDevice ==
    /\ \E m \in Model \cup {none}, v \in Version :
          device' = [device EXCEPT !.model = m, !.version = v]
    /\ UNCHANGED standards

update_device ==
    /\ \E p \in Platform : device' = [device EXCEPT !.platform = p]
    /\ UNCHANGED standards

Next == create_standard \/ update_standard \/ delete_standard \/ CheckDevice \/ update_device

Spec == Init /\ [][Next]_vars

-----------------------------------------------------------------------------
(* Properties                                                              *)

ModelsOf(k) == {m \in Model : pattern_matches(k[2], m)}

\* A pattern of the form docs/firmware.md:37 shows: a prefix, then "*".
IsPrefix(p) == /\ Len(p) # 0 /\ p[Len(p)] = "*"
               /\ \A i \in 1..(Len(p) - 1) : p[i] \notin {"*", "?"}

\* "The most specific pattern wins" (docs/firmware.md:38), as far as the code
\* keeps it: when the patterns that fit the device are prefixes, the standard
\* that applies is never one that covers more models than another that fits,
\* and only one applies, whatever the order in which the table returns them.
\* A full name or another wildcard that fits, which the API accepts too, may
\* lose to a pattern that covers more, or tie with it (README, section 5).
MostSpecificWins ==
    LET best == best_standard(standards, device)
        fits == Candidates(standards, device) IN
    (\A c \in fits : IsPrefix(c[2])) =>
        /\ Cardinality(best) <= 1
        /\ \A k \in best, c \in fits :
              ~(ModelsOf(c) \subseteq ModelsOf(k) /\ ModelsOf(c) # ModelsOf(k))

\* Only targets change, each in the direction d or to another spelling.
TargetsMove(d) ==
    /\ device' = device
    /\ \A k \in Keys :
          IF standards[k] = none THEN standards'[k] = none
          ELSE standards'[k] # none /\ compare_versions(standards'[k], standards[k]) \in {0, d}

Verdict == Report(standards, device)

\* Versions are ordered and spellings do not count (docs/firmware.md:39-40):
\* raising targets never gets a device that is behind to the standard, nor one
\* that meets it ahead of it; lowering them is the reverse; respelling a
\* target ("17.09.04a" for "17.9.4a") changes nothing.
TargetsKeepOrder ==
    [][/\ TargetsMove(1) => /\ Verdict = {"behind"} => Verdict' = {"behind"}
                            /\ Verdict = {"compliant"} => "ahead" \notin Verdict'
       /\ TargetsMove(-1) => /\ Verdict = {"ahead"} => Verdict' = {"ahead"}
                             /\ Verdict = {"compliant"} => "behind" \notin Verdict'
       /\ TargetsMove(0) => Verdict' = Verdict]_vars

=============================================================================
