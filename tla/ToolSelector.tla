--------------------------- MODULE ToolSelector ---------------------------
(***************************************************************************)
(* The filter pipeline of GoMicroToolkit.get_tools (toolkit.py 219-236)    *)
(* and the tool descriptor it filters.                                     *)
(*                                                                         *)
(* A GoMicroTool is abstracted to its name and its service: endpoint,      *)
(* description, example, scopes and metadata are read by no filter and by  *)
(* no property.  Names and services are strings.  A regular expression    *)
(* name_pattern is abstracted to the set of names re.match accepts (an     *)
(* anchored-at-start match), so a pattern that matches nothing is the      *)
(* empty set, which Python still treats as a given (truthy) pattern.       *)
(* An include or exclude list is abstracted to the set of its names, since *)
(* the code only tests membership.  NoFilter stands for Python's None.     *)
(***************************************************************************)
EXTENDS Sequences, Naturals

CONSTANTS
    Names,      \* tool names a gateway may publish
    Services,   \* service names a gateway may publish
    NoFilter    \* the argument None (a model value)

ASSUME NoFilterAssumption == NoFilter \notin Services \cup {""}

\* A GoMicroTool, reduced to what the filters read (toolkit.py 40-59).
ToolRec == [name : Names, service : Services]

\* The keyword arguments of get_tools, one record per call.
Filter == [service : {NoFilter, ""} \cup Services,
           pattern : {NoFilter} \cup SUBSET Names,
           include : {NoFilter} \cup SUBSET Names,
           exclude : {NoFilter} \cup SUBSET Names]

(***************************************************************************)
(* Python truthiness of each argument: `if service_filter:` skips None and *)
(* "", `if include:` skips None and [], `if name_pattern:` skips only None *)
(* (the empty regex matches every name, so skipping it changes nothing).   *)
(***************************************************************************)
ServiceGiven(f) == f.service # NoFilter /\ f.service # ""
PatternGiven(f) == f.pattern # NoFilter
IncludeGiven(f) == f.include # NoFilter /\ f.include # {}
ExcludeGiven(f) == f.exclude # NoFilter /\ f.exclude # {}

\* The four list comprehensions of get_tools, each applied to the result of
\* the one before it, in the code's order service, pattern, include, exclude.
ByService(ts, f) ==
    IF ServiceGiven(f) THEN SelectSeq(ts, LAMBDA t : t.service = f.service) ELSE ts
ByPattern(ts, f) ==
    IF PatternGiven(f) THEN SelectSeq(ts, LAMBDA t : t.name \in f.pattern) ELSE ts
ByInclude(ts, f) ==
    IF IncludeGiven(f) THEN SelectSeq(ts, LAMBDA t : t.name \in f.include) ELSE ts
ByExclude(ts, f) ==
    IF ExcludeGiven(f) THEN SelectSeq(ts, LAMBDA t : t.name \notin f.exclude) ELSE ts

\* Mutant: the include comprehension is left out of the pipeline.
GetToolsSelectNoInclude(ts, f) == ByExclude(ByPattern(ByService(ts, f), f), f)

GetToolsSelect(ts, f) == ByExclude(ByInclude(ByPattern(ByService(ts, f), f), f), f)

\* _create_langchain_tool keeps only the name of each surviving tool (plus a
\* description and a closure over that name); the result is their sequence.
ToolNames(ts) == [i \in 1..Len(ts) |-> ts[i].name]

(***************************************************************************)
(* Reference: the selector of spec 4.3, written from the spec alone.  A   *)
(* filter is supplied unless it is None; each supplied filter is one      *)
(* condition on a tool, the conditions are AND-ed, and the surviving      *)
(* tools keep their original order.  It agrees with the code's truthiness *)
(* except on include=[] and service_filter="", which the spec treats as   *)
(* supplied (selecting nothing) and the code skips.                      *)
(***************************************************************************)
Supplied(x) == x # NoFilter

SpecAdmits(f, tl) ==
    /\ Supplied(f.service) => tl.service = f.service
    /\ Supplied(f.pattern) => tl.name \in f.pattern
    /\ Supplied(f.include) => tl.name \in f.include
    /\ Supplied(f.exclude) => tl.name \notin f.exclude

RefSelect(ts, f) == SelectSeq(ts, LAMBDA tl : SpecAdmits(f, tl))

=============================================================================
