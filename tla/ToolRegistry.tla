---------------------------- MODULE ToolRegistry ----------------------------
(***************************************************************************)
(* tools/registry.go: the tools of a process by name.  Register compares   *)
(* the number of tools with the limit first, in a critical section of its  *)
(* own (Count), and looks for the name and stores the tool in another.     *)
(*                                                                         *)
(* A tool is a model value with a name as it gives it and a type; Trim is  *)
(* strings.TrimSpace.  Calls that fail before they reach the map (nil      *)
(* tool, blank name, limit reached) change nothing and are left out.       *)
(***************************************************************************)
EXTENDS Naturals, FiniteSets

CONSTANTS
    Callers,   \* goroutines that register and unregister tools
    Tools,     \* BaseTool objects
    Name,      \* [Tools -> Names]: BaseTool.Name
    Trim,      \* [Names -> keys]
    NoTool,
    maxTools

ASSUME RegistryAssumption ==
    /\ IsFiniteSet(Tools)
    /\ IsFiniteSet(Callers) /\ Callers # {}
    /\ NoTool \notin Tools
    /\ \A t \in Tools : Name[t] \in DOMAIN Trim
    /\ maxTools \in Nat \ {0}   \* NewRegistry replaces a limit <= 0

VARIABLES
    tools,  \* map from trimmed names to tools
    reg     \* [Callers -> the tool of a Register past its check, or NoTool]

NewRegistry ==
    /\ tools = <<>>
    /\ reg = [c \in Callers |-> NoTool]

Key(t) == Trim[Name[t]]

Keys == {Key(t) : t \in Tools}

(* Mutant: the limit is compared with >. *)
FullOneLate == Cardinality(DOMAIN tools) > maxTools

Full == Cardinality(DOMAIN tools) >= maxTools

RegisterCheck(c, t) ==
    /\ reg[c] = NoTool
    /\ ~Full
    /\ reg' = [reg EXCEPT ![c] = t]
    /\ UNCHANGED tools

(* A name that is taken is an error. *)
RegisterStore(c) ==
    LET t == reg[c] IN
    /\ t # NoTool
    /\ tools' = IF Key(t) \in DOMAIN tools THEN tools
                ELSE [k \in DOMAIN tools \cup {Key(t)} |-> IF k = Key(t) THEN t ELSE tools[k]]
    /\ reg' = [reg EXCEPT ![c] = NoTool]

Unregister(c, k) ==
    /\ reg[c] = NoTool
    /\ k \in DOMAIN tools
    /\ tools' = [j \in DOMAIN tools \ {k} |-> tools[j]]
    /\ UNCHANGED reg

(* Mutant: the name is looked up as it is given. *)
GetExact(n) == IF n \in DOMAIN tools THEN tools[n] ELSE NoTool

Get(n) == IF Trim[n] \in DOMAIN tools THEN tools[Trim[n]] ELSE NoTool

List == {tools[k] : k \in DOMAIN tools}

RegistryTypeOK ==
    /\ DOMAIN tools \subseteq Keys
    /\ \A k \in DOMAIN tools : tools[k] \in Tools /\ Key(tools[k]) = k
    /\ reg \in [Callers -> Tools \cup {NoTool}]

(* The names that calls of Register past their check are about to store. *)
Pending == {Key(reg[c]) : c \in {d \in Callers : reg[d] # NoTool}}

(* The limit can be exceeded by calls that passed the check together, but  *)
(* by less than the number of callers.                                     *)
LimitExceededByCallers ==
    Cardinality(DOMAIN tools \cup Pending) < maxTools + Cardinality(Callers)
=============================================================================
