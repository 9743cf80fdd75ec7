--------------------------- MODULE NetworkSelector ---------------------------
(***************************************************************************)
(* CoinQ::NetworkSelector of deps/CoinQ/src/CoinQ_coinparams.cpp: a map   *)
(* from lower-case network names to coin parameters, filled by the        *)
(* constructor, and the name selected as the default.  A network's        *)
(* parameters are represented by its key; an exception by its class.      *)
(* Names is a small set of caller-supplied names, Lower their ::tolower   *)
(* transform.  Objects are independent NetworkSelector instances, each    *)
(* of which may be destroyed and constructed again.                      *)
(***************************************************************************)
EXTENDS FiniteSets

CONSTANTS
    Objects, \* NetworkSelector instances
    Names,   \* network names callers pass, "" included
    Lower    \* Lower[n]: n with every character through ::tolower

ASSUME /\ "" \in Names /\ "bco" \in Names
       /\ Lower \in [Names -> Names] /\ Lower[""] = ""

VARIABLES
    alive,        \* alive[o]: object o exists (its constructor returned)
    network_map,  \* network_map[o]: the keys of o.network_map_
    selected,     \* selected[o]: o.selected_
    call,         \* call[o]: the last call on o, [op, arg]
    outcome       \* outcome[o]: what it returned or threw

vars == <<alive, network_map, selected, call, outcome>>

\* The networks the constructor registers (testnet3, litecoin, ... are
\* commented out).
Registered == {"bco"}

Exceptions == {"NoNetworkSelectedException", "NetworkNotRecognizedException"}
Ops == {"ctor", "dtor", "select", "getCoinParams"}

Init ==
    /\ alive = [o \in Objects |-> FALSE]
    /\ network_map = [o \in Objects |-> {}]
    /\ selected = [o \in Objects |-> ""]
    /\ call = [o \in Objects |-> [op |-> "dtor", arg |-> ""]]
    /\ outcome = [o \in Objects |-> "ok"]

\* Mutant: select stores any name without looking it up.
SelectUnchecked(map, sel, name) ==
    [selected |-> Lower[name], outcome |-> "ok"]

\* select(network_name) on an object with keys `map` and selected_ = sel:
\* lower-case the name, throw if it is not a key, else remember it.  The
\* result: the new selected_ and the outcome.
SelectResult(map, sel, name) ==
    IF Lower[name] \in map
    THEN [selected |-> Lower[name], outcome |-> "ok"]
    ELSE [selected |-> sel, outcome |-> "NetworkNotRecognizedException"]

\* getCoinParams(network_name) on o: the named network, or the selected one
\* for "", lower-cased and looked up.
GetCoinParamsResult(o, name) ==
    LET lower == IF name = "" THEN selected[o] ELSE name
    IN IF lower = "" THEN "NoNetworkSelectedException"
       ELSE IF Lower[lower] \in network_map[o] THEN Lower[lower]
       ELSE "NetworkNotRecognizedException"

\* NetworkSelector(network_name): register the networks, then select the
\* name if one is given; an exception from select aborts construction.
Construct(o, name) ==
    LET r == SelectResult(Registered, "", name)
        ok == name = "" \/ r.outcome = "ok"
    IN /\ ~alive[o]
       /\ alive' = [alive EXCEPT ![o] = ok]
       /\ network_map' = [network_map EXCEPT ![o] = IF ok THEN Registered ELSE {}]
       /\ selected' = [selected EXCEPT ![o] = IF name # "" /\ ok THEN r.selected ELSE ""]
       /\ call' = [call EXCEPT ![o] = [op |-> "ctor", arg |-> name]]
       /\ outcome' = [outcome EXCEPT ![o] = IF name = "" THEN "ok" ELSE r.outcome]

\* Object o goes out of scope.
Destroy(o) ==
    /\ alive[o]
    /\ alive' = [alive EXCEPT ![o] = FALSE]
    /\ network_map' = [network_map EXCEPT ![o] = {}]
    /\ selected' = [selected EXCEPT ![o] = ""]
    /\ call' = [call EXCEPT ![o] = [op |-> "dtor", arg |-> ""]]
    /\ outcome' = [outcome EXCEPT ![o] = "ok"]

Select(o, name) ==
    /\ alive[o]
    /\ LET r == SelectResult(network_map[o], selected[o], name)
       IN /\ selected' = [selected EXCEPT ![o] = r.selected]
          /\ outcome' = [outcome EXCEPT ![o] = r.outcome]
    /\ call' = [call EXCEPT ![o] = [op |-> "select", arg |-> name]]
    /\ UNCHANGED <<alive, network_map>>

GetCoinParams(o, name) ==
    /\ alive[o]
    /\ outcome' = [outcome EXCEPT ![o] = GetCoinParamsResult(o, name)]
    /\ call' = [call EXCEPT ![o] = [op |-> "getCoinParams", arg |-> name]]
    /\ UNCHANGED <<alive, network_map, selected>>

Next ==
    \E o \in Objects :
        \/ \E name \in Names : Construct(o, name) \/ Select(o, name) \/ GetCoinParams(o, name)
        \/ Destroy(o)

Spec == Init /\ [][Next]_vars

-----------------------------------------------------------------------------
(* Properties *)

\* Type: the selected network is "" or one of the map's lower-case keys,
\* whatever names were passed to the constructor and to select.
TypeOK ==
    /\ alive \in [Objects -> BOOLEAN]
    /\ network_map \in [Objects -> SUBSET Names]
    /\ \A o \in Objects : selected[o] \in network_map[o] \cup {""}
    /\ call \in [Objects -> [op : Ops, arg : Names]]
    /\ outcome \in [Objects -> Exceptions \cup Names \cup {"ok"}]

=============================================================================
