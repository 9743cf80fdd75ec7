----------------------------- MODULE HostLookup -----------------------------
(***************************************************************************)
(* LookupHost and LookupIntern of deps/CoinCore/src/netaddress.cpp, on    *)
(* one caller's result vector vIP, which LookupIntern appends to without  *)
(* clearing it first.  The addresses are CNetAddr byte strings, and every *)
(* test LookupIntern makes of one is NetAddr's: SetSpecial for onion      *)
(* names, the IPv4-mapped form for AF_INET answers and IsInternal for the *)
(* filter.  The resolver (getaddrinfo) is the constant table Resolve,     *)
(* giving for a name the list of answers it returns, or "error".  Numeric *)
(* names resolve without a lookup; other names fail when fAllowLookup is  *)
(* false (AI_NUMERICHOST).                                                *)
(***************************************************************************)
EXTENDS Integers, Sequences

CONSTANTS
    Hosts,         \* names callers pass to LookupHost
    Unbracket,     \* Unbracket[n]: n without one pair of enclosing [ ]
    Special,       \* Special[n]: n as SetSpecial parses it, [onion, decoded]
    Resolve,       \* Resolve[n]: getaddrinfo's answers [family, addr], or "error"
    Numeric,       \* names getaddrinfo parses without a lookup
    MaxSolutions,  \* values of nMaxSolutions callers pass
    MaxVector      \* bound on the length of vIP explored

\* The CNetAddr operators, with no object of NetAddr's own in play.
NA == INSTANCE NetAddr WITH V4Inputs <- {}, V6Inputs <- {}, OnionNames <- {},
                            Partners <- {}, ip <- << >>, ret <- "void",
                            op <- "none"

VARIABLES
    vIP,     \* the caller's result vector
    result,  \* what the last LookupHost returned
    call     \* the last call: its name, its nMaxSolutions and vIP's length before it

vars == <<vIP, result, call>>

NoCall == [name |-> "", max |-> 0, before |-> 0]

Init == vIP = << >> /\ result = FALSE /\ call = NoCall

\* CNetAddr(sin_addr) for AF_INET, CNetAddr(sin6_addr, scope) for AF_INET6.
Resolved(r) ==
    IF r.family = "AF_INET" THEN NA!pchIPv4 \o r.addr ELSE r.addr

RECURSIVE Traverse(_, _, _, _)
Traverse(v, res, i, max) ==
    IF i > Len(res) \/ ~(max = 0 \/ Len(v) < max) THEN v
    ELSE Traverse(IF NA!IsInternal(Resolved(res[i])) THEN v
                  ELSE Append(v, Resolved(res[i])), res, i + 1, max)

\* getaddrinfo with AI_NUMERICHOST unless lookups are allowed.
GetAddrInfo(name, allow) ==
    IF ~allow /\ name \notin Numeric THEN "error" ELSE Resolve[name]

\* LookupIntern(name, vIP, max, allow): the new vector and the result.
\* SetSpecial is tried first and, when it succeeds, is pushed unchecked.
LookupIntern(name, max, allow) ==
    LET onion == NA!SpecialIP(Special[name])
        ans   == GetAddrInfo(name, allow)
        v     == IF ans = "error" THEN vIP ELSE Traverse(vIP, ans, 1, max)
    IN CASE onion # << >>  -> [v |-> Append(vIP, onion), ok |-> TRUE]
         [] ans = "error"  -> [v |-> vIP, ok |-> FALSE]
         [] OTHER          -> [v |-> v, ok |-> Len(v) > 0]

\* LookupHost: reject "", strip brackets, then LookupIntern.
LookupHost(name, max, allow) ==
    /\ Len(vIP) < MaxVector
    /\ call' = [name |-> name, max |-> max, before |-> Len(vIP)]
    /\ IF name = ""
       THEN result' = FALSE /\ UNCHANGED vIP
       ELSE LET r == LookupIntern(Unbracket[name], max, allow)
            IN vIP' = r.v /\ result' = r.ok

\* The caller starts over with a fresh vector.
NewVector ==
    /\ vIP # << >>
    /\ vIP' = << >> /\ result' = FALSE /\ call' = NoCall

Next ==
    \/ \E name \in Hosts, max \in MaxSolutions, allow \in BOOLEAN :
          LookupHost(name, max, allow)
    \/ NewVector

Spec == Init /\ [][Next]_vars

-----------------------------------------------------------------------------
(* Properties *)

\* The names whose SetSpecial succeeds, taken from the inputs.
OnionName(n) ==
    n # "" /\ Special[Unbracket[n]].onion /\ Len(Special[Unbracket[n]].decoded) = 10

=============================================================================
