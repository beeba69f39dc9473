--------------------------- MODULE RouteRegistry ---------------------------
(***************************************************************************)
(* The registry of routes and its wildcard patterns                        *)
(* (crates/localup-router, registry.rs and wildcard.rs): which tunnel      *)
(* serves a host name.  Names are text here, sequences of symbols, since   *)
(* the matching works on text: it compares suffixes and looks for dots and *)
(* asterisks.  The registry keeps wildcard routes in a table of their own, *)
(* and finds the pattern for a host with one probe of it.                  *)
(***************************************************************************)
EXTENDS Naturals, Sequences, SequencesExt

CONSTANTS
    Letter,        \* the symbols of names other than "." and "*"
    Name,          \* names that tunnels register
    Pattern,       \* texts that tunnels register as wildcards
    Owner,         \* tunnels
    MaxLength      \* bound: symbols of the host asked for

NoOwner == "none"

ASSUME RegistryAssumption ==
    /\ Letter \cap {".", "*"} = {} /\ NoOwner \notin Owner /\ MaxLength \in Nat
    /\ \A n \in Name \cup Pattern : n \in Seq(Letter \cup {".", "*"})

VARIABLES
    routes,        \* (kind, name) -> owner: the exact routes
    wildcards,     \* pattern -> owner: the wildcard routes
    host           \* the name a visitor asks for

routeVars == <<routes, wildcards, host>>

Kind == {"HttpHost", "TlsSni"}
Key == Kind \X Name

-----------------------------------------------------------------------------
(***************************************************************************)
(* wildcard.rs.                                                            *)
(***************************************************************************)
Occurs(part, text) ==
    \E i \in 0 .. Len(text) - Len(part) : SubSeq(text, i + 1, i + Len(part)) = part

From(text, i) == SubSeq(text, i, Len(text))

is_wildcard_pattern(text) == IsPrefix(<<"*", ".">>, text)

base_domain(pattern) == From(pattern, 3)

\* Fault: empty labels in the base domain are accepted.
parses_EmptyParts(pattern) ==
    /\ is_wildcard_pattern(pattern)
    /\ ~Occurs(<<"*", "*">>, pattern) /\ ~IsSuffix(<<".", "*">>, pattern)
    /\ Contains(base_domain(pattern), ".") /\ ~Contains(base_domain(pattern), "*")

\* WildcardPattern::parse accepts the text.  The bare asterisk, the empty text
\* and a text that does not start with "*." are all refused by the first conjunct.
parses(pattern) ==
    /\ is_wildcard_pattern(pattern)
    /\ ~Occurs(<<"*", "*">>, pattern) /\ ~IsSuffix(<<".", "*">>, pattern)
    /\ LET base == base_domain(pattern)
       IN  /\ Contains(base, ".") /\ ~Contains(base, "*")
           /\ Head(base) # "." /\ Last(base) # "." /\ ~Occurs(<<".", ".">>, base)

\* WildcardPattern::matches
matches(pattern, hostname) ==
    LET base == base_domain(pattern)
        prefix == SubSeq(hostname, 1, Len(hostname) - Len(base))
    IN  /\ IsSuffix(base, hostname)
        /\ Len(prefix) >= 2 /\ Last(prefix) = "."
        /\ ~Contains(Front(prefix), ".")

NoPattern == <<>>

\* Fault: the pattern of the last dot is extracted.
extract_parent_wildcard_Last(hostname) ==
    LET isDot(c) == c = "."
        parent == From(hostname, SelectLastInSeq(hostname, isDot) + 1)
    IN  IF Contains(hostname, ".") /\ Contains(parent, ".") THEN <<"*", ".">> \o parent ELSE NoPattern

extract_parent_wildcard(hostname) ==
    LET isDot(c) == c = "."
        parent == From(hostname, SelectInSeq(hostname, isDot) + 1)
    IN  IF Contains(hostname, ".") /\ Contains(parent, ".") THEN <<"*", ".">> \o parent ELSE NoPattern

-----------------------------------------------------------------------------
(***************************************************************************)
(* registry.rs: lookups.                                                   *)
(***************************************************************************)
lookup_wildcard(hostname) ==
    LET wildcard == extract_parent_wildcard(hostname)
    IN  IF wildcard \in Pattern /\ parses(wildcard) /\ matches(wildcard, hostname)
        THEN wildcards[wildcard] ELSE NoOwner

lookup(kind, hostname) ==
    IF hostname \in Name /\ routes[<<kind, hostname>>] # NoOwner
    THEN routes[<<kind, hostname>>]
    ELSE lookup_wildcard(hostname)

-----------------------------------------------------------------------------
(***************************************************************************)
(* registry.rs: changes.  A key that is taken is refused, and so is a      *)
(* pattern that does not parse.                                            *)
(***************************************************************************)
RoutesInit ==
    /\ routes = [k \in Key |-> NoOwner] /\ wildcards = [p \in Pattern |-> NoOwner]
    /\ host = <<>>

register(k, o) ==
    /\ routes[k] = NoOwner
    /\ routes' = [routes EXCEPT ![k] = o]
    /\ UNCHANGED <<wildcards, host>>

unregister(k) ==
    /\ routes[k] # NoOwner
    /\ routes' = [routes EXCEPT ![k] = NoOwner]
    /\ UNCHANGED <<wildcards, host>>

register_wildcard(p, o) ==
    /\ parses(p) /\ wildcards[p] = NoOwner
    /\ wildcards' = [wildcards EXCEPT ![p] = o]
    /\ UNCHANGED <<routes, host>>

unregister_wildcard(p) ==
    /\ wildcards[p] # NoOwner
    /\ wildcards' = [wildcards EXCEPT ![p] = NoOwner]
    /\ UNCHANGED <<routes, host>>

\* The name a visitor asks for, spelled out symbol by symbol.
Ask ==
    /\ Len(host) < MaxLength
    /\ \E c \in Letter \cup {".", "*"} : host' = Append(host, c)
    /\ UNCHANGED <<routes, wildcards>>

RoutesNext ==
    \/ \E k \in Key : unregister(k) \/ \E o \in Owner : register(k, o)
    \/ \E p \in Pattern : unregister_wildcard(p) \/ \E o \in Owner : register_wildcard(p, o)
    \/ Ask

RoutesSpec == RoutesInit /\ [][RoutesNext]_routeVars
-----------------------------------------------------------------------------
\* A label, and a domain name of two labels or more.
IsLabel(text) == text # <<>> /\ ~Contains(text, ".")
IsDomain(text) ==
    /\ Contains(text, ".")
    /\ \A i \in 0 .. Len(text) : \A j \in i + 1 .. Len(text) + 1 :
         (i = 0 \/ text[i] = ".") /\ (j = Len(text) + 1 \/ text[j] = ".") => j > i + 1

\* The texts that are accepted as patterns are exactly those made of an
\* asterisk as the first label and a domain name of two labels or more without
\* another asterisk (WildcardPattern::parse).
ParseExact ==
    parses(host) <=> \E base \in Suffixes(host) :
                        host = <<"*", ".">> \o base /\ IsDomain(base) /\ ~Contains(base, "*")

\* A pattern covers the names that have one label more than its base domain, and
\* no others.
Covers(p, h) == \E i \in 1 .. Len(h) : /\ h[i] = "." /\ IsLabel(SubSeq(h, 1, i - 1))
                                       /\ From(h, i + 1) = base_domain(p)

\* The tunnel found for a name is the one that registered that very name or, if
\* there is none, the one that registered a pattern covering it: the one probe of
\* lookup_wildcard finds it whenever there is one, for HTTP and for TLS names.
FoundRight ==
    \A kind \in Kind :
        LET exact == IF host \in Name THEN routes[<<kind, host>>] ELSE NoOwner
            covering == {p \in Pattern : wildcards[p] # NoOwner /\ Covers(p, host)}
        IN  lookup(kind, host) = IF exact # NoOwner THEN exact
                                 ELSE IF covering = {} THEN NoOwner
                                 ELSE wildcards[CHOOSE p \in covering : TRUE]

\* Host names reach the tunnels that registered them: patterns are parsed exactly, and a
\* lookup finds the very name or the one pattern that covers it.
RoutesRight == ParseExact /\ FoundRight
=============================================================================
