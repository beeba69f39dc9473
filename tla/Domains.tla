------------------------------ MODULE Domains ------------------------------
(***************************************************************************)
(* Custom domains of the relay: the management API's handlers for domains, *)
(* challenges and certificates (localup-api handlers.rs), the ACME client  *)
(* (localup-cert acme.rs), and the two readers of their result: the        *)
(* control plane, which asks whether a domain is registered, and the HTTPS *)
(* server, which loads certificates when it starts.                        *)
(*                                                                         *)
(* Every request is a call of its own; calls run concurrently and share    *)
(* the database, the certificate files, the client's pending orders and    *)
(* the challenges in memory.  One action is one access to one of these.    *)
(***************************************************************************)
EXTENDS Integers, Sequences, FiniteSets

CONSTANTS
    Domain,        \* names, of which some are wildcards
    Parent,        \* a name -> the wildcard that covers it, or NoDomain
    Call,          \* requests to the API
    Ops,           \* what each call may be: [Call -> SUBSET Op]
    NoDomain,
    MaxOrders,     \* bound: ACME orders
    MaxIssues      \* bound: certificates issued or uploaded

Op == {"upload", "delete", "initiate", "request", "complete", "cancel", "restart"}

ASSUME DomainAssumption ==
    /\ NoDomain \notin Domain
    /\ Parent \in [Domain -> Domain \cup {NoDomain}]
    /\ Ops \in [Call -> SUBSET Op]
    /\ MaxOrders \in Nat /\ MaxIssues \in Nat

VARIABLES
    domains,       \* the table custom_domains: [Domain -> row]
    files,         \* [Domain -> [cert, key]]: the issue each file holds, 0 for no file
    issues,        \* certificates with their keys: for which domain, and well-formed?
    orders,        \* orders at the ACME server: for which domain, by which challenge
    held,          \* pending_orders of the ACME client
    challenges,    \* the table domain_challenges: [order -> status]
    tokens,        \* acme_challenges, the HTTP-01 challenges in memory
    call,          \* the calls in progress
    \* history, for the properties
    tried,         \* orders whose completion was tried, or that a restart has lost
    mixed,         \* domains completed with the order of another domain
    clash,         \* domains whose files were in use by two calls at once
    stranded       \* orders whose token was forgotten and whose row could not be deleted

shared == <<domains, files, issues, orders, held, challenges, tokens>>
history == <<tried, mixed, clash, stranded>>
domainVars == <<domains, files, issues, orders, held, challenges, tokens, call, tried, mixed, clash, stranded>>

NoRow == [status |-> "none", cert |-> 0, key |-> 0, path |-> FALSE]
IsWildcard(d) == \E e \in Domain : Parent[e] = d
Idle == [op |-> "none", at |-> "idle", domain |-> NoDomain, of |-> NoDomain,
         order |-> 0, cert |-> 0, key |-> 0, found |-> {}]

DomainsInit ==
    /\ domains = [d \in Domain |-> NoRow]
    /\ files = [d \in Domain |-> [cert |-> 0, key |-> 0]]
    /\ issues = <<>> /\ orders = <<>>
    /\ held = {} /\ challenges = [n \in 1..MaxOrders |-> "none"] /\ tokens = {}
    /\ call = [c \in Call |-> Idle]
    /\ tried = {} /\ mixed = {} /\ clash = {} /\ stranded = {}

Goto(c, l) == call' = [call EXCEPT ![c].at = l]
Done(c) == call' = [call EXCEPT ![c] = [Idle EXCEPT !.at = "done"]]

\* The other calls that are using the files of a domain.
Using(c, d) ==
    {e \in Call \ {c} : \/ call[e].at \in {"key", "load"} /\ call[e].of = d
                        \/ call[e].at \in {"readcert", "readkey"} /\ d \in {call[e].of, call[e].domain}}
Clashes(c, d) == IF Using(c, d) = {} THEN clash ELSE clash \cup {d}

-----------------------------------------------------------------------------
(***************************************************************************)
(* A request arrives.  `complete' names an order and a domain of its own.  *)
(***************************************************************************)
First(op) == CASE op = "upload" -> "cert" [] op = "delete" -> "find" [] op = "complete" -> "take"
               [] op \in {"initiate", "request"} -> "order" [] OTHER -> "list"

Begin(c) ==
    /\ call[c].at = "idle"
    /\ \E op \in Ops[c], d \in Domain :
       \E n \in (IF op = "complete" THEN DOMAIN orders ELSE {0}) :
         call' = [call EXCEPT ![c] = [Idle EXCEPT !.op = op, !.at = First(op), !.domain = d,
                                                  !.of = d, !.order = n]]
    /\ UNCHANGED <<shared, history>>

-----------------------------------------------------------------------------
(***************************************************************************)
(* initiate_challenge and request_acme_certificate.                        *)
(***************************************************************************)
\* initiate_order: a wildcard only by DNS-01; the ACME server may refuse.
NewOrder(c) ==
    /\ call[c].at = "order"
    /\ \/ /\ Len(orders) < MaxOrders
          /\ \E type \in IF call[c].op = "request" THEN {"http01"} ELSE {"http01", "dns01"} :
               /\ IsWildcard(call[c].domain) => type = "dns01"
               /\ orders' = Append(orders, [domain |-> call[c].domain, type |-> type])
          /\ held' = held \cup {Len(orders) + 1}
          /\ call' = [call EXCEPT ![c].at = "token", ![c].order = Len(orders) + 1]
       \/ Done(c) /\ UNCHANGED <<orders, held>>
    /\ UNCHANGED <<domains, files, issues, challenges, tokens, history>>

StoreToken(c) ==
    /\ call[c].at = "token"
    /\ tokens' = IF orders[call[c].order].type = "http01" THEN tokens \cup {call[c].order} ELSE tokens
    /\ IF call[c].op = "request" THEN Done(c) ELSE Goto(c, "pending")
    /\ UNCHANGED <<domains, files, issues, orders, held, challenges, history>>

\* An existing row keeps its certificate and becomes pending.
SaveDomain(c) ==
    /\ call[c].at = "pending"
    /\ \/ /\ domains' = [domains EXCEPT ![call[c].domain].status = "pending"]
          /\ Goto(c, "challenge")
       \/ Done(c) /\ UNCHANGED domains                   \* database error
    /\ UNCHANGED <<files, issues, orders, held, challenges, tokens, history>>

SaveChallenge(c) ==
    /\ call[c].at = "challenge"
    /\ \/ challenges' = [challenges EXCEPT ![call[c].order] = "pending"]
       \/ UNCHANGED challenges                           \* database error
    /\ Done(c)
    /\ UNCHANGED <<domains, files, issues, orders, held, tokens, history>>

-----------------------------------------------------------------------------
(***************************************************************************)
(* complete_challenge, and upload_custom_domain, which share the files.    *)
(***************************************************************************)
\* complete_order takes the order first, so that a failure cannot be retried.
TakeOrder(c) ==
    /\ call[c].at = "take"
    /\ LET n == call[c].order IN
       /\ held' = held \ {n}
       /\ tried' = tried \cup {n}
       /\ \/ n \in held /\ call' = [call EXCEPT ![c].at = "cert", ![c].of = orders[n].domain]
          \/ Done(c)                                     \* not found, or not verified
    /\ UNCHANGED <<domains, files, issues, orders, challenges, tokens, mixed, clash, stranded>>

\* The certificate is new; the one that is uploaded need not be well-formed.
WriteCert(c) ==
    /\ call[c].at = "cert" /\ Len(issues) < MaxIssues
    /\ \E good \in IF call[c].op = "upload" THEN BOOLEAN ELSE {TRUE} :
         issues' = Append(issues, [domain |-> call[c].of, good |-> good])
    /\ files' = [files EXCEPT ![call[c].of].cert = Len(issues) + 1]
    /\ clash' = Clashes(c, call[c].of)
    /\ call' = [call EXCEPT ![c].at = "key", ![c].cert = Len(issues) + 1, ![c].key = Len(issues) + 1]
    /\ UNCHANGED <<domains, orders, held, challenges, tokens, tried, mixed, stranded>>

WriteKey(c) ==
    /\ call[c].at = "key"
    /\ files' = [files EXCEPT ![call[c].of].key = call[c].key]
    /\ clash' = Clashes(c, call[c].of)
    /\ Goto(c, "load")
    /\ UNCHANGED <<domains, issues, orders, held, challenges, tokens, tried, mixed, stranded>>

Loads(cert, key) == cert # 0 /\ key # 0 /\ issues[cert].good /\ issues[key].good

\* Fault: the certificate is not validated.
Load_Unchecked(c) ==
    /\ call[c].at = "load"
    /\ Goto(c, IF call[c].op = "upload" THEN "insert" ELSE "readcert")
    /\ UNCHANGED <<shared, history>>

\* load_certificate_from_files parses what the files hold by now.
Load(c) ==
    /\ call[c].at = "load"
    /\ IF ~Loads(files[call[c].of].cert, files[call[c].of].key) THEN Done(c)
       ELSE Goto(c, IF call[c].op = "upload" THEN "insert" ELSE "readcert")
    /\ UNCHANGED <<shared, history>>

\* Fault: the certificate of the order is stored, whatever domain the caller names.
ReadCert_OfOrder(c) ==
    /\ call[c].at = "readcert"
    /\ call' = [call EXCEPT ![c].at = "save"]
    /\ UNCHANGED <<shared, history>>

\* The row gets what the files of the domain named by the caller hold.
ReadCert(c) ==
    /\ call[c].at = "readcert"
    /\ LET d == call[c].domain IN
       /\ IF files[d].cert = 0 THEN Done(c)
          ELSE call' = [call EXCEPT ![c].at = "readkey", ![c].cert = files[d].cert]
       /\ clash' = Clashes(c, d)
       /\ mixed' = IF d # call[c].of THEN mixed \cup {d} ELSE mixed
    /\ UNCHANGED <<shared, tried, stranded>>

ReadKey(c) ==
    /\ call[c].at = "readkey"
    /\ LET d == call[c].domain IN
       IF files[d].key = 0 THEN Done(c)
       ELSE call' = [call EXCEPT ![c].at = "save", ![c].key = files[d].key]
    /\ UNCHANGED <<shared, history>>

Row(c) == [status |-> "active", cert |-> call[c].cert, key |-> call[c].key, path |-> TRUE]

\* Insert or update, then the challenge; the database may fail at the first.
\* The challenge in memory is meant to go too, but is looked for by the domain's
\* name in its key authorization, where no name is.
SaveRow(c) ==
    /\ call[c].at = "save"
    /\ \/ domains' = [domains EXCEPT ![call[c].domain] = Row(c)] /\ Goto(c, "mark")
       \/ Done(c) /\ UNCHANGED domains
    /\ UNCHANGED <<files, issues, orders, held, challenges, tokens, history>>

MarkCompleted(c) ==
    /\ call[c].at = "mark"
    /\ LET n == call[c].order IN
       \/ challenges' = [challenges EXCEPT ![n] = IF @ = "none" THEN @ ELSE "completed"]
       \/ UNCHANGED challenges                           \* database error, ignored
    /\ Done(c)
    /\ UNCHANGED <<domains, files, issues, orders, held, tokens, history>>

\* The upload only inserts: a domain that has a row keeps it, but its files are
\* already overwritten.
InsertRow(c) ==
    /\ call[c].at = "insert"
    /\ \/ /\ domains[call[c].domain].status = "none"
          /\ domains' = [domains EXCEPT ![call[c].domain] = Row(c)]
       \/ UNCHANGED domains                              \* it has a row, or a database error
    /\ Done(c)
    /\ UNCHANGED <<files, issues, orders, held, challenges, tokens, history>>

-----------------------------------------------------------------------------
(***************************************************************************)
(* delete_custom_domain, cancel_challenge and restart_challenge.           *)
(***************************************************************************)
FindDomain(c) ==
    /\ call[c].at = "find"
    /\ LET row == domains[call[c].domain] IN
       \/ row.status # "none" /\ Goto(c, IF row.path THEN "rmcert" ELSE "drop")
       \/ Done(c)                                        \* not found, or a database error
    /\ UNCHANGED <<shared, history>>

RemoveFile(c) ==
    /\ \/ /\ call[c].at = "rmcert" /\ Goto(c, "rmkey")
          /\ files' = [files EXCEPT ![call[c].domain].cert = 0]
       \/ /\ call[c].at = "rmkey" /\ Goto(c, "drop")
          /\ files' = [files EXCEPT ![call[c].domain].key = 0]
    /\ clash' = Clashes(c, call[c].domain)
    /\ UNCHANGED <<domains, issues, orders, held, challenges, tokens, tried, mixed, stranded>>

\* On a database error the row stays, without its files.
DropRow(c) ==
    /\ call[c].at = "drop"
    /\ domains' = [domains EXCEPT ![call[c].domain] = NoRow] \/ UNCHANGED domains
    /\ Done(c)
    /\ UNCHANGED <<files, issues, orders, held, challenges, tokens, history>>

\* get_domain_challenges, and the first step of cancelling them.
PendingOf(d) == {n \in DOMAIN orders : orders[n].domain = d /\ challenges[n] = "pending"}

ListPending(c) ==
    /\ call[c].at = "list"
    /\ \/ \E found \in {PendingOf(call[c].domain), {}} :   \* a restart takes an error for none
            /\ call[c].op = "restart" \/ found # {}
            /\ call' = [call EXCEPT ![c].at = "forget", ![c].found = found]
       \/ call[c].op = "cancel" /\ Done(c)               \* none, or a database error
    /\ UNCHANGED <<shared, history>>

ForgetTokens(c) ==
    /\ call[c].at = "forget"
    /\ tokens' = tokens \ call[c].found
    /\ Goto(c, "clear")
    /\ UNCHANGED <<domains, files, issues, orders, held, challenges, history>>

\* Fault: the rows stay.
ClearChallenges_Kept(c) ==
    /\ call[c].at = "clear"
    /\ Goto(c, IF call[c].op = "cancel" THEN "fail" ELSE "order")
    /\ UNCHANGED <<shared, history>>

\* On a database error the rows stay pending without their tokens; a restart goes on.
ClearChallenges(c) ==
    /\ call[c].at = "clear"
    /\ \/ /\ challenges' = [n \in DOMAIN challenges |->
                              IF n \in PendingOf(call[c].domain) THEN "none" ELSE challenges[n]]
          /\ Goto(c, IF call[c].op = "cancel" THEN "fail" ELSE "order")
          /\ UNCHANGED stranded
       \/ /\ stranded' = stranded \cup call[c].found
          /\ IF call[c].op = "cancel" THEN Done(c) ELSE Goto(c, "order")
          /\ UNCHANGED challenges
    /\ UNCHANGED <<domains, files, issues, orders, held, tokens, tried, mixed, clash>>

MarkFailed(c) ==
    /\ call[c].at = "fail"
    /\ LET d == call[c].domain IN
       \/ domains[d].status # "none" /\ domains' = [domains EXCEPT ![d].status = "failed"]
       \/ UNCHANGED domains                              \* no row, or a database error, ignored
    /\ Done(c)
    /\ UNCHANGED <<files, issues, orders, held, challenges, tokens, history>>

-----------------------------------------------------------------------------
\* The relay crashes or is restarted: what is in memory is lost.
RelayRestarts ==
    /\ call' = [c \in Call |-> IF call[c].at = "idle" THEN Idle ELSE [Idle EXCEPT !.at = "done"]]
    /\ held' = {} /\ tokens' = {}
    /\ tried' = DOMAIN orders
    /\ UNCHANGED <<domains, files, issues, orders, challenges, mixed, clash, stranded>>

CallStep(c) ==
    \/ Begin(c) \/ NewOrder(c) \/ StoreToken(c) \/ SaveDomain(c) \/ SaveChallenge(c)
    \/ TakeOrder(c) \/ WriteCert(c) \/ WriteKey(c) \/ Load(c) \/ ReadCert(c) \/ ReadKey(c)
    \/ SaveRow(c) \/ MarkCompleted(c) \/ InsertRow(c)
    \/ FindDomain(c) \/ RemoveFile(c) \/ DropRow(c)
    \/ ListPending(c) \/ ForgetTokens(c) \/ ClearChallenges(c) \/ MarkFailed(c)

DomainsNext == RelayRestarts \/ \E c \in Call : CallStep(c)

DomainsSpec == DomainsInit /\ [][DomainsNext]_domainVars

-----------------------------------------------------------------------------
(***************************************************************************)
(* The readers.                                                            *)
(***************************************************************************)
\* The readers to which each program gives the database: `localup relay' its HTTPS server,
\* the exit node its tunnel handler, the library neither.
Database == [cli |-> {"https"}, exit_node |-> {"control"}, lib |-> {}]

\* The rows' rule: an exact row decides, else the wildcard's.
Registered(d) ==
    IF domains[d].status # "none" THEN domains[d].status = "active"
    ELSE Parent[d] # NoDomain /\ domains[Parent[d]].status = "active"

\* The control plane: without a database every domain will do.
is_custom_domain_registered(p, d) == "control" \notin Database[p] \/ Registered(d)

\* What an HTTPS server would load if it started now: the row's content, else the files.
loaded(d) ==
    LET row == domains[d] IN
    IF row.status # "active" THEN 0
    ELSE IF Loads(row.cert, row.key) THEN row.cert
    ELSE IF row.path /\ Loads(files[d].cert, files[d].key) THEN files[d].cert ELSE 0

\* The certificate on file that covers a domain, and CustomCertResolver::resolve, which has
\* those that were loaded; 0 is the default certificate.
covering(d) == IF loaded(d) = 0 /\ Parent[d] # NoDomain THEN loaded(Parent[d]) ELSE loaded(d)
resolve(p, d) == IF "https" \in Database[p] THEN covering(d) ELSE 0

get_certificate_details(d) ==
    IF domains[d].status = "none" \/ ~domains[d].path THEN 0 ELSE files[d].cert

\* The HTTP servers look a challenge up in the database, the API's own server in memory.
lookup_acme_challenge(n) == challenges[n] = "pending" /\ orders[n].type = "http01"
serve_acme_challenge(n) == n \in tokens

-----------------------------------------------------------------------------
\* A certificate is only ever stored, shown or presented for the domain it was uploaded
\* or issued for, also when a completion names a domain that is not its order's; and a
\* stored certificate goes with its key, unless two calls used the domain's files at once
\* or a completion took files that another call had left (handlers.rs:1421).
CertOfDomain ==
    \A d \in Domain :
      LET row == domains[d] IN
      /\ row.cert # 0 => /\ issues[row.cert].domain = d /\ issues[row.key].domain = d
                         /\ d \notin clash \cup mixed => row.cert = row.key
      /\ \A n \in {get_certificate_details(d), loaded(d)} \ {0} : issues[n].domain = d

\* A domain that a control plane accepts by the database has a certificate on file that
\* covers it, and an HTTPS server that reads the database presents one for every domain
\* that is registered there: acceptance and loading follow the same rule for wildcards, and
\* no active row is without a certificate that loads.  No program has both readers.
RegisteredIsCovered ==
    \A p \in DOMAIN Database, d \in Domain :
      {d, Parent[d]} \cap (mixed \cup clash) = {} =>
        /\ "control" \in Database[p] /\ is_custom_domain_registered(p, d) => covering(d) # 0
        /\ "https" \in Database[p] /\ Registered(d) => resolve(p, d) # 0

\* A pending challenge that is shown to the user can be completed, and the answer to it
\* that the HTTP servers find in the database is the one the API holds in memory, unless
\* its completion was tried, the relay was restarted since, a call is just cancelling it,
\* or the database failed such a call half way (handlers.rs:1926, 2024).
PendingCanComplete ==
    \A n \in DOMAIN orders :
      challenges[n] = "pending" /\ n \notin tried =>
        /\ n \in held
        /\ lookup_acme_challenge(n) =>
             \/ serve_acme_challenge(n)
             \/ \E c \in Call : call[c].at = "clear" /\ n \in call[c].found
             \/ n \in stranded

\* A registered domain has what serves it: a certificate that covers it, or while it is
\* pending a challenge that can still be completed.
DomainsCovered == RegisteredIsCovered /\ PendingCanComplete
=============================================================================
