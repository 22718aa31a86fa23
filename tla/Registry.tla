------------------------------ MODULE Registry ------------------------------
(***************************************************************************)
(* The server-side environment that the log dispatcher reads: the clock    *)
(* (Utils::now, whole seconds), the client registry with the tokens each   *)
(* client object holds, and the client integrity task that evicts dead     *)
(* clients and expired tokens and records when it last ran.                *)
(*                                                                         *)
(* A client object is identified by its id and its generation: removing a *)
(* client frees the object, and a later CONNECT under the same id creates  *)
(* a new object (a new generation).  A Client* held by the dispatcher is   *)
(* modelled as such a pointer; it is dangling once that generation is gone.*)
(***************************************************************************)
EXTENDS Naturals

CONSTANTS
    ClientIds,      \* ids a client may connect under
    KnownClients,   \* ids declared in the configuration (Client::isKnown)
    Loggers,        \* logger ids a request may name
    NoTokenLoggers, \* loggers configured as not requiring a token
    ClientAge,      \* seconds a client lives after dateCreated
    TokenLife,      \* seconds a token lives after it is issued; 0 = forever
    MaxTime,        \* bound on the clock
    MaxGen,         \* bound on the connections made under one id
    MaxTokens,      \* bound on the tokens issued
    EmptyId         \* the empty client id "" (no client named)

ASSUME RegistryAssumption ==
    /\ KnownClients \subseteq ClientIds
    /\ NoTokenLoggers \subseteq Loggers
    /\ EmptyId \notin ClientIds
    /\ ClientAge \in Nat \ {0}
    /\ TokenLife \in Nat
    /\ MaxTime \in Nat \ {0}
    /\ MaxGen \in Nat \ {0}
    /\ MaxTokens \in Nat

VARIABLES
    now,            \* Utils::now()
    clients,        \* clients[c]: the registry slot of id c
    tokens,         \* tokens[c][l]: the token the client object c holds for l
    tokenSeq,       \* number of tokens issued so far (fresh token values)
    lastExecution   \* ClientIntegrityTask::lastExecution()

regVars == <<now, clients, tokens, tokenSeq, lastExecution>>

Time == 0..MaxTime

NoToken == 0

TokenValue == 0..MaxTokens

Slot == [present: BOOLEAN, gen: 0..MaxGen, created: Time]

TokenRec == [value: TokenValue, issued: Time]

NoTokenRec == [value |-> NoToken, issued |-> 0]

(* A Client*: the object of generation gen registered under id.           *)
ClientPtr == [id: ClientIds, gen: 1..MaxGen]

NullClient == [id |-> EmptyId, gen |-> 0]

(* The pointer is non-null and its object has not been freed.             *)
Live(p) ==
    /\ p # NullClient
    /\ clients[p.id].present
    /\ clients[p.id].gen = p.gen

(* Mutant: findClient hands out the slot of an id that is not registered. *)
FindClientNoPresenceCheck(id) ==
    IF id \in ClientIds THEN [id |-> id, gen |-> clients[id].gen] ELSE NullClient

(* Registry::findClient: the object registered under id, if any.          *)
FindClient(id) ==
    IF id \in ClientIds /\ clients[id].present
    THEN [id |-> id, gen |-> clients[id].gen]
    ELSE NullClient

(* Client::isAlive(t): dateCreated + age > t.                              *)
IsAlive(id, t) == clients[id].created + ClientAge > t

TokenAlive(rec, t) == TokenLife = 0 \/ rec.issued + TokenLife > t

(* Client::isValidToken(loggerId, token, registry, dateReceived).          *)
IsValidToken(id, l, v, t) ==
    \/ l \in NoTokenLoggers
    \/ /\ v # NoToken
       /\ tokens[id][l].value = v
       /\ TokenAlive(tokens[id][l], t)

RegistryTypeOK ==
    /\ now \in Time
    /\ clients \in [ClientIds -> Slot]
    /\ tokens \in [ClientIds -> [Loggers -> TokenRec]]
    /\ tokenSeq \in TokenValue
    /\ lastExecution \in Time

(* The server has been up for a second and the integrity task has not    *)
(* run yet: lastExecution is still its initial 0, before any time         *)
(* Utils::now() can return.                                                *)
RegistryInit ==
    /\ now = 1
    /\ clients = [c \in ClientIds |-> [present |-> FALSE, gen |-> 0, created |-> 0]]
    /\ tokens = [c \in ClientIds |-> [l \in Loggers |-> NoTokenRec]]
    /\ tokenSeq = 0
    /\ lastExecution = 0

(* The clock advances one second.                                          *)
Tick ==
    /\ now < MaxTime
    /\ now' = now + 1
    /\ UNCHANGED <<clients, tokens, tokenSeq, lastExecution>>

(* A CONNECT under id c: a new client object, with no tokens yet.          *)
AddClient(c) ==
    /\ ~clients[c].present
    /\ clients[c].gen < MaxGen
    /\ clients' = [clients EXCEPT ![c] = [present |-> TRUE, gen |-> @.gen + 1,
                                         created |-> now]]
    /\ tokens' = [tokens EXCEPT ![c] = [l \in Loggers |-> NoTokenRec]]
    /\ UNCHANGED <<now, tokenSeq, lastExecution>>

(* A TOKEN request of a live client for logger l: a fresh value replaces  *)
(* the one the client held for l.                                          *)
IssueToken(c, l) ==
    /\ clients[c].present
    /\ IsAlive(c, now)
    /\ tokenSeq < MaxTokens
    /\ tokenSeq' = tokenSeq + 1
    /\ tokens' = [tokens EXCEPT ![c][l] = [value |-> tokenSeq + 1, issued |-> now]]
    /\ UNCHANGED <<now, clients, lastExecution>>

(* ClientIntegrityTask::execute: free every client dead at now, drop      *)
(* every token expired at now, and record the time of this run.            *)
IntegritySweep ==
    /\ clients' = [c \in ClientIds |->
                     IF clients[c].present /\ ~IsAlive(c, now)
                     THEN [clients[c] EXCEPT !.present = FALSE]
                     ELSE clients[c]]
    /\ tokens' = [c \in ClientIds |-> [l \in Loggers |->
                     IF TokenAlive(tokens[c][l], now) THEN tokens[c][l]
                     ELSE NoTokenRec]]
    /\ lastExecution' = now
    /\ UNCHANGED <<now, tokenSeq>>

RegistryNext ==
    \/ Tick
    \/ \E c \in ClientIds : AddClient(c)
    \/ \E c \in ClientIds, l \in Loggers : IssueToken(c, l)
    \/ IntegritySweep

=============================================================================
