------------------------------ MODULE Backends ------------------------------
(***************************************************************************)
(* The backend set of src/backends.rs: duplication targets, each a ring of *)
(* StatsdClient handles behind a lock.  add_statsd_backend builds a ring,  *)
(* sharing one client between equal endpoints; provide_statsd_pdu offers a *)
(* PDU to every target (input filter, pick by hash mod ring length,         *)
(* try_send, count a failure); reload_backends rebuilds one target's ring,  *)
(* reusing the old ring's client of every endpoint it keeps.               *)
(*                                                                         *)
(* A client is named <<target, generation, position>>: the target and the  *)
(* reload that created it, and its position in that shard map.  Its sender *)
(* is abstracted to the queue try_send feeds and a step that takes the     *)
(* head (StatsdClient models the sender itself).  A client no ring holds   *)
(* has lost its last handle: its queue is closed and its task exits once   *)
(* the queue is drained, or gives up with PDUs still queued when its       *)
(* writer could not reconnect: the Exit and Abandon of ClientQueue, which  *)
(* StatsdClient implements.  provide_statsd_pdu runs under the read lock   *)
(* of Backends and of each ring and never blocks; reload_backends takes    *)
(* &mut self; so both are atomic steps.                                    *)
(***************************************************************************)
EXTENDS Naturals, Sequences, SequencesExt, FiniteSets, Functions

CONSTANTS
    Targets,     \* duplication targets (model values)
    Endpoints,   \* endpoint addresses (model values)
    Names,       \* metric names (model values)
    ShardMap,    \* [Targets -> Seq(Endpoints)]: conf.shard_map at startup
    ReloadMaps,  \* shard maps a reload may install
    Admits,      \* [Targets -> SUBSET Names]: names the input filter matches
    Hash,        \* [Names -> Nat]: statsrelay_compat_hash
    QueueCap,    \* capacity of a client's queue
    MaxPdus,     \* PDUs offered in a behaviour
    MaxReloads   \* reloads, over all targets, in a behaviour

Pdus == 1..MaxPdus

VARIABLES
    ring,      \* [added targets -> Seq(client)]: each StatsdBackend's ring
    gen,       \* [added targets -> Nat]: reloads done per target
    epOf,      \* [created clients -> Endpoints]: client.endpoint()
    queue,     \* [created clients -> Seq(Pdus)]: each client's queue
    out,       \* [created clients -> Seq(Pdus)]: PDUs its sender has taken
    exited,    \* clients whose tasks have exited
    lost,      \* [created clients -> SUBSET Pdus]: PDUs queued when its task gave up
    nameOf,    \* <<name of PDU 1, name of PDU 2, ...>>: the PDUs offered so far
    dropped,   \* [added targets -> SUBSET Pdus]: try_send failures (warning_log)
    routed     \* [added targets -> SUBSET Pdus]: PDUs the target has to carry (history)

vars == <<ring, gen, epOf, queue, out, exited, lost, nameOf, dropped, routed>>

Clients == DOMAIN epOf
Added == DOMAIN ring
Held == UNION {Range(ring[t]) : t \in Added}

\* The first position at which endpoint e occurs in shard map m.
FirstAt(m, e) == CHOOSE k \in 1..Len(m) : m[k] = e /\ \A j \in 1..k - 1 : m[j] # e

\* The last position of ring r whose client has endpoint e: reload's
\* memoize.insert runs over the ring in order, so a later client wins.
LastAt(r, e) == CHOOSE k \in 1..Len(r) :
                    epOf[r[k]] = e /\ \A j \in k + 1..Len(r) : epOf[r[j]] # e

\* The clients a new ring creates, with their endpoints.
Created(r, m) == [c \in {r[k] : k \in 1..Len(r)} \ Clients |-> m[c[3]]]

NewClientsOf(r, m) ==
    /\ epOf' = epOf @@ Created(r, m)
    /\ queue' = queue @@ [c \in DOMAIN Created(r, m) |-> <<>>]
    /\ out' = out @@ [c \in DOMAIN Created(r, m) |-> <<>>]
    /\ lost' = lost @@ [c \in DOMAIN Created(r, m) |-> {}]

\* StatsdBackend::new: one client per distinct endpoint, memoized.
AddRing(t, m) == [k \in 1..Len(m) |-> <<t, 0, FirstAt(m, m[k])>>]

\* Ring::pick_from(code), spec 4.1: code mod the ring's length.
PickIndex(code, n) == (code % n) + 1

\* The client target t's provide_statsd_pdu hands a PDU named nm to, or
\* <<>> when the filter refuses it or the ring is empty.
Target(t, nm) ==
    LET r == ring[t]
        code == IF Len(r) = 1 THEN 1 ELSE Hash[nm]
    IN IF nm \notin Admits[t] \/ Len(r) = 0 THEN <<>>
       ELSE <<r[PickIndex(code, Len(r))]>>

\* Mutant of Provide: the queue counts as full only past its capacity.
ProvideOverfill(nm) ==
    LET p == Len(nameOf) + 1
        Pick(t) == Target(t, nm)
        Full(t) == Pick(t) # <<>> /\ Len(queue[Pick(t)[1]]) > QueueCap
        Into == {Pick(t)[1] : t \in {u \in Added : Pick(u) # <<>> /\ ~Full(u)}}
    IN /\ p \in Pdus
       /\ nameOf' = Append(nameOf, nm)
       /\ queue' = [c \in Clients |-> IF c \in Into THEN Append(queue[c], p) ELSE queue[c]]
       /\ dropped' = [t \in Added |-> IF Full(t) THEN dropped[t] \cup {p} ELSE dropped[t]]
       /\ routed' = [t \in Added |-> IF Pick(t) # <<>> THEN routed[t] \cup {p} ELSE routed[t]]
       /\ UNCHANGED <<ring, gen, epOf, out, exited, lost>>

\* Backends::provide_statsd_pdu: every target, in turn, try_sends to its
\* pick; a full queue drops the PDU and bumps that target's warning_log.
\* The targets pick distinct clients, as clients belong to one target.
Provide(nm) ==
    LET p == Len(nameOf) + 1
        Pick(t) == Target(t, nm)
        Full(t) == Pick(t) # <<>> /\ Len(queue[Pick(t)[1]]) >= QueueCap
        Into == {Pick(t)[1] : t \in {u \in Added : Pick(u) # <<>> /\ ~Full(u)}}
    IN /\ p \in Pdus
       /\ nameOf' = Append(nameOf, nm)
       /\ queue' = [c \in Clients |-> IF c \in Into THEN Append(queue[c], p) ELSE queue[c]]
       /\ dropped' = [t \in Added |-> IF Full(t) THEN dropped[t] \cup {p} ELSE dropped[t]]
       /\ routed' = [t \in Added |-> IF Pick(t) # <<>> THEN routed[t] \cup {p} ELSE routed[t]]
       /\ UNCHANGED <<ring, gen, epOf, out, exited, lost>>

\* Mutant of ReloadRing: the memo is not consulted.
ReloadRingFresh(t, m) == [k \in 1..Len(m) |-> <<t, gen[t] + 1, k>>]

\* Mutant of ReloadRing: the memo keeps every client the target ever made.
ReloadRingCached(t, m) ==
    LET made == {c \in Clients : c[1] = t}
    IN [k \in 1..Len(m) |->
          IF \E c \in made : epOf[c] = m[k]
          THEN CHOOSE c \in made : epOf[c] = m[k]
          ELSE <<t, gen[t] + 1, k>>]

\* StatsdBackend::reload_backends: memoize the old ring by endpoint, then
\* reuse its client for each endpoint of the new map or make a new one,
\* and swap the ring in.
ReloadRing(t, m) ==
    LET old == ring[t]
        kept == {epOf[old[k]] : k \in 1..Len(old)}
    IN [k \in 1..Len(m) |->
          IF m[k] \in kept THEN old[LastAt(old, m[k])] ELSE <<t, gen[t] + 1, k>>]

Reload(t, m) ==
    /\ t \in Added
    /\ SumFunction(gen) < MaxReloads
    /\ ring' = [ring EXCEPT ![t] = ReloadRing(t, m)]
    /\ gen' = [gen EXCEPT ![t] = @ + 1]
    /\ NewClientsOf(ring'[t], m)
    /\ UNCHANGED <<exited, nameOf, dropped, routed>>

\* Mutant of Drain: the head is read but left in the queue.
DrainPeek(c) ==
    /\ c \in Clients
    /\ queue[c] # <<>>
    /\ out' = [out EXCEPT ![c] = Append(@, Head(queue[c]))]
    /\ UNCHANGED <<ring, gen, epOf, queue, exited, lost, nameOf, dropped, routed>>

\* The sender of client c takes the head of its queue (client_task's recv).
Drain(c) ==
    /\ c \in Clients
    /\ queue[c] # <<>>
    /\ out' = [out EXCEPT ![c] = Append(@, Head(queue[c]))]
    /\ queue' = [queue EXCEPT ![c] = Tail(@)]
    /\ UNCHANGED <<ring, gen, epOf, exited, lost, nameOf, dropped, routed>>

\* The last handle is gone and recv returns None on the drained queue:
\* client_task and its tasks end.
Exit(c) ==
    /\ c \in Clients
    /\ c \notin Held
    /\ c \notin exited
    /\ queue[c] = <<>>
    /\ exited' = exited \cup {c}
    /\ UNCHANGED <<ring, gen, epOf, queue, out, lost, nameOf, dropped, routed>>

\* The last handle is gone and client_sender has returned, having given up
\* reconnecting on the tripwire: client_task's buf_sender.send fails and it
\* returns, dropping its receiver with the PDUs still queued.
Abandon(c) ==
    /\ c \in Clients
    /\ c \notin Held
    /\ c \notin exited
    /\ exited' = exited \cup {c}
    /\ lost' = [lost EXCEPT ![c] = ToSet(queue[c])]
    /\ queue' = [queue EXCEPT ![c] = <<>>]
    /\ UNCHANGED <<ring, gen, epOf, out, nameOf, dropped, routed>>

\* The backends after startup: BackendsInner::add_statsd_backend for each
\* target's conf (main adds them before the server runs).
Init ==
    /\ ring = [t \in Targets |-> AddRing(t, ShardMap[t])]
    /\ gen = [t \in Targets |-> 0]
    /\ epOf = [c \in UNION {Range(ring[t]) : t \in Targets} |-> ShardMap[c[1]][c[3]]]
    /\ queue = [c \in DOMAIN epOf |-> <<>>]
    /\ out = [c \in DOMAIN epOf |-> <<>>]
    /\ exited = {}
    /\ lost = [c \in DOMAIN epOf |-> {}]
    /\ nameOf = <<>>
    /\ dropped = [t \in Targets |-> {}]
    /\ routed = [t \in Targets |-> {}]

\* The model's inputs are used up and every task is idle: the relay would
\* wait for more PDUs here.
InputsExhausted ==
    /\ Len(nameOf) = MaxPdus
    /\ SumFunction(gen) = MaxReloads
    /\ \A c \in Clients : queue[c] = <<>> /\ (c \in Held \/ c \in exited)
    /\ UNCHANGED vars

Next ==
    \/ InputsExhausted
    \/ \E nm \in Names : Provide(nm)
    \/ \E t \in Targets, m \in ReloadMaps : Reload(t, m)
    \/ \E c \in Clients : Drain(c) \/ Exit(c) \/ Abandon(c)

Spec == Init /\ [][Next]_vars

\* Every client name any ring of the model can hold.
AllClients ==
    Targets \X (0..MaxReloads)
            \X (1..Max({Len(ShardMap[t]) : t \in Targets} \cup {Len(m) : m \in ReloadMaps}))

-----------------------------------------------------------------------------
(* Properties                                                              *)

TypeOK ==
    /\ Added = Targets
    /\ \A t \in Added : ring[t] \in Seq(Clients) /\ gen[t] \in 0..MaxReloads
    /\ Clients \subseteq AllClients
    /\ epOf \in [Clients -> Endpoints]
    /\ queue \in [Clients -> Seq(Pdus)]
    /\ \A c \in Clients : Len(queue[c]) <= QueueCap
    /\ out \in [Clients -> Seq(Pdus)]
    /\ exited \subseteq Clients
    /\ lost \in [Clients -> SUBSET Pdus]
    /\ nameOf \in Seq(Names) /\ Len(nameOf) <= MaxPdus
    /\ dropped \in [Added -> SUBSET Pdus]
    /\ routed \in [Added -> SUBSET Pdus]

\* The number of times PDU p sits in client c's queue, was taken from it,
\* or was lost with it.
CopiesAt(c, p) == Cardinality({k \in 1..Len(queue[c]) : queue[c][k] = p})
                  + Cardinality({k \in 1..Len(out[c]) : out[c][k] = p})
                  + (IF p \in lost[c] THEN 1 ELSE 0)

(* Fan-out accounts for every PDU across reloads and client teardown: a    *)
(* PDU that target t's filter and ring accepted is either counted in t's  *)
(* warning_log or held exactly once by exactly one client of t: queued,   *)
(* taken by its sender, or lost when its task gave up at teardown, even   *)
(* after that client left the ring (spec 4.3, 4.4).                       *)
FanOutAccounted ==
    \A t \in Added, p \in Pdus :
        LET held == {c \in Clients : c[1] = t /\ CopiesAt(c, p) > 0}
        IN  /\ \A c \in held : CopiesAt(c, p) = 1
            /\ Cardinality(held) + (IF p \in dropped[t] THEN 1 ELSE 0)
                  = (IF p \in routed[t] THEN 1 ELSE 0)

(* reload_backends reuses connections (spec 8.3): for an endpoint in both *)
(* the old and the new shard map, the new ring's client for it is one of  *)
(* the old ring's clients for it, never a fresh task.                     *)
ReloadReusesClients ==
    [][\A t \in Added : ring'[t] # ring[t] =>
         \A k \in 1..Len(ring'[t]), j \in 1..Len(ring[t]) :
             epOf'[ring'[t][k]] = epOf[ring[t][j]] =>
                 \E i \in 1..Len(ring[t]) : ring'[t][k] = ring[t][i]]_vars

\* Client c as a ClientQueue: a client not yet created is a fresh one.
ViewOf(c) == << IF c \in Clients THEN queue[c] ELSE <<>>,
                c \notin Clients \/ c \in Held,
                c \in exited >>

ClientView(c) == INSTANCE ClientQueue
                   WITH Msgs <- Pdus,
                        Cap <- QueueCap,
                        cq <- ViewOf(c)[1],
                        open <- ViewOf(c)[2],
                        exited <- ViewOf(c)[3]

(* Every client, through startup, fan-out, reloads and teardown, is used   *)
(* as a ClientQueue, the contract StatsdClient implements: it is offered   *)
(* PDUs only while a ring holds it and its task runs, its queue changes    *)
(* only at the ends, and once no ring holds it no reload hands it out      *)
(* again, whether its task is still draining or has ended.                 *)
ClientsAreQueues ==
    /\ \A c \in AllClients : ClientView(c)!Init
    /\ [][\A c \in AllClients : ClientView(c)!Next \/ UNCHANGED ViewOf(c)]_vars

(* Each target runs one sender task per endpoint (spec 4.2: "created once *)
(* per distinct endpoint per duplication target").                        *)
UniqueClientPerEndpoint ==
    \A t \in Added : \A k, j \in 1..Len(ring[t]) :
        epOf[ring[t][k]] = epOf[ring[t][j]] => ring[t][k] = ring[t][j]

=============================================================================
