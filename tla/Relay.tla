-------------------------------- MODULE Relay --------------------------------
(***************************************************************************)
(* The process around one sender: main (src/cmd/statsrelay.rs) builds the *)
(* backends, runs statsd_server::run inside runtime.block_on and drops the *)
(* runtime when run returns; run stops its accept loop on the tripwire,    *)
(* drops the UdpServer (setting the shutdown gate) and joins the UDP       *)
(* thread; one TCP client_handler forwards PDUs to the sender until it     *)
(* closes.  The sender is StatsdClient, instantiated with its own          *)
(* variables: its steps run while the runtime is alive, and its handles    *)
(* go when the last Backends clone does.  A Backends clone is held by run's *)
(* accept loop, by the UDP thread and by the handler.  The UDP thread      *)
(* forwards nothing: its receive slice is empty (StatsdServer,             *)
(* UdpSliceLen).                                                           *)
(***************************************************************************)
EXTENDS Naturals, Sequences, FiniteSets

CONSTANTS MaxPdus, QueueCap, Threshold, ChanCap, MaxAborts

VARIABLES
    next, open, queue, buf, ctPc, ticks, chan, spc, wbuf, conn,
    line, delivered, garbled, torn, trimmed, dropped, discarded, aborts

VARIABLES
    tripwire,  \* the server Tripwire has been cancelled by the signal task
    runPc,     \* run: "accepting" | "joining" (udp_join) | "returned"
    gate,      \* UdpServer.shutdown_gate
    upc,       \* the UDP thread: "polling" | "exited"
    hpc,       \* the TCP client_handler: "serving" | "closed"
    mainPc     \* main: "blocked" (in block_on) | "exited" (runtime dropped)

C == INSTANCE StatsdClient

senderVars == <<next, open, queue, buf, ctPc, ticks, chan, spc, wbuf, conn,
                line, delivered, garbled, torn, trimmed, dropped, discarded, aborts>>
lifeVars == <<tripwire, runPc, gate, upc, hpc, mainPc>>
vars == <<senderVars, lifeVars>>

\* main: Backends::new, add_statsd_backend (which starts the sender),
\* Tripwire::new, then run binds the listener and starts the UDP thread.
Init ==
    /\ C!Init
    /\ tripwire = FALSE
    /\ runPc = "accepting"
    /\ gate = FALSE
    /\ upc = "polling"
    /\ hpc = "serving"
    /\ mainPc = "blocked"

\* The spawned signal task: SIGINT or SIGTERM, then sender.cancel().
Signal ==
    /\ ~tripwire
    /\ tripwire' = TRUE
    /\ UNCHANGED <<senderVars, runPc, gate, upc, hpc, mainPc>>

\* client_handler frames a read and calls provide_statsd_pdu, which
\* try_sends to the sender; its select! may still take a read after the
\* tripwire has fired.
HandlerProvides ==
    /\ hpc = "serving"
    /\ mainPc = "blocked"
    /\ C!TrySend
    /\ UNCHANGED lifeVars

\* The handler's loop breaks (EOF, read timeout, error, or the goodbye
\* write after the tripwire) and its Backends clone is dropped.
HandlerCloses ==
    /\ hpc = "serving"
    /\ mainPc = "blocked"
    /\ hpc' = "closed"
    /\ UNCHANGED <<senderVars, tripwire, runPc, gate, upc, mainPc>>

\* The tripwire wins run's select!: the accept loop returns (dropping its
\* Backends clone) and drop(udp) sets the gate.
AcceptLoopStops ==
    /\ runPc = "accepting"
    /\ tripwire
    /\ runPc' = "joining"
    /\ gate' = TRUE
    /\ UNCHANGED <<senderVars, tripwire, upc, hpc, mainPc>>

\* The UDP thread sees the gate on its next poll and returns, dropping its
\* Backends clone.
UdpExits ==
    /\ upc = "polling"
    /\ gate
    /\ upc' = "exited"
    /\ UNCHANGED <<senderVars, tripwire, runPc, gate, hpc, mainPc>>

\* udp_join.join() returns inside spawn_blocking, and run returns.
RunReturns ==
    /\ runPc = "joining"
    /\ upc = "exited"
    /\ runPc' = "returned"
    /\ UNCHANGED <<senderVars, tripwire, gate, upc, hpc, mainPc>>

\* The last Backends clone is gone: the rings drop the last StatsdClient
\* handle, closing the sender's queue and firing its tripwire.
ReleaseHandles ==
    /\ runPc # "accepting"
    /\ upc = "exited"
    /\ hpc = "closed"
    /\ mainPc = "blocked"
    /\ C!DropHandles
    /\ UNCHANGED lifeVars

\* A step of the sender's tasks (client_task, client_sender, ticker),
\* which the runtime polls until it is dropped.
SenderRuns ==
    /\ mainPc = "blocked"
    /\ \/ C!TickerFires \/ C!CtRecvPdu \/ C!CtRecvClosed \/ C!CtTick
       \/ C!CtFlush \/ C!ScConnectFirst \/ C!ScRecv \/ C!ScConnect
       \/ C!ScGiveUp \/ C!ScWrite \/ C!ScWriteFails
    /\ UNCHANGED lifeVars

\* run.await completes, block_on returns and main drops the runtime: every
\* task still spawned is dropped at the await it is parked on.
DropRuntime ==
    /\ runPc = "returned"
    /\ mainPc = "blocked"
    /\ mainPc' = "exited"
    /\ UNCHANGED <<senderVars, tripwire, runPc, gate, upc, hpc>>

\* main has returned Ok(()).
Exited ==
    /\ mainPc = "exited"
    /\ UNCHANGED vars

Next ==
    \/ Signal \/ HandlerProvides \/ HandlerCloses \/ AcceptLoopStops
    \/ UdpExits \/ RunReturns \/ ReleaseHandles \/ SenderRuns
    \/ DropRuntime \/ Exited

Spec == Init /\ [][Next]_vars

-----------------------------------------------------------------------------
(* Properties                                                              *)

(* When main has dropped the runtime, every PDU the sender accepted has   *)
(* left it: delivered, cut by a trim, or given up by a task that saw its  *)
(* tripwire.  Spec 5 (cancellation): the sender tasks exit when their    *)
(* last handle drops, as ingress finishes, and the runtime joins; spec    *)
(* 4.2: on a closed queue the final buffer is flushed before the exit.    *)
ShutdownDrains == mainPc = "exited" => C!InFlight = {}

=============================================================================
