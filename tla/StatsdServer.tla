---------------------------- MODULE StatsdServer ----------------------------
(***************************************************************************)
(* The ingress of src/statsd_server.rs: run's accept loop, one TCP         *)
(* connection's client_handler, the UDP worker thread and its shutdown     *)
(* gate, and run's shutdown (drop the UdpServer, join the thread).  The    *)
(* tripwire is cancelled by the signal task of main.                       *)
(*                                                                         *)
(* The TCP peer writes PDU bodies, each followed by LF or CR LF, and may   *)
(* end with an unterminated tail and EOF.  A read returns any non-empty    *)
(* prefix of what is in flight, so every split of the stream into reads    *)
(* is checked.  What the handler and the thread pass to                    *)
(* Backends::provide_statsd_pdu is recorded in order.                      *)
(***************************************************************************)
EXTENDS Framer

CONSTANTS
    Bodies,        \* PDU bodies the TCP peer writes (byte sequences)
    Datagrams,     \* datagrams the UDP peer sends
    MaxMsgs,       \* lines the TCP peer writes
    MaxDatagrams   \* datagrams the UDP peer sends

Seps == {<<LF>>, <<CR, LF>>}

\* BytesMut::with_capacity(65535) has length 0, so the slice &mut buf[..]
\* that recv_from fills is empty.
UdpSliceLen == 0

VARIABLES
    tripwire,    \* the Tripwire has been cancelled
    apc,         \* run's accept loop: "loop" | "stopped"
    rpc,         \* run after the loop: "serving" | "joining" | "done" | "panicked"
    peerSent,    \* bytes the TCP peer has written
    peerMsgs,    \* lines the TCP peer has written
    peerClosed,  \* the TCP peer has shut its side (EOF)
    unread,      \* bytes written and not yet read by the handler
    buf,         \* client_handler's buf
    hpc,         \* client_handler: "idle" | "read" | "eof" | "timedout" | "shutdown" | "failed" | "panicked"
    tcpFwd,      \* PDUs the handler has provided, in order
    gate,        \* UdpServer.shutdown_gate
    upc,         \* the UDP thread: "check" | "recv" | "exited" | "panicked"
    udpIn,       \* datagrams in the socket's receive queue
    udpRecvd,    \* datagrams recv_from has returned, in order (history)
    udpFwd       \* PDUs the UDP thread has provided, in order

tcpVars == <<peerSent, peerMsgs, peerClosed, unread, buf, hpc, tcpFwd>>
udpVars == <<gate, upc, udpIn, udpRecvd, udpFwd>>
vars == <<tripwire, apc, rpc, tcpVars, udpVars>>

\* The bytes the handler has read so far.
ReadSoFar == SubSeq(peerSent, 1, Len(peerSent) - Len(unread))

Init ==
    /\ tripwire = FALSE /\ apc = "loop" /\ rpc = "serving"
    /\ peerSent = <<>> /\ peerMsgs = 0 /\ peerClosed = FALSE /\ unread = <<>>
    /\ buf = <<>> /\ hpc = "idle" /\ tcpFwd = <<>>
    /\ gate = FALSE /\ upc = "check" /\ udpIn = <<>> /\ udpRecvd = <<>> /\ udpFwd = <<>>

\* The signal task: sender.cancel() on SIGINT or SIGTERM.
Cancel ==
    /\ ~tripwire
    /\ tripwire' = TRUE
    /\ UNCHANGED <<apc, rpc, tcpVars, udpVars>>

-----------------------------------------------------------------------------
(* The TCP peer *)

PeerWrites ==
    /\ ~peerClosed /\ peerMsgs < MaxMsgs
    /\ \E body \in Bodies, sep \in Seps :
          /\ peerSent' = peerSent \o body \o sep
          /\ unread' = unread \o body \o sep
    /\ peerMsgs' = peerMsgs + 1
    /\ UNCHANGED <<peerClosed, buf, hpc, tcpFwd, tripwire, apc, rpc, udpVars>>

\* The peer writes an unterminated tail, or nothing, and shuts down.
PeerCloses ==
    /\ ~peerClosed
    /\ \E tail \in {<<>>} \cup Bodies :
          /\ peerSent' = peerSent \o tail
          /\ unread' = unread \o tail
    /\ peerClosed' = TRUE
    /\ UNCHANGED <<peerMsgs, buf, hpc, tcpFwd, tripwire, apc, rpc, udpVars>>

-----------------------------------------------------------------------------
(* run: the accept loop *)

\* listener.accept() wins the select!: spawn client_handler.
Accept ==
    /\ apc = "loop" /\ hpc = "idle"
    /\ hpc' = "read"
    /\ UNCHANGED <<peerSent, peerMsgs, peerClosed, unread, buf, tcpFwd,
                   tripwire, apc, rpc, udpVars>>

\* Mutant of StopAccepting: the UdpServer is not dropped, the gate stays clear.
StopAcceptingKeepsUdp ==
    /\ apc = "loop" /\ tripwire
    /\ apc' = "stopped"
    /\ rpc' = "joining"
    /\ UNCHANGED <<tripwire, tcpVars, udpVars>>

\* Drop for UdpServer: store true into the shutdown gate.
DropUdpServer == gate' = TRUE

\* The tripwire wins the select!: the loop returns, drop(udp) sets the
\* gate, and run waits for the UDP thread.
StopAccepting ==
    /\ apc = "loop" /\ tripwire
    /\ apc' = "stopped"
    /\ DropUdpServer
    /\ rpc' = "joining"
    /\ UNCHANGED <<tripwire, tcpVars, upc, udpIn, udpRecvd, udpFwd>>

\* udp_join.join().unwrap(): returns when the thread ends, and panics
\* when the thread panicked.
RunJoins ==
    /\ rpc = "joining" /\ upc \in {"exited", "panicked"}
    /\ rpc' = IF upc = "exited" THEN "done" ELSE "panicked"
    /\ UNCHANGED <<tripwire, apc, tcpVars, udpVars>>

-----------------------------------------------------------------------------
(* client_handler: one iteration of its loop per action *)

\* Mutant of HandlerReads: buf is cleared after framing, as the UDP path does.
HandlerReadsClears ==
    /\ hpc = "read" /\ unread # <<>>
    /\ \E n \in 1..Len(unread) :
          LET r == ProcessBufferNewlines(buf \o SubSeq(unread, 1, n))
          IN  /\ unread' = SubSeq(unread, n + 1, Len(unread))
              /\ IF r.panic
                 THEN /\ hpc' = "panicked" /\ buf' = r.rest
                      /\ UNCHANGED tcpFwd
                 ELSE /\ buf' = <<>> /\ tcpFwd' = tcpFwd \o r.pdus
                      /\ UNCHANGED hpc
    /\ UNCHANGED <<peerSent, peerMsgs, peerClosed, tripwire, apc, rpc, udpVars>>

\* A read of n > 0 bytes wins the select!: process_buffer_newlines and
\* provide every PDU; the rest of buf waits for the next read.
HandlerReads ==
    /\ hpc = "read" /\ unread # <<>>
    /\ \E n \in 1..Len(unread) :
          LET r == ProcessBufferNewlines(buf \o SubSeq(unread, 1, n))
          IN  /\ unread' = SubSeq(unread, n + 1, Len(unread))
              /\ IF r.panic
                 THEN /\ hpc' = "panicked" /\ buf' = r.rest
                      /\ UNCHANGED tcpFwd
                 ELSE /\ buf' = r.rest /\ tcpFwd' = tcpFwd \o r.pdus
                      /\ UNCHANGED hpc
    /\ UNCHANGED <<peerSent, peerMsgs, peerClosed, tripwire, apc, rpc, udpVars>>

\* A read of 0 bytes (EOF): with an empty buf just close; otherwise frame
\* buf, provide its PDUs and then the residual as a final PDU, and close.
HandlerEof ==
    /\ hpc = "read" /\ unread = <<>> /\ peerClosed
    /\ LET r == ProcessBufferNewlines(buf)
       IN  IF buf = <<>>
           THEN /\ hpc' = "eof" /\ UNCHANGED <<buf, tcpFwd>>
           ELSE IF r.panic
           THEN /\ hpc' = "panicked" /\ buf' = r.rest /\ UNCHANGED tcpFwd
           ELSE /\ hpc' = "eof" /\ buf' = r.rest
                /\ tcpFwd' = tcpFwd \o r.pdus \o PduOf(r.rest)
    /\ UNCHANGED <<peerSent, peerMsgs, peerClosed, unread, tripwire, apc, rpc, udpVars>>

\* TCP_READ_TIMEOUT passes with nothing to read: close, dropping buf.
HandlerTimesOut ==
    /\ hpc = "read" /\ unread = <<>> /\ ~peerClosed
    /\ hpc' = "timedout"
    /\ UNCHANGED <<peerSent, peerMsgs, peerClosed, unread, buf, tcpFwd,
                   tripwire, apc, rpc, udpVars>>

\* The read returns another error (a reset connection, say): the loop
\* breaks, dropping buf and whatever the peer sent that was not read.
HandlerReadFails ==
    /\ hpc = "read"
    /\ hpc' = "failed"
    /\ UNCHANGED <<peerSent, peerMsgs, peerClosed, unread, buf, tcpFwd,
                   tripwire, apc, rpc, udpVars>>

\* The tripwire wins the select!: write the goodbye line (at most 1 s)
\* and close, dropping buf.
HandlerShutdown ==
    /\ hpc = "read" /\ tripwire
    /\ hpc' = "shutdown"
    /\ UNCHANGED <<peerSent, peerMsgs, peerClosed, unread, buf, tcpFwd,
                   tripwire, apc, rpc, udpVars>>

-----------------------------------------------------------------------------
(* The UDP peer and the UDP thread *)

UdpPeerSends ==
    /\ Len(udpRecvd) + Len(udpIn) < MaxDatagrams
    /\ \E d \in Datagrams : udpIn' = Append(udpIn, d)
    /\ UNCHANGED <<gate, upc, udpRecvd, udpFwd, tripwire, apc, rpc, tcpVars>>

\* The top of the loop: break once the gate is set.
UdpChecksGate ==
    /\ upc = "check"
    /\ upc' = IF gate THEN "exited" ELSE "recv"
    /\ UNCHANGED <<gate, udpIn, udpRecvd, udpFwd, tripwire, apc, rpc, tcpVars>>

\* Mutant of UdpReceives: the datagram is left in the socket queue.
UdpReceivesKeeps ==
    /\ upc = "recv" /\ udpIn # <<>>
    /\ LET d == SubSeq(Head(udpIn), 1, UdpSliceLen)
           r == ProcessBufferNewlines(d)
       IN  /\ upc' = IF r.panic THEN "panicked" ELSE "check"
           /\ udpFwd' = IF r.panic THEN udpFwd ELSE udpFwd \o r.pdus \o PduOf(r.rest)
    /\ udpRecvd' = Append(udpRecvd, Head(udpIn))
    /\ UNCHANGED <<udpIn, gate, tripwire, apc, rpc, tcpVars>>

\* recv_from returns a datagram, truncated to the slice it fills; frame
\* it, provide its PDUs and its unterminated tail, and clear buf.
UdpReceives ==
    /\ upc = "recv" /\ udpIn # <<>>
    /\ LET d == SubSeq(Head(udpIn), 1, UdpSliceLen)
           r == ProcessBufferNewlines(d)
       IN  /\ upc' = IF r.panic THEN "panicked" ELSE "check"
           /\ udpFwd' = IF r.panic THEN udpFwd ELSE udpFwd \o r.pdus \o PduOf(r.rest)
    /\ udpIn' = Tail(udpIn)
    /\ udpRecvd' = Append(udpRecvd, Head(udpIn))
    /\ UNCHANGED <<gate, tripwire, apc, rpc, tcpVars>>

\* The 1 s read timeout passes with no datagram: WouldBlock, loop.
UdpTimesOut ==
    /\ upc = "recv" /\ udpIn = <<>>
    /\ upc' = "check"
    /\ UNCHANGED <<gate, udpIn, udpRecvd, udpFwd, tripwire, apc, rpc, tcpVars>>

-----------------------------------------------------------------------------

\* The process has shut down: run returned and the connection is closed.
Terminated ==
    /\ rpc \in {"done", "panicked"}
    /\ hpc \notin {"read"}
    /\ UNCHANGED vars

Next ==
    \/ Cancel \/ PeerWrites \/ PeerCloses
    \/ Accept \/ StopAccepting \/ RunJoins
    \/ HandlerReads \/ HandlerEof \/ HandlerTimesOut \/ HandlerShutdown
    \/ HandlerReadFails
    \/ UdpPeerSends \/ UdpChecksGate \/ UdpReceives \/ UdpTimesOut
    \/ Terminated

Spec == Init /\ [][Next]_vars

(* tokio polls every task whose future is ready, and select! picks among  *)
(* ready branches at random; the OS schedules the UDP thread, and its    *)
(* recv_from returns within the 1 s read timeout.  The peers and the     *)
(* signal are not assumed to act.                                         *)
FairSpec ==
    /\ Spec
    /\ WF_vars(Accept) /\ WF_vars(StopAccepting) /\ WF_vars(RunJoins)
    /\ WF_vars(HandlerReads) /\ WF_vars(HandlerEof) /\ WF_vars(HandlerShutdown)
    /\ WF_vars(UdpChecksGate) /\ WF_vars(UdpReceives \/ UdpTimesOut)

-----------------------------------------------------------------------------
(* Properties                                                              *)

Phases == {"idle", "read", "eof", "timedout", "shutdown", "failed", "panicked"}

TypeOK ==
    /\ tripwire \in BOOLEAN /\ gate \in BOOLEAN /\ peerClosed \in BOOLEAN
    /\ apc \in {"loop", "stopped"}
    /\ rpc \in {"serving", "joining", "done", "panicked"}
    /\ hpc \in Phases
    /\ upc \in {"check", "recv", "exited", "panicked"}
    /\ peerMsgs \in 0..MaxMsgs
    /\ Len(unread) <= Len(peerSent)
    /\ Len(udpRecvd) + Len(udpIn) <= MaxDatagrams

(* Framing is independent of how TCP splits the stream into reads (spec    *)
(* 8.1): whatever the reads, client_handler has provided exactly the lines *)
(* of the bytes read so far and keeps their residual in buf; at EOF it has *)
(* also provided the residual as the final PDU (spec 4.6).                 *)
TcpFramesAnySplit ==
    /\ hpc \in {"read", "timedout", "shutdown", "failed"} => tcpFwd = RefLines(ReadSoFar)
    /\ hpc = "read" => buf = RefResidual(ReadSoFar)
    /\ hpc = "eof" => tcpFwd = RefFinal(ReadSoFar)

(* Shutdown completes: once the tripwire is cancelled, the accept loop    *)
(* stops, the handler closes, the UDP thread sees the gate and exits, and *)
(* run returns from the join.                                              *)
ShutdownCompletes ==
    tripwire ~> (rpc = "done" /\ hpc # "read")

(* Ingress never panics on what a peer sends: an empty line is skipped    *)
(* (spec 4.5), and a per-PDU error never fails upward (spec 7).           *)
IngressNeverPanics ==
    hpc # "panicked" /\ upc # "panicked" /\ rpc # "panicked"

(* The UDP thread provides every line of every datagram it receives, and  *)
(* the datagram's unterminated tail as a PDU (spec 4.7, 4.5).             *)
UdpForwardsDatagrams ==
    udpFwd = FlattenSeq([i \in 1..Len(udpRecvd) |-> RefFinal(udpRecvd[i])])

=============================================================================
