---------------------------- MODULE StatsdClient ----------------------------
(***************************************************************************)
(* One sender of src/statsd_client.rs: the client handle's bounded PDU     *)
(* queue, the client_task that write-combines PDUs into a buffer and       *)
(* flushes it on the size threshold or on a ticker tick, the small channel *)
(* of frozen buffers, and the client_sender write task that owns the TCP   *)
(* stream, writes partially, trims to the next newline when the connection *)
(* dies, reconnects, and gives up when the handles' tripwire fires.        *)
(*                                                                         *)
(* A PDU is a number (numbers are taken in the order try_send accepts      *)
(* them).  Its wire form is two bytes, a body byte and the newline the     *)
(* client_task appends, so that a write may stop inside a PDU.  The peer   *)
(* is the downstream statsd server: it splits what arrives on one         *)
(* connection into lines.                                                  *)
(***************************************************************************)
EXTENDS Naturals, Sequences, SequencesExt, FiniteSets

CONSTANTS
    MaxPdus,      \* PDUs the producers offer in one behaviour
    QueueCap,     \* channel_buffer of StatsdClient::new (100000 in the code)
    Threshold,    \* SEND_THRESHOLD, in bytes
    ChanCap,      \* capacity of the buffer channel to client_sender (10)
    MaxAborts     \* bound on connection deaths in one behaviour

ASSUME /\ MaxPdus \in Nat \ {0}
       /\ QueueCap \in Nat \ {0}
       /\ Threshold \in Nat \ {0}
       /\ ChanCap \in Nat \ {0}
       /\ MaxAborts \in Nat

Pdus == 1..MaxPdus

\* Wire bytes: <<p, "b">> is the body of PDU p, <<p, "nl">> its newline.
Encode(p) == << <<p, "b">>, <<p, "nl">> >>
Byte == Pdus \X {"b", "nl"}
IsNewline(b) == b[2] = "nl"
PdusOf(bytes) == {bytes[i][1] : i \in DOMAIN bytes}

VARIABLES
    next,       \* number of the next PDU a producer offers
    open,       \* some StatsdClient handle is alive (queue open, tripwire unset)
    queue,      \* the mpsc PDU queue of the handle
    buf,        \* client_task's write-combining BytesMut
    ctPc,       \* client_task: "select", "send" (awaiting buf_sender.send), "done"
    ticks,      \* ticks pending from the ticker (channel of 1 plus a blocked send)
    chan,       \* frozen buffers in the channel to client_sender
    spc,        \* client_sender: "connect0", "recv", "write", "done"
    wbuf,       \* the Bytes client_sender is writing
    conn,       \* lazy_connect is Some
    line,       \* bytes of the peer's current, unterminated line
    delivered,  \* PDUs the peer has read as whole lines, in order
    garbled,    \* lines the peer read that are not exactly one PDU
    torn,       \* PDUs the peer saw partly on a connection that then died
    trimmed,    \* PDUs removed by trim_to_next_newline
    dropped,    \* PDUs refused by try_send (queue full or closed)
    discarded,  \* PDUs thrown away when the tasks exit on teardown
    aborts      \* connections_aborted

vars == <<next, open, queue, buf, ctPc, ticks, chan, spc, wbuf, conn,
          line, delivered, garbled, torn, trimmed, dropped, discarded, aborts>>
peer == <<line, delivered, garbled, torn>>

-----------------------------------------------------------------------------
(* The peer reading bytes from the current connection (environment).       *)
ReadByte(st, b) ==
    IF IsNewline(b)
    THEN IF st.line = <<Encode(b[1])[1]>>
         THEN [st EXCEPT !.line = <<>>, !.delivered = Append(@, b[1])]
         ELSE [st EXCEPT !.line = <<>>, !.garbled = @ + 1]
    ELSE [st EXCEPT !.line = Append(@, b)]

PeerReads(bytes) ==
    LET st == FoldLeft(ReadByte, [line |-> line, delivered |-> delivered,
                                  garbled |-> garbled], bytes)
    IN /\ line' = st.line
       /\ delivered' = st.delivered
       /\ garbled' = st.garbled

\* The connection closes: an unterminated line at the peer is torn.
PeerCloses ==
    /\ line' = <<>>
    /\ torn' = torn \cup PdusOf(line)
    /\ UNCHANGED <<delivered, garbled>>

-----------------------------------------------------------------------------
(* trim_to_next_newline: drop everything up to and including the first    *)
(* newline; leave the buffer alone when there is none.                    *)
TrimToNextNewline(b) ==
    LET i == SelectInSeq(b, IsNewline)
    IN IF i = 0 THEN b ELSE SubSeq(b, i + 1, Len(b))

\* StatsdClient::new: the handle with its Trigger, an empty PDU queue, and
\* the ticker with an empty tick channel.
NewClient ==
    /\ open = TRUE
    /\ queue = <<>>
    /\ ticks = 0

\* client_task before its loop: a fresh buffer, the buffer channel, and
\* client_sender spawned and about to form its first connection.
ClientTaskStart ==
    /\ buf = <<>>
    /\ ctPc = "select"
    /\ chan = <<>>
    /\ spc = "connect0"
    /\ wbuf = <<>>
    /\ conn = FALSE

Init ==
    /\ NewClient
    /\ ClientTaskStart
    /\ next = 1
    /\ line = <<>>
    /\ delivered = <<>>
    /\ garbled = 0
    /\ torn = {}
    /\ trimmed = {}
    /\ dropped = {}
    /\ discarded = {}
    /\ aborts = 0

-----------------------------------------------------------------------------
(* StatsdBackend::provide_statsd_pdu hands PDU `next` to the client with    *)
(* the non-blocking try_send: it is queued, or dropped when the queue is   *)
(* full or its receiver, the client_task, has gone (the warning counter   *)
(* is not modelled).                                                       *)
TrySend ==
    /\ next <= MaxPdus
    /\ open
    /\ IF Len(queue) < QueueCap /\ ctPc # "done"
       THEN /\ queue' = Append(queue, next)
            /\ UNCHANGED dropped
       ELSE /\ dropped' = dropped \cup {next}
            /\ UNCHANGED queue
    /\ next' = next + 1
    /\ UNCHANGED <<open, buf, ctPc, ticks, chan, spc, wbuf, conn, peer,
                   trimmed, discarded, aborts>>

\* The last handle is dropped (a reload leaves the endpoint out): the
\* queue's last sender goes and the Trigger fires the tripwire.
DropHandles ==
    /\ open
    /\ open' = FALSE
    /\ UNCHANGED <<next, queue, buf, ctPc, ticks, chan, spc, wbuf, conn, peer,
                   trimmed, dropped, discarded, aborts>>

\* Mutant of TickerFires: ticks are counted without the channel's bound.
TickerFiresUnbounded ==
    /\ ctPc # "done"
    /\ ticks < 3
    /\ ticks' = ticks + 1
    /\ UNCHANGED <<next, open, queue, buf, ctPc, chan, spc, wbuf, conn, peer,
                   trimmed, dropped, discarded, aborts>>

\* ticker: sleep(SEND_DELAY), then send(true) on the channel of capacity 1;
\* a second tick waits in the blocked send.  It exits with the client_task.
TickerFires ==
    /\ ctPc # "done"
    /\ ticks < 2
    /\ ticks' = ticks + 1
    /\ UNCHANGED <<next, open, queue, buf, ctPc, chan, spc, wbuf, conn, peer,
                   trimmed, dropped, discarded, aborts>>

-----------------------------------------------------------------------------
(* client_task, the select! over the PDU queue and the ticker.             *)

\* A PDU arrives: append it and its newline; flush once the buffer reaches
\* SEND_THRESHOLD.
CtRecvPdu ==
    /\ ctPc = "select"
    /\ queue # <<>>
    /\ buf' = buf \o Encode(Head(queue))
    /\ queue' = Tail(queue)
    /\ ctPc' = IF Len(buf') < Threshold THEN "select" ELSE "send"
    /\ UNCHANGED <<next, open, ticks, chan, spc, wbuf, conn, peer,
                   trimmed, dropped, discarded, aborts>>

\* recv() returns None: every handle is gone and the queue is drained.
\* Exit if the buffer is empty, else flush it first.
CtRecvClosed ==
    /\ ctPc = "select"
    /\ ~open
    /\ queue = <<>>
    /\ ctPc' = IF buf = <<>> THEN "done" ELSE "send"
    /\ UNCHANGED <<next, open, queue, buf, ticks, chan, spc, wbuf, conn, peer,
                   trimmed, dropped, discarded, aborts>>

\* Mutant of CtTick: a tick never flushes a buffer below the threshold.
CtTickNoFlush ==
    /\ ctPc = "select"
    /\ ticks > 0
    /\ ticks' = ticks - 1
    /\ UNCHANGED <<next, open, queue, buf, ctPc, chan, spc, wbuf, conn, peer,
                   trimmed, dropped, discarded, aborts>>

\* A tick: nothing to do on an empty buffer, else flush (delayed_sends).
CtTick ==
    /\ ctPc = "select"
    /\ ticks > 0
    /\ ticks' = ticks - 1
    /\ ctPc' = IF buf = <<>> THEN "select" ELSE "send"
    /\ UNCHANGED <<next, open, queue, buf, chan, spc, wbuf, conn, peer,
                   trimmed, dropped, discarded, aborts>>

\* Mutant of CtFlush: the fresh BytesMut is not allocated after the send.
CtFlushNoReset ==
    /\ ctPc = "send"
    /\ spc # "done"
    /\ Len(chan) < ChanCap
    /\ chan' = Append(chan, buf)
    /\ ctPc' = "select"
    /\ UNCHANGED <<next, open, queue, buf, ticks, spc, wbuf, conn, peer,
                   trimmed, dropped, discarded, aborts>>

\* buf_sender.send(buf.freeze()).await, then a fresh buffer.  It fails once
\* client_sender has gone; the client_task then returns, dropping its
\* buffer and, with the receiver, every PDU still queued.
CtFlush ==
    /\ ctPc = "send"
    /\ \/ /\ spc # "done"
          /\ Len(chan) < ChanCap
          /\ chan' = Append(chan, buf)
          /\ buf' = <<>>
          /\ ctPc' = "select"
          /\ UNCHANGED <<queue, discarded>>
       \/ /\ spc = "done"
          /\ ctPc' = "done"
          /\ discarded' = discarded \cup PdusOf(buf) \cup ToSet(queue)
          /\ buf' = <<>>
          /\ queue' = <<>>
          /\ UNCHANGED chan
    /\ UNCHANGED <<next, open, ticks, spc, wbuf, conn, peer,
                   trimmed, dropped, aborts>>

-----------------------------------------------------------------------------
(* client_sender.  A failed connect attempt only bumps connections_failed  *)
(* and sleeps before the next one, so it is a stuttering step.             *)

\* The first form_connection: it connects, or returns None once the tripwire
\* has fired, and client_sender goes on with lazy_connect = None.
ScConnectFirst ==
    /\ spc = "connect0"
    /\ \/ conn' = TRUE
       \/ /\ ~open
          /\ conn' = FALSE
    /\ spc' = "recv"
    /\ UNCHANGED <<next, open, queue, buf, ctPc, ticks, chan, wbuf, peer,
                   trimmed, dropped, discarded, aborts>>

\* recv() on the buffer channel: the next frozen buffer, or None once the
\* client_task has gone and the channel is drained.
ScRecv ==
    /\ spc = "recv"
    /\ \/ /\ chan # <<>>
          /\ wbuf' = Head(chan)
          /\ chan' = Tail(chan)
          /\ spc' = "write"
       \/ /\ chan = <<>>
          /\ ctPc = "done"
          /\ spc' = "done"
          /\ UNCHANGED <<wbuf, chan>>
    /\ UNCHANGED <<next, open, queue, buf, ctPc, ticks, conn, peer,
                   trimmed, dropped, discarded, aborts>>

\* Not connected with bytes to write: form_connection again, and it
\* connects ...
ScConnect ==
    /\ spc = "write"
    /\ ~conn
    /\ conn' = TRUE
    /\ UNCHANGED <<next, open, queue, buf, ctPc, ticks, chan, spc, wbuf, peer,
                   trimmed, dropped, discarded, aborts>>

\* Mutant of ScGiveUp: form_connection ignores the tripwire and retries.
ScGiveUpRetries ==
    /\ spc = "write"
    /\ ~conn
    /\ ~open
    /\ UNCHANGED vars

\* Mutant of ScGiveUp: form_connection returns None on a failed attempt.
ScGiveUpEarly ==
    /\ spc = "write"
    /\ ~conn
    /\ spc' = "done"
    /\ discarded' = discarded \cup PdusOf(wbuf)
                      \cup UNION {PdusOf(chan[i]) : i \in DOMAIN chan}
    /\ wbuf' = <<>>
    /\ chan' = <<>>
    /\ UNCHANGED <<next, open, queue, buf, ctPc, ticks, conn, peer,
                   trimmed, dropped, aborts>>

\* ... or, the tripwire having fired, returns None, and client_sender
\* returns, dropping the buffer in hand and the channel with every buffer
\* in it.
ScGiveUp ==
    /\ spc = "write"
    /\ ~conn
    /\ ~open
    /\ spc' = "done"
    /\ discarded' = discarded \cup PdusOf(wbuf)
                      \cup UNION {PdusOf(chan[i]) : i \in DOMAIN chan}
    /\ wbuf' = <<>>
    /\ chan' = <<>>
    /\ UNCHANGED <<next, open, queue, buf, ctPc, ticks, conn, peer,
                   trimmed, dropped, aborts>>

\* Mutant of ScWrite: write(&buf) in place of write_buf(&mut buf), which
\* does not advance the buffer past the written bytes.
ScWriteNoAdvance ==
    /\ spc = "write"
    /\ conn
    /\ \E n \in 1..Len(wbuf) : PeerReads(SubSeq(wbuf, 1, n))
    /\ UNCHANGED <<next, open, queue, buf, ctPc, ticks, chan, spc, wbuf, conn,
                   torn, trimmed, dropped, discarded, aborts>>

\* write_buf returns Ok(n), n > 0: the first n bytes reach the peer; the
\* buffer is done when nothing is left.
ScWrite ==
    /\ spc = "write"
    /\ conn
    /\ \E n \in 1..Len(wbuf) :
          /\ PeerReads(SubSeq(wbuf, 1, n))
          /\ wbuf' = SubSeq(wbuf, n + 1, Len(wbuf))
    /\ spc' = IF wbuf' = <<>> THEN "recv" ELSE "write"
    /\ UNCHANGED <<next, open, queue, buf, ctPc, ticks, chan, conn, torn,
                   trimmed, dropped, discarded, aborts>>

\* Mutant of ScWriteFails: the buffer is kept whole for the next connection.
ScWriteFailsNoTrim ==
    /\ spc = "write"
    /\ conn
    /\ aborts < MaxAborts
    /\ conn' = FALSE
    /\ PeerCloses
    /\ aborts' = aborts + 1
    /\ UNCHANGED <<next, open, queue, buf, ctPc, ticks, chan, spc, wbuf,
                   trimmed, dropped, discarded>>

\* Mutant of ScWriteFails: the whole buffer is thrown away on an error.
ScWriteFailsDropAll ==
    /\ spc = "write"
    /\ conn
    /\ aborts < MaxAborts
    /\ conn' = FALSE
    /\ wbuf' = <<>>
    /\ trimmed' = trimmed \cup PdusOf(wbuf)
    /\ PeerCloses
    /\ aborts' = aborts + 1
    /\ spc' = "recv"
    /\ UNCHANGED <<next, open, queue, buf, ctPc, ticks, chan,
                   dropped, discarded>>

\* write_buf returns Ok(0) on a non-empty buffer, or Err: drop the stream,
\* trim the buffer to the next newline, count connections_aborted.  An
\* empty buffer after the trim ends the inner loop.
ScWriteFails ==
    /\ spc = "write"
    /\ conn
    /\ aborts < MaxAborts
    /\ conn' = FALSE
    /\ wbuf' = TrimToNextNewline(wbuf)
    /\ trimmed' = trimmed \cup PdusOf(SubSeq(wbuf, 1, Len(wbuf) - Len(wbuf')))
    /\ PeerCloses
    /\ aborts' = aborts + 1
    /\ spc' = IF wbuf' = <<>> THEN "recv" ELSE "write"
    /\ UNCHANGED <<next, open, queue, buf, ctPc, ticks, chan,
                   dropped, discarded>>

\* Both tasks have returned; the ticker has exited with the client_task.
Terminated ==
    /\ ctPc = "done"
    /\ spc = "done"
    /\ UNCHANGED vars

Next ==
    \/ TrySend
    \/ DropHandles
    \/ TickerFires
    \/ CtRecvPdu
    \/ CtRecvClosed
    \/ CtTick
    \/ CtFlush
    \/ ScConnectFirst
    \/ ScRecv
    \/ ScConnect
    \/ ScGiveUp
    \/ ScWrite
    \/ ScWriteFails
    \/ Terminated

Spec == Init /\ [][Next]_vars

(* Fairness the code justifies: tokio wakes a task whose select! or await  *)
(* is ready, and select! polls its ready branches in random order, so no   *)
(* ready branch of client_task is passed over for ever; the ticker's timer *)
(* fires; once the tripwire has fired the select! in form_connection       *)
(* returns None at the latest after one RECONNECT_DELAY, in the first     *)
(* form_connection as in a later one.  A connect attempt may fail forever: *)
(* the endpoint may be down.                                               *)
SchedulerFair ==
    /\ WF_vars(CtRecvPdu)
    /\ WF_vars(CtRecvClosed)
    /\ WF_vars(CtTick)
    /\ WF_vars(CtFlush)
    /\ WF_vars(TickerFires)
    /\ WF_vars(ScConnectFirst /\ ~open)
    /\ WF_vars(ScRecv)
    /\ WF_vars(ScGiveUp)

(* An assumption about the peer: a write call returns.  client_sender has  *)
(* no write timeout and does not select on the tripwire while it writes.   *)
WriteReturns == WF_vars(ScWrite \/ ScWriteFails)

FairSpec == Spec /\ SchedulerFair /\ WriteReturns

(* A peer that stops reading: its receive window and the kernel's send     *)
(* buffer fill, and write_buf never completes.  The runtime is as fair as  *)
(* in FairSpec.                                                            *)
StalledSpec == Spec /\ SchedulerFair

(* The endpoint is reachable: a connect attempt eventually succeeds.  The  *)
(* code cannot promise this, so it is an assumption of the property that   *)
(* needs it, not part of FairSpec.                                         *)
Reachable == WF_vars(ScConnectFirst) /\ WF_vars(ScConnect)

-----------------------------------------------------------------------------
(* Properties                                                              *)

TypeOK ==
    /\ next \in 1..MaxPdus + 1
    /\ open \in BOOLEAN
    /\ queue \in Seq(Pdus) /\ Len(queue) <= QueueCap
    /\ buf \in Seq(Byte)
    /\ ctPc \in {"select", "send", "done"}
    /\ ticks \in 0..2
    /\ chan \in Seq(Seq(Byte)) /\ Len(chan) <= ChanCap
    /\ spc \in {"connect0", "recv", "write", "done"}
    /\ wbuf \in Seq(Byte)
    /\ conn \in BOOLEAN
    /\ line \in Seq(Byte)
    /\ delivered \in Seq(Pdus)
    /\ garbled \in Nat
    /\ torn \subseteq Pdus
    /\ trimmed \subseteq Pdus /\ dropped \subseteq Pdus /\ discarded \subseteq Pdus
    /\ aborts \in 0..MaxAborts

Accepted == (1..next - 1) \ dropped

\* The places a PDU can be in.
Where(p) ==
    {w \in {"queue", "buf", "chan", "wbuf", "delivered", "trimmed", "discarded"} :
        CASE w = "queue"     -> p \in ToSet(queue)
          [] w = "buf"       -> p \in PdusOf(buf)
          [] w = "chan"      -> \E i \in DOMAIN chan : p \in PdusOf(chan[i])
          [] w = "wbuf"      -> p \in PdusOf(wbuf)
          [] w = "delivered" -> p \in ToSet(delivered)
          [] w = "trimmed"   -> p \in trimmed
          [] w = "discarded" -> p \in discarded}

(* Conservation: across the queue, the write-combining buffer, the buffer  *)
(* channel and the write task, every PDU try_send accepted is in exactly   *)
(* one place or has been delivered, trimmed or discarded: no hand-off      *)
(* between client_task and client_sender loses or copies one silently.     *)
Conservation ==
    /\ \A p \in Accepted : Cardinality(Where(p)) = 1
    /\ \A p \in Pdus \ Accepted : Where(p) = {}

(* Every line the peer reads is exactly one PDU: after a connection dies   *)
(* mid-PDU the rest of that PDU is never written on the next connection.   *)
PeerLinesWhole == garbled = 0

InFlight == Accepted \ (ToSet(delivered) \cup trimmed \cup discarded)

LF == INSTANCE LossyFifo
        WITH Msgs <- Pdus,
             pending <- SetToSortSeq(InFlight, <),
             delivered <- delivered,
             refused <- dropped

(* The sender implements a lossy FIFO: across the queue, the write-       *)
(* combining buffer, partial writes, trims and reconnects, the peer reads  *)
(* accepted PDUs in acceptance order, each at most once, and a PDU leaves  *)
(* the sender only by being delivered or lost.                             *)
ImplementsLossyFifo == LF!Spec

CQ == INSTANCE ClientQueue
        WITH Msgs <- Pdus,
             Cap <- QueueCap,
             cq <- queue,
             open <- open,
             exited <- (ctPc = "done")

(* The sender keeps the contract Backends abstracts it to: a PDU enters    *)
(* the queue only from a live handle while client_task runs, client_task  *)
(* takes PDUs from the head, and client_task ends only after the last     *)
(* handle is gone, with the queue drained, or, when client_sender has     *)
(* already given up on the tripwire, dropping what is still queued.       *)
ImplementsClientQueue == CQ!Spec

(* A connection death costs at most one PDU (the one the trim cuts), and  *)
(* a PDU the peer saw only in part is one the sender has given up on.      *)
LossPerAbort ==
    /\ torn \subseteq trimmed
    /\ Cardinality(trimmed) <= aborts

(* After the last handle is dropped, client_task and client_sender both    *)
(* return, whatever state the connection is in.                            *)
TeardownTerminates == ~open ~> (ctPc = "done" /\ spc = "done")

(* When the endpoint is reachable, every accepted PDU is eventually        *)
(* delivered, or cut by a trim, or discarded at teardown: none stays in a  *)
(* buffer below SEND_THRESHOLD for ever.                                   *)
EventuallyResolved ==
    Reachable =>
        \A p \in Pdus :
            p \in Accepted ~> (p \in ToSet(delivered) \cup trimmed \cup discarded)

=============================================================================
