------------------------------- MODULE Framer -------------------------------
(***************************************************************************)
(* The newline framer of src/statsd_server.rs (process_buffer_newlines)    *)
(* and the reference line splitting of spec 4.5 and 8.1 it is checked     *)
(* against.  A byte is one of a few model strings: LF and CR, and payload  *)
(* bytes.                                                                  *)
(***************************************************************************)
EXTENDS Naturals, Sequences, SequencesExt

LF == "\n"
CR == "\r"

\* StatsdPDU::new(bytes) is Some for a non-empty line (the parser is not
\* part of src/; spec 4.5: "emit a PDU ... if non-empty").
IsPdu(line) == line # <<>>

PduOf(line) == IF IsPdu(line) THEN <<line>> ELSE <<>>

(***************************************************************************)
(* process_buffer_newlines(buf): split off each line up to and including   *)
(* the next LF; drop the LF, and the byte before it when that is CR; push  *)
(* the line when it parses.  The result is the PDUs, what is left of buf,  *)
(* and whether the call panicked: for a line that is a lone LF,            *)
(* incoming[incoming.len() - 2] indexes with 1 - 2, which underflows       *)
(* (a panic in a debug build, an index out of bounds in a release one).   *)
(* A panic unwinds before ret is returned: the caller forwards none of    *)
(* its PDUs.                                                               *)
(***************************************************************************)
RECURSIVE ProcessBufferNewlines(_)
ProcessBufferNewlines(buf) ==
    LET nl == SelectInSeq(buf, LAMBDA x : x = LF)
    IN  IF nl = 0 THEN [pdus |-> <<>>, rest |-> buf, panic |-> FALSE]
        ELSE IF nl = 1 THEN [pdus |-> <<>>, rest |-> Tail(buf), panic |-> TRUE]
        ELSE LET line == IF buf[nl - 1] = CR THEN SubSeq(buf, 1, nl - 2)
                                             ELSE SubSeq(buf, 1, nl - 1)
                 more == ProcessBufferNewlines(SubSeq(buf, nl + 1, Len(buf)))
             IN  [more EXCEPT !.pdus = PduOf(line) \o @]

-----------------------------------------------------------------------------
(* The reference framing of spec 4.5: the lines of b are the segments      *)
(* between LFs, a CR before an LF is stripped, empty lines are skipped,    *)
(* and what follows the last LF is the residual.                           *)

Cuts(b) == <<0>> \o SetToSortSeq({k \in 1..Len(b) : b[k] = LF}, <)

StripCR(s) == IF s # <<>> /\ Last(s) = CR THEN Front(s) ELSE s

RefLines(b) ==
    LET c == Cuts(b)
    IN  SelectSeq([j \in 1..Len(c) - 1 |-> StripCR(SubSeq(b, c[j] + 1, c[j + 1] - 1))],
                  IsPdu)

RefResidual(b) == SubSeq(b, Last(Cuts(b)) + 1, Len(b))

\* What a datagram, or a stream at EOF, carries: its lines and, as a final
\* PDU, the residual (spec 4.5, 4.6).
RefFinal(b) == RefLines(b) \o PduOf(RefResidual(b))

=============================================================================
