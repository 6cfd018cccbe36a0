----------------------------- MODULE ServicePort -----------------------------
(***************************************************************************)
(* The bytes of one connection, before any of them is a request: the probe   *)
(* that tells an HTTP request from Thrift by the first bytes, the hand-over   *)
(* of the socket to the Python HTTP handler, and the two framers that find    *)
(* where a message ends without decoding it, by the length before it (Framed) *)
(* or by its brackets (JSON on the Buffered transport).  The peer sends any   *)
(* number of bytes at a time, several messages in a row, and stops or closes  *)
(* where it likes.  The client cuts its replies with a copy of the same code. *)
(***************************************************************************)
EXTENDS Integers, Sequences, FiniteSets, SequencesExt

CONSTANTS
    Setups,     \* [framing, http, speaks]: the server's transport, its HTTP
                \*   handler if it has one, and what the peer speaks
    Requests,   \* texts that a peer that speaks no Thrift may send, as bytes
    Alphabet,   \* what the strings of a JSON message are made of
    MaxFrame,   \* bound: bytes of a framed message
    MaxBytes    \* bound: bytes that a Thrift peer sends, by framing

Byte == 0 .. 255

ASSUME PortAssumption ==
    /\ Setups \subseteq [framing : {"framed", "json"}, http : {"none", "sync", "async"},
                         speaks : {"thrift", "text"}]
    /\ Requests \subseteq Seq(Byte) /\ Alphabet \subseteq Byte
    /\ MaxFrame \in 0 .. 255 /\ MaxBytes \in [{"framed", "json"} -> Nat]

VARIABLES
    setup,      \* one of Setups
    wire,       \* every byte that the peer has sent
    unsent,     \* the rest of what it is sending
    shut,       \* it has closed its sending side
    open,       \* the peer: what is open in its JSON message, brackets and the
                \*   quotation mark of a string, innermost first
    msgs,       \* ghost: <<first, last>> byte of each message it began to send
    at,         \* where the connection's task is
    pos,        \* bytes the framer has consumed
    cut,        \* the framer's variables
    frames,     \* ghost: <<first, last>> byte of each frame cut
    fd,         \* who has the descriptor
    runs,       \* ghost: times the HTTP handler was called
    dropped     \* the runtime is gone

peer == <<wire, unsent, shut, open, msgs>>
framer == <<pos, cut, frames>>
socket == <<fd, runs>>
vars == <<setup, peer, at, framer, socket, dropped>>

(* ASCII: quotation mark, backslash, brackets and braces, white space.       *)
Quote == 34
Backslash == 92
Opening == {91, 123}
Closing == [b \in Opening |-> b + 2]
Space == {9, 10, 12, 13, 32}

(* GET, POST, PUT, HEAD, DELETE, PATCH, OPTIONS, TRACE and CONNECT, each with *)
(* the space behind it.                                                     *)
HTTP_METHOD_PREFIXES ==
    {<<71,69,84,32>>, <<80,79,83,84,32>>, <<80,85,84,32>>, <<72,69,65,68,32>>,
     <<68,69,76,69,84,69,32>>, <<80,65,84,67,72,32>>, <<79,80,84,73,79,78,83,32>>,
     <<84,82,65,67,69,32>>, <<67,79,78,78,69,67,84,32>>}

NoFrame == [started |-> FALSE, depth |-> 0, inString |-> FALSE, escaped |-> FALSE, size |-> 0]

Ended == {"done", "failed", "finished", "cancelled"}

TypeOK ==
    /\ setup \in Setups
    /\ wire \in Seq(Byte) /\ unsent \in Seq(Byte) /\ shut \in BOOLEAN
    /\ open \in Seq(Opening \cup {Quote})
    /\ msgs \in Seq(Nat \X Nat) /\ frames \in Seq(Nat \X Nat)
    /\ at \in {"accepted", "peeking", "asleep", "framing", "handing", "queued",
               "calling", "awaiting"} \cup Ended
    /\ pos \in 0 .. Len(wire)
    /\ cut \in [started : BOOLEAN, depth : Nat, inString : BOOLEAN, escaped : BOOLEAN, size : Nat]
    /\ fd \in {"stream", "raw", "socket", "closed", "lost"}
    /\ runs \in Nat /\ dropped \in BOOLEAN

Init ==
    /\ setup \in Setups
    /\ wire = << >> /\ shut = FALSE /\ open = << >> /\ msgs = << >>
    /\ unsent \in (IF setup.speaks = "text" THEN Requests ELSE {<< >>})
    /\ at = "accepted"
    /\ pos = 0 /\ cut = NoFrame /\ frames = << >>
    /\ fd = "stream" /\ runs = 0 /\ dropped = FALSE

-----------------------------------------------------------------------------
(* The peer.                                                                *)

Sent == Len(wire) + Len(unsent)
Fits(bytes) == Sent + Len(bytes) <= MaxBytes[setup.framing]
Speaks(framing) ==
    /\ setup.speaks = "thrift" /\ setup.framing = framing
    /\ ~shut /\ unsent = << >>

(* The bytes that are on their way arrive in pieces.                        *)
Send ==
    /\ ~shut /\ unsent # << >>
    /\ \E n \in 1 .. Len(unsent) :
         /\ wire' = wire \o SubSeq(unsent, 1, n)
         /\ unsent' = SubSeq(unsent, n + 1, Len(unsent))
    /\ UNCHANGED <<setup, shut, open, msgs, at, framer, socket, dropped>>

Shut ==
    /\ ~shut
    /\ shut' = TRUE
    /\ UNCHANGED <<setup, wire, unsent, open, msgs, at, framer, socket, dropped>>

(* The length as four bytes, then the payload, whatever it is.               *)
SendFramed ==
    /\ Speaks("framed")
    /\ \E n \in 0 .. MaxFrame :
         LET message == <<0, 0, 0, n>> \o [i \in 1 .. n |-> 0] IN
         /\ Fits(message)
         /\ unsent' = message
         /\ msgs' = Append(msgs, <<Sent + 5, Sent + Len(message)>>)
    /\ UNCHANGED <<setup, wire, shut, open, at, framer, socket, dropped>>

(* A JSON text, a token or a character at a time.  In a string the quotation  *)
(* mark and the backslash have a backslash before them.                       *)
Emit(bytes) ==
    /\ Speaks("json") /\ Fits(bytes)
    /\ unsent' = bytes
    /\ UNCHANGED <<setup, wire, shut, at, framer, socket, dropped>>

Quoting == open # << >> /\ Head(open) = Quote

SendBracket ==
    \E b \in Opening :
        /\ ~Quoting
        /\ Emit(<<b>>)
        /\ open' = <<b>> \o open
        /\ msgs' = IF open = << >> THEN Append(msgs, <<Sent + 1, 0>>) ELSE msgs

SendClosing ==
    /\ open # << >> /\ ~Quoting
    /\ Emit(<<Closing[Head(open)]>>)
    /\ open' = Tail(open)
    /\ msgs' = IF Len(open) = 1 THEN [msgs EXCEPT ![Len(msgs)] = <<@[1], Sent + 1>>] ELSE msgs

SendQuote ==
    /\ open # << >>
    /\ Emit(<<Quote>>)
    /\ open' = IF Quoting THEN Tail(open) ELSE <<Quote>> \o open
    /\ UNCHANGED msgs

SendCharacter ==
    /\ Quoting
    /\ \E char \in Alphabet :
         Emit(IF char \in {Quote, Backslash} THEN <<Backslash, char>> ELSE <<char>>)
    /\ UNCHANGED <<open, msgs>>

(* A scalar, a comma, white space: of one byte each, which no framer minds.   *)
SendToken ==
    /\ ~Quoting
    /\ Emit(<<32>>)
    /\ UNCHANGED <<open, msgs>>

-----------------------------------------------------------------------------
(* The probe, only if there is an HTTP handler.                              *)

Accepted ==
    /\ at = "accepted" /\ ~dropped
    /\ at' = IF setup.http = "none" THEN "framing" ELSE "peeking"
    /\ UNCHANGED <<setup, peer, framer, socket, dropped>>

is_http_method_prefix(prefix) ==
    \E m \in HTTP_METHOD_PREFIXES : IsPrefix(m, prefix)

could_be_http_method_prefix(prefix) ==
    \E m \in HTTP_METHOD_PREFIXES : IsPrefix(prefix, m)

Min2(a, b) == IF a < b THEN a ELSE b
PeekSize == 8

(* peek answers when something has arrived, or the peer has closed.          *)
\* Mutant of Peek: what has come so far decides at once.
PeekOnce ==
    /\ at = "peeking" /\ ~dropped
    /\ wire # << >> \/ shut
    /\ LET n == Min2(Len(wire), PeekSize)  prefix == SubSeq(wire, 1, n) IN
       at' = IF n > 0 /\ is_http_method_prefix(prefix) THEN "handing" ELSE "framing"
    /\ UNCHANGED <<setup, peer, framer, socket, dropped>>

\* Mutant of Peek: it reads on until the buffer is full.
PeekFull ==
    /\ at = "peeking" /\ ~dropped
    /\ wire # << >> \/ shut
    /\ LET n == Min2(Len(wire), PeekSize)  prefix == SubSeq(wire, 1, n) IN
       at' = IF n = 0 THEN "framing"
             ELSE IF is_http_method_prefix(prefix) THEN "handing"
             ELSE IF n = PeekSize THEN "framing"
             ELSE "asleep"
    /\ UNCHANGED <<setup, peer, framer, socket, dropped>>

Peek ==
    /\ at = "peeking" /\ ~dropped
    /\ wire # << >> \/ shut
    /\ LET n == Min2(Len(wire), PeekSize)  prefix == SubSeq(wire, 1, n) IN
       at' = IF n = 0 THEN "framing"
             ELSE IF is_http_method_prefix(prefix) THEN "handing"
             ELSE IF n = PeekSize \/ ~could_be_http_method_prefix(prefix) THEN "framing"
             ELSE "asleep"
    /\ UNCHANGED <<setup, peer, framer, socket, dropped>>

Wake ==
    /\ at = "asleep" /\ ~dropped
    /\ at' = "peeking"
    /\ UNCHANGED <<setup, peer, framer, socket, dropped>>

-----------------------------------------------------------------------------
(* The hand-over.  The descriptor is a plain number from into_raw_socket_handle *)
(* on until the Python socket has it; a blocking thread of the runtime makes   *)
(* that socket and calls the handler.                                        *)

HandOver ==
    /\ at = "handing" /\ ~dropped
    /\ \/ at' = "queued" /\ fd' = "raw"
       \/ at' = "failed" /\ fd' = "closed"      \* into_std or set_nonblocking fails
    /\ UNCHANGED <<setup, peer, framer, runs, dropped>>

(* The Python socket is made, or the descriptor is closed.                   *)
\* Mutant of invoke_python_http_handler: it forgets close_raw_socket.
InvokeNoClose ==
    /\ at = "queued" /\ ~dropped
    /\ \/ at' = "calling" /\ fd' = "socket" /\ runs' = runs + 1
       \/ at' = "failed" /\ fd' = "lost" /\ UNCHANGED runs
    /\ UNCHANGED <<setup, peer, framer, dropped>>

invoke_python_http_handler ==
    /\ at = "queued" /\ ~dropped
    /\ \/ at' = "calling" /\ fd' = "socket" /\ runs' = runs + 1
       \/ at' = "failed" /\ fd' = "closed" /\ UNCHANGED runs
    /\ UNCHANGED <<setup, peer, framer, dropped>>

(* The handler returns or raises; a coroutine still has to run, on the loop of *)
(* the worker, unless that loop could not be made.  The last reference to the  *)
(* socket closes it.                                                         *)
HandlerReturns ==
    /\ at = "calling"
    /\ \/ setup.http = "sync" /\ at' = "finished" /\ fd' = "closed"
       \/ setup.http = "async" /\ ~dropped /\ at' = "awaiting" /\ UNCHANGED fd
       \/ at' = "failed" /\ fd' = "closed"
    /\ UNCHANGED <<setup, peer, framer, runs, dropped>>

CoroutineEnds ==
    /\ at = "awaiting" /\ ~dropped
    /\ at' \in {"finished", "failed"} /\ fd' = "closed"
    /\ UNCHANGED <<setup, peer, framer, runs, dropped>>

(* The runtime goes down with its tasks; a blocking call that runs is waited   *)
(* for, one that is queued is dropped, with the number it was to wrap.        *)
RuntimeDropped ==
    /\ ~dropped
    /\ dropped' = TRUE
    /\ IF at \in Ended \cup {"calling"} THEN UNCHANGED <<at, fd>>
       ELSE /\ at' = "cancelled"
            /\ fd' = IF fd = "raw" THEN "lost" ELSE "closed"
    /\ UNCHANGED <<setup, peer, framer, runs>>

-----------------------------------------------------------------------------
(* The framers: `recv_request_frame_async' and `conn_recv_frame'.              *)

Framing(kind) == at = "framing" /\ setup.framing = kind /\ ~dropped
Arrived(n) == Len(wire) - pos >= n
AtEnd(n) == shut /\ ~Arrived(n)

Ends(how) == at' = how /\ fd' = "closed"
Cut(first, last) == frames' = Append(frames, <<first, last>>) /\ cut' = NoFrame
Reading == UNCHANGED <<setup, peer, runs, dropped>>
Goes == UNCHANGED <<at, fd>>

(* A big-endian i32.                                                        *)
I32(b) == 16777216 * (IF b[1] >= 128 THEN b[1] - 256 ELSE b[1])
          + 65536 * b[2] + 256 * b[3] + b[4]

(* A frame of no bytes ends the connection, as the end of the stream does.    *)
ReadLength ==
    /\ Framing("framed") /\ cut.size = 0 /\ Arrived(4)
    /\ LET n == I32(SubSeq(wire, pos + 1, pos + 4)) IN
       /\ pos' = pos + 4
       /\ IF n > 0 THEN cut' = [cut EXCEPT !.size = n] /\ UNCHANGED <<frames>> /\ Goes
          ELSE UNCHANGED <<cut, frames>> /\ Ends("done")
    /\ Reading

\* Mutant of ReadPayload: it takes what has arrived for the whole payload.
ReadPayloadEarly ==
    /\ Framing("framed") /\ cut.size > 0 /\ Arrived(1)
    /\ Cut(pos + 1, pos + cut.size)
    /\ pos' = pos + cut.size
    /\ Goes /\ Reading

ReadPayload ==
    /\ Framing("framed") /\ cut.size > 0 /\ Arrived(cut.size)
    /\ Cut(pos + 1, pos + cut.size)
    /\ pos' = pos + cut.size
    /\ Goes /\ Reading

(* The end of the stream: before a frame it is an empty one, inside it an      *)
(* error.                                                                    *)
ReadEof ==
    /\ \/ Framing("framed") /\ AtEnd(IF cut.size = 0 THEN 4 ELSE cut.size)
       \/ Framing("json") /\ AtEnd(1)
    /\ Ends(IF cut.size > 0 \/ cut.started THEN "failed" ELSE "done")
    /\ UNCHANGED framer /\ Reading

(* read_json_value_async, until the first bracket.                            *)
JsonStart ==
    /\ Framing("json") /\ ~cut.started /\ Arrived(1)
    /\ LET byte == wire[pos + 1] IN
       \/ byte \in Space /\ UNCHANGED cut /\ Goes
       \/ byte \in Opening /\ cut' = [cut EXCEPT !.started = TRUE, !.depth = 1, !.size = 1] /\ Goes
       \/ byte \notin Space \cup Opening /\ UNCHANGED cut /\ Ends("failed")
    /\ pos' = pos + 1
    /\ UNCHANGED frames /\ Reading

(* One byte in a string.                                                     *)
\* Mutant of InString: an escaped backslash escapes what follows it.
InStringStaysEscaped(c, byte) ==
    IF c.escaped /\ byte # Backslash THEN [c EXCEPT !.escaped = FALSE]
    ELSE IF byte = Backslash THEN [c EXCEPT !.escaped = TRUE]
    ELSE IF byte = Quote THEN [c EXCEPT !.inString = FALSE]
    ELSE c

\* Mutant of InString: a closing bracket counts there too.
InStringCounts(c, byte) ==
    IF c.escaped THEN [c EXCEPT !.escaped = FALSE]
    ELSE IF byte = Backslash THEN [c EXCEPT !.escaped = TRUE]
    ELSE IF byte = Quote THEN [c EXCEPT !.inString = FALSE]
    ELSE IF byte \in Range(Closing) THEN [c EXCEPT !.depth = @ - 1]
    ELSE c

InString(c, byte) ==
    IF c.escaped THEN [c EXCEPT !.escaped = FALSE]
    ELSE IF byte = Backslash THEN [c EXCEPT !.escaped = TRUE]
    ELSE IF byte = Quote THEN [c EXCEPT !.inString = FALSE]
    ELSE c

(* One byte outside of them.                                                 *)
OutOfString(c, byte) ==
    IF byte = Quote THEN [c EXCEPT !.inString = TRUE]
    ELSE IF byte \in Opening THEN [c EXCEPT !.depth = @ + 1]
    ELSE IF byte \in Range(Closing) THEN [c EXCEPT !.depth = @ - 1]
    ELSE c

(* `size' counts the bytes that are in `out'.                                 *)
JsonByte ==
    /\ Framing("json") /\ cut.started /\ Arrived(1)
    /\ LET byte == wire[pos + 1]
           next == IF cut.inString THEN InString(cut, byte) ELSE OutOfString(cut, byte)
       IN IF next.depth = 0 THEN Cut(pos + 1 - cut.size, pos + 1)
          ELSE cut' = [next EXCEPT !.size = @ + 1] /\ UNCHANGED frames
    /\ pos' = pos + 1
    /\ Goes /\ Reading

-----------------------------------------------------------------------------
Peer ==
    \/ Send
    \/ Shut
    \/ SendFramed
    \/ SendBracket
    \/ SendClosing
    \/ SendQuote
    \/ SendCharacter
    \/ SendToken

Probe == Accepted \/ Peek \/ Wake
Http == HandOver \/ invoke_python_http_handler \/ HandlerReturns \/ CoroutineEnds
Framer == ReadLength \/ ReadPayload \/ ReadEof \/ JsonStart \/ JsonByte

Next == Peer \/ Probe \/ Http \/ Framer \/ RuntimeDropped

(* The runtime polls a task that can go on; nothing is assumed of the peer, or *)
(* of the HTTP handler.                                                      *)
Fairness == WF_vars(Probe) /\ WF_vars(HandOver) /\ WF_vars(Framer)

Spec == Init /\ [][Next]_vars /\ Fairness
-----------------------------------------------------------------------------
(* Frame by frame the task gets the messages of the peer, each with its first  *)
(* and its last byte, whatever the pieces they arrive in: a quotation mark or   *)
(* a bracket in a string, a length, white space between two messages shift none *)
(* of them, and no message is an error but the one that the peer broke off.    *)
CutsWhereItEnds ==
    setup.speaks = "thrift" =>
        /\ Len(frames) <= Len(msgs)
        /\ \A i \in DOMAIN frames : frames[i] = msgs[i]
        /\ at = "failed" /\ setup.http = "none" => shut

(* Of all the peer is going to send, in whatever pieces, only a text that     *)
(* begins with a method goes to the HTTP handler, only a connection that does  *)
(* not, or that ends before the method does, to the framer, and the handler    *)
(* gets the socket with every byte still in it.                               *)
WillSend == wire \o unsent

ProbeRight ==
    setup.http # "none" =>
        /\ fd \in {"raw", "socket"} => is_http_method_prefix(WillSend) /\ pos = 0
        /\ at = "framing" => ~is_http_method_prefix(WillSend) \/ (shut /\ wire = << >>)

(* However the hand-over goes, the descriptor is closed once, by the one that  *)
(* has it, when the connection is over, and the handler was called at most     *)
(* once; only a runtime that goes down under a connection on its way to the    *)
(* blocking thread loses it.                                                  *)
SocketIsClosed ==
    /\ at \in Ended <=> fd \in {"closed", "lost"}
    /\ fd = "lost" => dropped /\ runs = 0
    /\ at \in {"calling", "awaiting", "finished"} => runs = 1
    /\ runs <= 1

(* The probe comes to an answer as soon as the bytes allow one: a method is    *)
(* there, or can no longer come.                                             *)
Decided ==
    \/ is_http_method_prefix(wire)
    \/ wire # << >> /\ ~could_be_http_method_prefix(wire)
    \/ wire = << >> /\ shut

ProbeAnswers == (at \in {"peeking", "asleep"} /\ Decided) ~> at \notin {"peeking", "asleep"}

(* A message that has arrived is cut without a byte of the next one: a peer    *)
(* that waits for its answer gets it.                                         *)
Waiting ==
    \E i \in DOMAIN msgs : i > Len(frames) /\ msgs[i][2] >= msgs[i][1] /\ msgs[i][2] <= Len(wire)

EveryMessageIsCut == []<>(~Waiting \/ at \in Ended)
=============================================================================
